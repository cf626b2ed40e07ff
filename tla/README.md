# Verification of super-q

super-q runs Quartus seed sweeps for FPGA cores: a command line, a build daemon
and an MCP server on top of a scheduler that fans seeds out to local, container,
SSH or cloud workers, with an SQLite file as the only shared state.  This
directory holds TLA+ models of that code, the TLC configurations that check
them, and TLAPS proofs of what matters most.  Paths below are relative to
`src/super_q/` of the repository's sources unless they say otherwise.

## The system

| part | state | operations | interacts through |
|---|---|---|---|
| Store (`db.py`) | job, task, worker and event rows | one transaction per call | every process opens the same file |
| Scheduler (`scheduler.py`, `seeds.py`) | futures, `cancel_flag`, results, best | `run_sweep`, `_run_one`, `batch_run` | Store, executor threads, a backend |
| Worker (`worker.py`) | the row it took; in one-shot mode a sandbox | poll, claim, build, record, quit | Store, or the machine it was started on |
| Quartus runner (`quartus.py`, `tcl/`) | a process group, a deadline | copy, spawn, poll, kill, read reports | the backend's thread, `cancel_event` |
| Local backend, artifacts | slots; the `latest` pointer and `dist` of a core | run, collect, promote | scheduler threads, the file system |
| Warm shells (`warm_shell.py`) | a `quartus_sh` process, its pending requests, a pool of idle shells | spawn, `run_tcl`, `ping`, acquire, release, shutdown | pipes and reader threads |
| Incremental builder (`incremental.py`) | one lock per core, the outputs of the previous build | `run` | shell pool |
| Watch loop (`watch.py`) | the pending Event, the stop Event | change callback, consumer, stop | incremental builder |
| Build daemon (`daemon.py`) | a Unix socket, builders, stop flag | serve, dispatch, shutdown | clients, incremental builder, Store |
| SSH backend (`backends/ssh.py`) | a semaphore per host | pick a host, push, run, pull, clean | scheduler threads, the hosts |
| GitHub Actions (`backends/gha.py`, `gha.py`) | workflow runs, artifacts | dispatch, find, await, download; trigger, watch | the GitHub API |
| Fly, AWS, Modal, Docker backends | a machine, an upload bucket | launch, poll, fetch | cloud APIs |
| Pools (`pool_config.py`, `backends/__init__.py`) | the configuration | resolve a backend | every command |
| Explore (`explore.py`) | rungs, budget, best | climb | scheduler |
| Timing (`timing.py`, `tcl/common.tcl`) | none | parse and merge reports | runner |
| Core detection (`project.py`) | none | find one core, find all | every command |
| CLI, CI, MCP, progress view | none of their own | start, cancel, list, show | all of the above |

What is hard here: the claim of a row by threads and processes at the same
time; a cancellation that only changes rows; the early exit, which races with
seeds about to start; exceptions in a pool whose threads outlive the call;
crashes, after which only the rows are left; the life cycle of processes behind
pipes and sockets; slots that are given back on every error path; lookups of
remote runs by something that is not unique; answers that come in parts.
`PROJECT.json` lists forty such hazards, each with the line where it bites, the
properties that cover it, and a note on what they leave out; three are covered by none.

What makes each part correct:

- store and sweep: one builder per seed; rows that say what builds said; a
  verdict that is the best of what was collected and stays; an end.
- any backend: a task that entered comes back, its slot with it, and `ok` is
  said of a seed only for what its own compile made.
- artifacts: the pointer `latest` names a complete directory and is there, and what it
  names may be shipped (which the code does not keep).
- warm shells and incremental builder: a shell serves one build at a time, a core
  is compiled once at a time, a result comes from its own compile, every caller
  is answered; as far as each can be had once a request was given up.
- watch loop: a save is built or its build is reported as failed, no build is made up.
- build daemon: a daemon that listens can be reached, and no call hangs.
- explore: the time beyond the budget is bounded, and the outcome says what happened.
- timing, exit codes: the verdict is that of the worst slack, and what the shell, a
  CI job or a client is told is what the sweep returned.

## The modules

| module | models | extends or composes |
|---|---|---|
| `Store` | rows and transactions | |
| `Sweep` | scheduler, pool, worker daemons, user | `Store` |
| `WorkClaims` | abstract: a seed is claimed once and built by its owner | implemented by `Sweep` |
| `Backend` | abstract: what the scheduler relies on in a backend | implemented by the four below |
| `LocalBuild` | slots, the runner's polling, kills, Quartus | `Backend` |
| `Artifacts`, `SandboxCopy` | the steps of collecting, and of the copy into a sandbox | detail two steps of `LocalBuild` |
| `Pools` | which backend a command gets | |
| `SshPool`, `GhaDispatch`, `CloudRun` | the backends that run elsewhere | `Pools`, `Backend` |
| `WarmShell` | process, pipes, reader thread | |
| `Incremental` | builder and shell pool | `WarmShell` |
| `WatchLoop` | watcher, consumer, Ctrl-C | |
| `Daemon` | socket path, starts, stops, calls | |
| `Explore` | the ladder, its clock and exit codes | |
| `GhaWatch` | `gha trigger` and `gha watch` | |
| `Commands` | plans, batches, exit codes, CI outputs, answers to clients | |
| `Timing` | both readers of a timing report | |
| `FindCores` | `detect_core` and `find_cores` | |
| `MCSweep`, `MCIncremental`, `MCLocalBuild`, `MCRemotePools`, `MCServices` | instances for TLC | |
| `SweepProofs`, `ClaimsProofs` | theorems about the sweep, and that it implements `WorkClaims` | `Sweep` |
| `LocalProofs`, `FilesProofs` | theorems about the local backend and the files it makes | `MCLocalBuild` |
| `RemoteProofs`, `ShellsProofs`, `ServiceProofs` | theorems about the remote backends, the incremental builder and the services | `MCRemotePools`, `Incremental`, `MCServices` |
| `DataFacts` | lemmas: induction, recursion, parts of sequences | used by the three that need them |

The parts fit together as the code's do.  `Sweep` sees a build as a step that ends
with an outcome or an exception; `Backend` says what such a call promises, and each
backend is shown to keep it.  `LocalBuild.Start` and `LocalBuild.Collect` are single
steps there and whole modules in `SandboxCopy` and `Artifacts`.  `Explore` and
`Commands` see a sweep as any outcome after any time that `Sweep` allows, and the
watch loop and the daemon see a build as a call that returns, which is what
`Incremental` shows.  Parts that share no variable are put into one MC module, where
each behaviour follows one of them: their states then add up and do not multiply.

### Store and Sweep

`Store` has the four columns the code decides on: `jobs.status` (`job`),
`jobs.best_seed` (`best`), `tasks.status` (`row`) and `tasks.worker_id`
(`holder`), one task row for each position of the seed plan.  Every method of
`db.Store` is one `BEGIN IMMEDIATE` transaction, so each is one operator and
nothing happens within it.  `finish_task` and `finish_job` have no guard on the
old status, as in the code.

`Sweep` puts around it

- `run_sweep` as a thread with a control point `pc`: create the job, one row and
  one future per seed, collect outcomes as they come, on the first pass set
  `cancel_flag`, cancel the futures, drain the pool (for 15 s at most), write the
  verdict, announce it, or take the exception path;
- one future per seed, whose state also says where its thread is in `_run_one`:
  look at the flag, claim, start, build.  `QueueHead` is the order in which
  `concurrent.futures` takes work; a cancelled future stays in the queue until
  a thread takes it off, and only then `cf.wait` counts it;
- `Daemons`, the `super-q-worker daemon` processes: poll, claim, rebuild the
  spec, build, record; they can quit, and a worker can die anywhere;
- `Cancel`, the user: the command line, the build daemon and the MCP server all
  call `cancel_job`, which changes rows and tells nobody;
- `StoreFault`, `ThreadFault` and a crash of the scheduler, bounded by `MaxFaults`.

Scores are small integers; `NegInf` is the score of a seed that failed or passed without
timing.  `lateStarts` is a history variable.  `WorkClaims` is what a sweep promises about
work: a seed is claimed at most once, by one worker, and a build that ended for whatever
reason is not begun again.  `LeftOpenExplained` is about the end: which rows a finished job
leaves open in the database, and who may still close them.  The refinement maps `owner` to
the `worker_id` column and `busy` to "somebody is between claim and end of a build of this
seed", which relates the rows to the control points of all threads and processes.

### Backends

`Backend` has the calls of `run()`, the free slots, and the seeds that are fit to be
shipped.  A call is refused, or enters, taking a slot, and leaves with an outcome or an
exception, giving it back; it says `ok` only of a fit seed, and a compile may become fit
after its call has given up.  What "fit" is differs, and each mapping says it:

- `LocalBuild`: the seed's own sandbox holds a bitstream and a report that meets
  timing.  A task is a seed and a control point: called, waiting for a slot, starting,
  waiting, collecting.  `leader` is its `quartus_sh`, which goes on while the thread looks
  away; the three ends of the polling loop (`Exited`, `Cancelled`, `TimedOut`) and Ctrl-C
  race with `SplitGivesUp`, `Writes` and `FlowEnds`.  `stuck` is a process that outlives
  SIGKILL.  `seen` is the seed Quartus compiles with.
- `SshPool`: the worker on the host passed and its files came back.  `_pick_host` reads the
  counters under a lock and `Enter` takes the semaphore later; a client that gives up leaves
  the worker running (`remote`).  A copy (`Rsync`) fails, ends, or never does.
  `OutputsHere` and `LookedFor` are paths: the directory comes back as `<remote dir>` and
  the outputs are looked for under the name of the core, so no seed over SSH is ever
  reported ok.
- `GhaDispatch`: the seed's own run met timing, and the bitstream in the directory is one
  that it made or one that an earlier build left in the core: the core is packed as it
  stands, with its `output_files` (`backends/gha.py:224`), the workflow uploads every `.rbf`
  below it (`.github/workflows/build-core.yml:124` of the repository), and the client takes
  the first it meets (`backends/gha.py:206`).  `littered` says whether there is such a file,
  `Earlier` is its maker.  `runs` is the list as GitHub shows it, `hidden` what it has
  accepted and does not show; a task takes the newest run of the job for its own.  `Within`
  says which seeds are found, as text, in the artifact name of another.  It is the identity
  in the run: with 1 beside 12, or a digit of the job id in the name
  (`backends/gha.py:191`), another seed's bitstream is taken, and the promise does not hold.
- `CloudRun`: the bitstream is in the directory, or for AWS in the bucket, and Quartus met
  timing; on Modal it need only have ended well.  One module has the four, since they differ
  in few places (`ToUpload`, `Accepts`, `Freed`): the objects a machine uploads one by one
  in its own order, and the one the client polls for.  An error may leave the backend from
  any stage (`CloudRaises`); only Modal's call itself is guarded.

`Artifacts` has the collectors of one core between their steps: copy, test the link,
remove it, make it, or write a file instead.  Bytes are reversed bit by bit (`Mirror`), with
`Width` bits.  `SandboxCopy` has the file system as a set of paths and `copytree` as the list of
copies it has yet to make, so that a work directory may lie inside what is copied.

### WarmShell and Incremental

`WarmShell` is a `quartus_sh` process with its handle and its reader thread.
`proc` is the process; `mark` is the `_ready` attribute, which the reader thread
creates (missing, clear, set); `inbox` is both what the process still has to
read and what is in `_pending`; `answer` is the reply queue of a caller's last
call; `eof` says that the reader has drained.  `close()` terminates the shell
alone, so a compile in its child processes goes on: `flow`.  That these children
outlive a terminated shell and hold its pipes is how `quartus.py` explains its
process groups (`quartus.py:297`).  Evaluating a body can end well, fail, or end the
shell (`exit` in a sourced script).

`Incremental` adds threads in `IncrementalBuilder.run`: the lock of the core, the
pool's lock (held over the pings and the start of a shell), `acquire`, the two
requests, `release`, or the cold path; and `shutdown` at any moment.  `files` says
what `output_files` holds of bitstream and Quartus reports: nothing, something older than
the current build of the core, or something its own compile wrote.  `report` says the same
of `timing.json`, which the script dumps after the compile and which the builder prefers to
the reports (`merge_reports`); a dump that fails is a warning to the script, so the file of
the build before is `kept`.  What a given-up request writes is `old` (`Age`).  A fault is a
late answer, a failed start, a process that dies or a dump that fails; which of them may
happen is `Faults`, how often is `MaxFaults`.

### WatchLoop, Daemon, Explore, GhaWatch

In `WatchLoop`, `main` is the thread in `run()` and `stop()`, `consumer` the build thread,
`pending` and `stopping` the two Events.  The sources are a version that each save
increases; a build reads them once, some time after it started, or fails before it does
(`FailEarly`: what `builder.run` raises or returns as an error, a broken pipe of its shell
for instance).  Such a failure is reported and not tried again, so what the build was asked
for is `failed`; `asked` is the latest version known to the watcher when it was asked for.
`_stopping` and `_pending` are read in two steps, as in the code, which lets the wake-up of
`stop()` start one build more.

`Daemon` is about the socket path: `path` names the process whose socket is there, alive or
not.  Servers ask whether a daemon answers, look again in `serve()`, remove the path, make
their state, bind, serve, and on the way out close, remove the path and wind up.  Callers
connect, ping, and stop.  `clash` is a history variable: a start met another start, or a
stop that was not over.

`Explore` counts half seconds, since the timeout it hands on is a whole number of seconds; a
rung takes up to its waves times that timeout and what each seed takes beside it (`Grace`:
the copy of the project, SIGTERM, SIGKILL, the outputs), then the wait for stragglers
(`Drained`) and, with a shared synthesis, up to `SynthCap` more.  In `GhaWatch` a run moves
on between the two reads of a poll, a dispatch reported as failed may have been accepted,
and `gh` is tried again.

### Commands, Timing, FindCores

`Commands` starts from a plan of seeds (each strategy and its edge cases), runs one sweep or
a batch in a pool of threads, and ends as the command does, Python's 1 for an
exception included.  `Timing` reads a report table by table with both readers at once; a
table that neither knows may follow any other.  `FindCores` has directories as sequences
of names; `Dotted` are those that begin with a dot.

## Runs

| run | asks | instance |
|---|---|---|
| `sweep_faults` | types; a recorded row keeps its outcome; one builder per seed; which rows stay open; `Sweep` implements `WorkClaims` | 2 seeds, 2 threads, 2 daemons, cancel, 2 faults |
| `sweep_all` | without early exit: verdict and printed summary in all orders of arrival; every row settles; the verdict stays | 3 seeds, scores -inf, 0, 1, 1 daemon, cancel |
| `sweep_live` | builds started after the winner; the sweep ends and a pass wins | 4 seeds, 2 threads, cancel |
| `shells` | types, shells apart, nobody left waiting, one compile per core, a warm result is of its own compile, every build returns | 2 shells, 2 threads, 2 cores, warm and cold, 2 builds, one fault of any kind, a shutdown |
| `local_builds` | slots and pointer hold, `ok` is earned, sandboxes and bitstreams are right, `LocalBuild` implements `Backend`, every task returns | 3 seeds, 2 slots, 1 on the main thread; 3 collectors; a work directory inside and one beside the core |
| `remote_pools` | slots of the hosts, each of the three modules implements `Backend`, every task returns | every configuration of one named pool; 3 tasks on 2 hosts of 1 slot; 2 seeds on GitHub; 2 machines over 1 slot |
| `services` | watch loop, daemon, ladder, `gha`, commands, timing, cores: see below | 4 saves; 2 servers, a caller, a kill; 3 rungs; 1 retry; 3 cores on 2 threads; 2 clocks; 6 directories |
| `sweep_cancel`, `shells_stale`, `local_seed`, `local_latest`, `daemon_clobber` | violated: see Findings | the smallest that show it |

`services` checks that no noticed save is forgotten and no build made up, and that a noticed
save is built or its build reported failed; that a lone daemon is the one at its path; that
the ladder's overrun is bounded; that codes, outputs and reports say what the sweeps or the
run did; that both readers of a report judge it, within what each can see; that the two
searches for cores agree; and that calls of the daemon and `gha` commands end.

Why the bounds are enough.  Two seeds are a race about one row beside a row that must not be
touched; three let one seed pass while another runs and a third waits, and in arrival order
cover a better, a tied and an unscored successor of the best; four seeds over two threads
let more builds start late than there are threads if the code allowed it.  Two daemons and
two threads are four claimants of one row.  Two builders may meet over one core, where the
lock keeps them apart, or hold the shells of two cores at a time, and find the shell of the
build before idle, dead or still busy with what was given up; two builds are one that leaves
something behind (outputs, a shell, a request in it) and one that finds it.  With
`MaxFaults` 2 the invariants hold as well, over three times the states.  Three tasks over
two slots leave one waiting on every error path of the others; three tasks over two hosts of
one slot let two pick the same host while another is idle.  Two seeds on GitHub are enough
to attach to each other's run.  Three collectors let two race while the pointer is left by a
third.  Two servers and a caller that may stop one are a start beside a stop, a start beside
a start, and both beside a path that a killed one left.  Four saves put one before the
watcher, one into a build, one into the same report and one after it.  The bounds that cap
counters are `MaxFaults`, `MaxBuilds`, `MaxSaves`, `MaxKills`, `MaxPolls`, `MaxLists` and
`Retries`; the last three are numbers of the code, made smaller.

`CHECK_DEADLOCK FALSE` stands where the system may stop: a task that has returned, a
command that has ended.  Every property of a passing run has a mutant in `PROJECT.json`: a
plausible bug in one definition (a claim without its guard, a ping without its answer, a lock
per build, a slot that is not given back, an exit code of another command) under
which the run fails.

## Fairness

Only steps that the code's scheduling forces are fair, and only weakly.

- `Sweep`: the thread of `run_sweep`, each pool thread, each daemon that holds a row.
  Quartus runs end because `timeout_s` kills them.  Nobody has to poll, quit,
  cancel or fail.
- `Incremental`: each thread that has asked for a build (its waits have time
  limits, its locks are held by threads that go on) and each shell (its compile
  ends, its reader thread runs).  No fault is fair.
- `LocalBuild`: the scheduler's `Settle`, each thread, and the deadline of each run.
  Quartus owes nothing.
- `SshPool`: each thread and the deadline of the client.  Neither the worker on the host nor
  `rsync` owes anything, since the code gives a copy no limit: `SshTasksReturn` says that a
  task returns unless its own copy never ends, or those of as many others as its host has
  slots.
- `GhaDispatch`: each thread and the deadline.  GitHub's runs owe nothing: reading the list
  is bounded, and each request has a limit.
- `CloudRun`: each thread, whose requests have limits of their libraries; the client's
  deadline for Fly and AWS, that of `subprocess.run` for Docker, that of the function for
  Modal.
- `WatchLoop`: the main thread's own steps and the consumer (`wait` has a time limit
  of 0.5 s).  Neither saves nor Ctrl-C are fair.
- `Daemon`: processes run; no command has to be given, nobody has to be stopped or killed.
- `GhaWatch`: the command's own steps, a call of `gh` among them, for which the code sets no
  limit (`gha.py:77`): that it returns is assumed.  The run and the user owe nothing.

## What is proved

For every value of the constants, from the assumptions named in the modules, TLAPS checks:

| theorem | module | says |
|---|---|---|
| `TypeCorrect` | `SweepProofs` | `[]SweepTypeOK` |
| `BuildsExclusive` | | `[]OneBuilder`, with faults, crashes and cancellations |
| `RowsKeepOutcomes` | | `[]RecordedRowHolds` |
| `VerdictCorrect` | | `[]VerdictSound` |
| `SummaryCorrect` | | `[]SummaryAgrees` |
| `LeftOpenIsExplained` | | `[]LeftOpenExplained` |
| `VerdictFinal` | | `VerdictStays`, if `MaxFaults = 0` |
| `ClaimsImplemented` | `ClaimsProofs` | `Sweep` implements `WorkClaims` |
| `LateStartsBounded` | | `[]FewLateStarts` |
| `LocalTypeCorrect`, `SlotsExclusive`, `OkIsEarned` | `LocalProofs` | `[]LocalTypeOK`, `[]SlotsHold`, `OkIsOwn` |
| `LocalImplementsBackend` | | `LocalBuild` implements `Backend` |
| `PointerNeverLost`, `NothingShippedRaw` | `FilesProofs` | `[]PointerStands`, `[]ShelfMirrors` |
| `SandboxHoldsProject` | | `[]SandboxIsProject`, if `WorkDirsApart` |
| `LocalTypesCorrect` | | `[]LocalTypesOK` |
| `HostSlotsAddUp`, `RemoteTypesCorrect` | `RemoteProofs` | `[]HostSlotsHold`, `[]RemoteTypeOK` |
| `PoolsImplementBackend` | | `SshPool`, `GhaDispatch` and `CloudRun` implement `Backend`, if `Within` is the identity |
| `ShellsTypesCorrect`, `ShellsStayApart`, `CallersAreAnswered` | `ShellsProofs` | `[]TypeOK`, `[]ShellsApart`, `[]NobodyLeftWaiting` |
| `CoreIsCompiledOnce`, `WarmResultIsOwn` | | `[]OneCompile`, `[]ResultIsOwn`, each about the time before a request was given up |
| `WatchTypeCorrect`, `NoSaveForgotten`, `NoBuildMadeUp` | `ServiceProofs` | `[]TypeOK`, `[]NothingForgotten`, `[]BuildsAskedFor` |
| `DaemonReachable` | | `[]AloneIsReachable` |
| `LadderIsBounded` | | `[]OverrunBounded` |
| `LastUpdateIsTrue`, `UpdatesMoveForward` | | `[]EndIsTold`, `GhaTells` |
| `ReportsAreJudged` | | `[]ReportsJudged` |
| `CoresAreFound` | | `[]CoresFound` |
| `CodesAreEarned`, `ServicesTypesCorrect` | | `[]CodesTell`, `[]ServicesTypeOK` |

So every invariant, action property and refinement of a passing run is a theorem, under the
hypothesis that the table names where it names one.

### The sweep

`OneBuilder` is not inductive: that a daemon's claim fails depends on rows being queued only
while nobody holds them (`FreeRows`), on rows and futures being created in plan order
(`RowsAhead`), on nobody working on a row that is not there (`RowsExist`) and on workers
owning what they work on (`OwnersWork`).  Together with the types these are `ClaimInv`.  The
verdict needs in addition that a collected outcome does not change (`RecordedSettled`), that
the local `best` is right after every outcome (`LeadInv`) and that the row repeats it
(`VerdictInv`): `SweepInv`.  The summary sorts the results anew, and that it puts the same
seed first needs to know which of several tied ones is the local `best`: the one that
arrived first (`LeadFirst`).  `LeftInv` says that a recorded row is closed and that a future
settled by a thread has its row with somebody or untouched; `FaultFree` stands alone on top
of the types.  The refinement of `WorkClaims` follows from `ClaimInv`: each step either
begins exactly one build of a free seed, or begins none.  `LateInv` counts: the threads that
were past their look at `cancel_flag` when it was set, and the late starts they have used
up, are never more than the pool.

### The backends

`LocalInv` has that the counter and the tasks inside add up to `Slots` (`SlotsAddUp`), that a
running leader is one its thread waits for (`UpIsAwaited`), that nothing of an earlier build
is in a sandbox (`BoxIsFresh`), and that a verdict is there exactly after the run, `ok` only
on a fit sandbox (`VerdictIsEarned`).  The refinement of `Backend` maps each action to one of
its steps or to none, from that invariant.

The remote backends need the same sum of slots (`SlotsLent`, `GhaSlotsLent`,
`CloudSlotsLent`) and that what makes a seed fit does not go away again, which each has for
a reason of its own: a worker is started once and stays as it ended (`WorkerIsHeard`); a
seed is dispatched once, so the run that a task has found is the only one of its name
(`RunsAreOnce`, `RunsAreHeard`), and a bitstream is its own or the core's leftover; a
machine is started once, and on AWS the bitstream goes up before the result the client waits
for (`BuildsAreOnce`, `BitFirst`).  `RotationHolds` bounds the counter of the host rotation,
which goes on without a modulus when every host is busy.  That GitHub's runs are told apart
is the hypothesis `Within \subseteq Same`: without it the promise is false, see
`GhaDispatch` above.

### Files

`ArtInv` says who may find the pointer missing: it is lost only while somebody is about to
write it anew (`PointerOrRenewal`), and where links can be made only while somebody is about
to make one (`LinkOrLinking`); neither is inductive without `NotTheFirst`.  That reversing
twice gives a bitstream back is proved for every width: a byte is what its digits say, and
digits say only one byte, by induction on how many there are.

`CopyInv` follows the list of copies that `copytree` has yet to make: what is in the sandbox
is of the project (`BoxInv`), and what is not there yet is in the list, or a directory above
it is (`CoverInv`).  `WorkDirsApart` says that a work directory inside the core is below a
directory that the copy leaves out, as the core's `.superq` is.  A cache moved by the
environment (`SUPERQ_HOME`) into some other directory of the core would be copied
into the sandboxes it holds; the theorem does not speak of it, nor does the run.

### Shells

`PoolInv` ties having a shell to the control point (`HasShell`) and keeps the shells in use
and those in the buckets apart (`UsedApart`, `IdleApart`).  A caller is answered because a
request without answer is in the pipe of its shell (`Pending`), and the reader drains the
pipe before it ends (`EofGone`).  That nothing older is in a shell when `acquire` hands it on
(the last part of `ShellsApart`) holds with late answers too: requests are answered in order,
so behind the ping of a build there is nothing (`PingLast`, `WantedLast`), and once the ping
is answered there is nothing before it (`NoneLeft`); together `FreshInv`.

`OneCompile` and `ResultIsOwn` are about the time before a request was given up (`LateStays`:
once it was, it was).  Until then a pipe holds the one request of the caller that waits for it
(`Calm`), a compile that outlived its shell is one whose caller waits (`LeftRuns`), and the
lock of a core is with the build past it (`LockHeld`): so one compile per core, and what it
wrote is there for its own build (`OwnFiles`), except the timing that its own failed dump has
left as it was.  Afterwards both are false: a warm build that timed out compiles on beside the
next one, see Findings.

### Services

In the watch loop `Coming` says who has a noticed save in hand, unless a build has read it
or failed over it, and `Used` that every setting of the Event pays for one build.
`DaemonInv` says, as long as there was no clash, that one process moves (`OneMoves`), that
past the question whether a daemon answers there is none, or the question is still with the
process at the path (`StartsAlone`), and that who is about to bind has cleared the path
(`PathIsClear`).  `ClockInv` bounds the clock at each stage of a rung, `ReasonsInv` what has
been noted by then.  `GhaAhead` orders what a `gha` command has told, what it got and how
far the run is, which is what a poll that reads the run and its jobs apart could get wrong.
`CmdInv` counts the outcomes of a batch against the cores that reported, and bounds the
sweeps at work.  `DumpStands` and `TextStands` say of the lines read so far what the theorem
says of the whole report.  `FindInv` says that a project found for a path is one that its
walk upwards meets.

### Induction

The library's induction theorems take a predicate, which none of the provers can be handed.
`DataFacts` states induction of a set of numbers instead, derives it from the
well-foundedness of `<`, and proves from it that a recursion from step to step does define a
function; the recursive functions of `Artifacts` and `SshPool` are reasoned about
through that.  The sums of slots over hosts are such functions for this reason.

Assumptions on constants are in the modules that declare them and are evaluated by the runs:
the sets of seeds and of machines are finite, a project is a finite tree, work directories
and places are paths, bytes have a width.

## What is only model-checked

Liveness, which is out of the prover's reach: `SweepEnds`, `RowsSettle`, `Returns`,
`TasksReturn`, `NoticedSavesBuilt`, `CommandsEnd`.  The five properties that are violated.
And what the theorem has as a hypothesis: TLC finds `PoolsAreBackends` violated with a
`Within` that is more than the identity.  It finds `OneCompile` violated, too, when its
restriction to the time before a request was given up is dropped.

Left to prove: that an ended build is final in `WorkClaims` itself and a `Backend` never
counts more than its slots, so that clients of the two can rely on either without looking
at who implements it.

## Findings

Runs with `expect: violation` show where the repository says one thing and the code
does another.

- `sweep_cancel`: a cancelled job is overwritten by the verdict of its sweep.
- `shells_stale`: a cold build that failed returns the outputs of an earlier build.
- `local_seed`: the overrides of the environment are built and dropped, so the seed of a
  task never reaches its Quartus, and split-fit always gives up.
- `local_latest`: every collected seed renews `latest`, a failing one too, where the README
  promises the most recent passing seed and the guide for agents ships what it names.
- `daemon_clobber`: `daemon already running` is raised inside a catch-all, and the second
  daemon takes the path of the first.

Others have no run of their own and are noted with their hazards: after an early exit the
row of a straggler stays `running` (`scheduler.py:8`); nobody releases the row of a dead
worker (`db.py:11`); the scheduler records `already claimed` over a worker daemon's pass
(`scheduler.py:302`); a ping of a dead shell raises what the pool does not expect
(`warm_shell.py:252`); a warm build that timed out compiles on beside the next one
(`incremental.py:7`); a timing dump that fails leaves the timing of an earlier build, which
is then believed (`tcl/incremental_build.tcl:59` of the repository, `timing.py:232`); a run
on GitHub that met timing may be reported with a bitstream that an earlier build left in the
core (`backends/gha.py:206`); a build of the watch loop that fails before Quartus has read
the sources is not tried again (`watch.py:149`); a save between the first build's reading
and the watcher's registration is not built (`docs/iteration.md:27` of the repository); a
task over SSH may wait for a busy host while another is idle (`backends/ssh.py:18`); a
failed sweep ends a command with 1 where 3 is promised (`cli.py:11`), and a spent budget
ends `explore` with 4, which is `job cancelled` there (`cli.py:12`).

Met while modelling and of less weight, at the lines they stand: an SSH outcome looks for its
outputs where they are not (`backends/ssh.py:211`); a workflow that does not name its runs
after the job leaves a dispatch unfound (`backends/gha.py:153`); AWS leaves a machine up whose
script stopped early (`backends/aws.py:208`); the kinds local, docker and aws cannot be
given as a pool of the configuration (`pool_config.py:139`); the text reader of reports
lets an unknown table pass as the one before (`timing.py:131`).

## Not modelled

Time itself, but for `Explore`: timeouts are choices, and heartbeats are left out since
nothing decides on them.  The event log, copied columns, log files and the wording of
results.  The order among rows of several jobs in `next_queued_task` (there is one job: a
daemon may take any queued row, which is more than the code allows).  Builders of several
processes or of several MCP calls, which share no lock (`mcp_server.py:337`).  Of the command
line, what only shows (status, inspect, tables, the progress view) or writes files once
(init, clean, remote, gha init).  Packaging and scaffolding (`init.py`, templates),
container images, cloud templates and workflows: no state of their own.  Costs, prices
and machine sizes.  `PROJECT.json` says for each part what is left out of it.

---------------------------- MODULE Incremental ----------------------------
(***************************************************************************)
(* IncrementalBuilder.run on top of ShellPool, in one process: the watch   *)
(* loop has one thread that calls it, the build daemon one for each client.*)
(* A build runs in the core's own Quartus directory, either through a warm *)
(* shell of the pool or with a cold quartus_sh, and then takes whatever    *)
(* lies in output_files as its result: the bitstream, and the timing.json  *)
(* that incremental_build.tcl dumps after the compile.  A failed dump is   *)
(* only a warning there.                                                   *)
(*                                                                         *)
(* The pool's lock is held for the whole of acquire(), pings and start-up  *)
(* of a new shell included.                                                *)
(***************************************************************************)
EXTENDS WarmShell, SequencesExt

CONSTANTS
  Cores,
  Size,       \* ShellPool(size=...)
  Modes,      \* {"warm"}, or with "cold" for use_warm_shell=False
  MayStop,    \* may the owner shut the pool down?
  NoShell,
  MaxBuilds,  \* bound on builds
  Faults,     \* which of these may happen: "late" answers, "start" failures
              \* of a shell, "death" of its process, a "dump" that fails
  MaxFaults   \* bound on how many

ASSUME IncrementalAssumption ==
  /\ Cores # {}
  /\ Size \in Nat
  /\ Modes \subseteq {"warm", "cold"}
  /\ MayStop \in BOOLEAN
  /\ NoShell \notin Shells
  /\ Faults \subseteq {"late", "start", "death", "dump"}
  /\ MaxBuilds \in Nat /\ MaxFaults \in Nat

VARIABLES
  bpc,       \* where each thread is in run()
  at,        \* the core it builds
  using,     \* its shell, from pop or spawn to release
  coreLock,  \* who holds the lock of a core
  poolLock,  \* who holds the lock of the pool
  idle,      \* ShellPool._shells: the idle shells of each core
  home,      \* the core in whose directory a shell runs
  files,     \* the bitstream and the Quartus reports in output_files: none, or
             \* from before or within the current build of the core
  report,    \* timing.json, in the same way ("none" also if it is unreadable), or
             \* kept from before by a dump of the current build that failed
  stopped,   \* has shutdown() been called?
  builds,    \* builds asked for so far
  faults     \* the kinds of the faults so far

Waiting == {"ping", "opening", "compiling"}
Stages  == {"idle", "lock", "acquire", "pick", "boot", "open", "compile",
            "put", "putFailed", "cold", "coldRun", "collect",
            "coldCollect", "failed"} \cup Waiting

pool == <<poolLock, idle, home, stopped>>
out  == <<files, report>>
vars == <<shells, bpc, at, using, coreLock, pool, out, builds, faults>>

TypeOK ==
  /\ ShellsTypeOK
  /\ bpc \in [Callers -> Stages]
  /\ at \in [Callers -> Cores]
  /\ using \in [Callers -> Shells \cup {NoShell}]
  /\ coreLock \in [Cores -> Callers \cup {Nobody}]
  /\ poolLock \in Callers \cup {Nobody}
  /\ idle \in [Cores -> Seq(Shells)]
  /\ home \in [Shells -> Cores]
  /\ files \in [Cores -> {"none", "old", "new"}]
  /\ report \in [Cores -> {"none", "old", "kept", "new"}]
  /\ stopped \in BOOLEAN
  /\ builds \in 0..MaxBuilds
  /\ faults \in Seq(Faults) /\ Len(faults) <= MaxFaults

Init ==
  /\ ShellsInit
  /\ bpc = [b \in Callers |-> "idle"]
  /\ at = [b \in Callers |-> CHOOSE c \in Cores : TRUE]
  /\ using = [b \in Callers |-> NoShell]
  /\ coreLock = [c \in Cores |-> Nobody]
  /\ poolLock = Nobody
  /\ idle = [c \in Cores |-> <<>>]
  /\ home = [s \in Shells |-> CHOOSE c \in Cores : TRUE]
  /\ files \in [Cores -> {"none", "old"}]
  /\ report = files
  /\ stopped = FALSE
  /\ builds = 0
  /\ faults = <<>>

Goto(b, stage) == bpc' = [bpc EXCEPT ![b] = stage]

Fault(kind) ==
  /\ kind \in Faults
  /\ Len(faults) < MaxFaults
  /\ faults' = Append(faults, kind)

Struck(kind) == kind \in ToSet(faults)
-----------------------------------------------------------------------------
(* run(): the lock of the core *)

Ask(b) ==
  /\ bpc[b] = "idle"
  /\ builds < MaxBuilds
  /\ builds' = builds + 1
  /\ \E c \in Cores : at' = [at EXCEPT ![b] = c]
  /\ Goto(b, "lock")
  /\ UNCHANGED <<shells, using, coreLock, pool, out, faults>>

\* What the build before this one wrote is old from now on.
Aged(file, c) == [file EXCEPT ![c] = IF @ = "none" THEN @ ELSE "old"]

\* Mutant: every build has a lock of its own.
MutLock(b) ==
  /\ bpc[b] = "lock"
  /\ coreLock' = [coreLock EXCEPT ![at[b]] = b]
  /\ files' = Aged(files, at[b])
  /\ report' = Aged(report, at[b])
  /\ \E mode \in Modes : Goto(b, IF mode = "warm" THEN "acquire" ELSE "cold")
  /\ UNCHANGED <<shells, at, using, pool, builds, faults>>

Lock(b) ==
  /\ bpc[b] = "lock"
  /\ coreLock[at[b]] = Nobody
  /\ coreLock' = [coreLock EXCEPT ![at[b]] = b]
  /\ files' = Aged(files, at[b])
  /\ report' = Aged(report, at[b])
  /\ \E mode \in Modes : Goto(b, IF mode = "warm" THEN "acquire" ELSE "cold")
  /\ UNCHANGED <<shells, at, using, pool, builds, faults>>

\* The result is taken from output_files, or is the text of the exception.
Return(b) ==
  /\ bpc[b] \in {"collect", "coldCollect", "failed"}
  /\ coreLock' = [coreLock EXCEPT ![at[b]] = Nobody]
  /\ Goto(b, "idle")
  /\ UNCHANGED <<shells, at, using, pool, out, builds, faults>>
-----------------------------------------------------------------------------
(* ShellPool.acquire *)

Acquire(b) ==
  /\ bpc[b] = "acquire"
  /\ poolLock = Nobody
  /\ poolLock' = b
  /\ Goto(b, "pick")
  /\ UNCHANGED <<shells, at, using, coreLock, idle, home, out, stopped,
                 builds, faults>>

Pop(c) == idle' = [idle EXCEPT ![c] = Front(@)]

PickIdle(b) ==
  /\ bpc[b] = "pick"
  /\ idle[at[b]] # <<>>
  /\ Pop(at[b])
  /\ LET s == Last(idle[at[b]]) IN
       /\ Send(s, b, "ping")
       /\ using' = [using EXCEPT ![b] = s]
  /\ Goto(b, "ping")
  /\ UNCHANGED <<at, coreLock, poolLock, home, out, stopped, builds, faults>>

\* Mutant: the pool tries the dead shell again and again.
MutPickDead(b) ==
  /\ bpc[b] = "pick"
  /\ idle[at[b]] # <<>>
  /\ SendBreaks(Last(idle[at[b]]))
  /\ UNCHANGED vars

\* ping() expects a WarmShellError only, so the exception leaves acquire().
PickDead(b) ==
  /\ bpc[b] = "pick"
  /\ idle[at[b]] # <<>>
  /\ Pop(at[b])
  /\ SendBreaks(Last(idle[at[b]]))
  /\ poolLock' = Nobody
  /\ Goto(b, "failed")
  /\ UNCHANGED <<at, using, coreLock, home, out, stopped, builds, faults>>

PickNew(b) ==
  /\ bpc[b] = "pick"
  /\ idle[at[b]] = <<>>
  /\ \E s \in Shells :
       /\ Reusable(s)
       /\ \A c \in Cores : s \notin ToSet(idle[c])
       /\ \A d \in Callers : using[d] # s
       /\ Spawn(s)
       /\ using' = [using EXCEPT ![b] = s]
       /\ home' = [home EXCEPT ![s] = at[b]]
  /\ Goto(b, "boot")
  /\ UNCHANGED <<at, coreLock, poolLock, idle, out, stopped, builds, faults>>

Acquired(b) ==
  /\ poolLock' = Nobody
  /\ Goto(b, "open")
  /\ UNCHANGED <<shells, at, using, coreLock, idle, home, out, stopped,
                 builds, faults>>

\* Mutant: a shell is taken to be free without its answer to the ping.
MutPinged(b) == bpc[b] = "ping" /\ Acquired(b)

Pinged(b) == bpc[b] = "ping" /\ answer[b] = "ok" /\ Acquired(b)

Eject(b) ==
  /\ Close({using[b]}, b)
  /\ using' = [using EXCEPT ![b] = NoShell]
  /\ Goto(b, "pick")
  /\ UNCHANGED <<at, coreLock, pool, out, builds>>

PingRefused(b) == bpc[b] = "ping" /\ answer[b] = "err" /\ Eject(b) /\ UNCHANGED faults
PingLate(b)    == bpc[b] = "ping" /\ answer[b] = "none" /\ Eject(b) /\ Fault("late")
-----------------------------------------------------------------------------
(* WarmShell.__init__ at the end of acquire() *)

Ready(b) == bpc[b] = "boot" /\ mark[using[b]] = "set" /\ Acquired(b)

\* Mutant: `finally` releases the shell without looking whether there is one.
MutStartUpFails(b) ==
  /\ poolLock' = Nobody
  /\ using' = [using EXCEPT ![b] = NoShell]
  /\ Goto(b, "putFailed")
  /\ UNCHANGED <<shells, at, coreLock, idle, home, out, stopped, builds>>

\* The constructor raises: nobody has the handle any more, and the process, if
\* it lives, is not terminated.
StartUpFails(b) ==
  /\ poolLock' = Nobody
  /\ using' = [using EXCEPT ![b] = NoShell]
  /\ Goto(b, "failed")
  /\ UNCHANGED <<shells, at, coreLock, idle, home, out, stopped, builds>>

DiedEarly(b) ==
  /\ bpc[b] = "boot"
  /\ mark[using[b]] = "clear"
  /\ ~ Alive(using[b])
  /\ StartUpFails(b)
  /\ UNCHANGED faults

\* The constructor waits on _ready before the reader thread has created it.
ReadyRace(b) ==
  /\ bpc[b] = "boot"
  /\ mark[using[b]] = "missing"
  /\ StartUpFails(b)
  /\ Fault("start")

ReadyLate(b) ==
  /\ bpc[b] = "boot"
  /\ mark[using[b]] = "clear"
  /\ StartUpFails(b)
  /\ Fault("start")
-----------------------------------------------------------------------------
(* _run_via_shell *)

Call(b, here, kind, there) ==
  /\ bpc[b] = here
  /\ \/ Send(using[b], b, kind) /\ Goto(b, there)
     \/ SendBreaks(using[b]) /\ Goto(b, "putFailed")
  /\ UNCHANGED <<at, using, coreLock, pool, out, builds, faults>>

OpenProject(b) == Call(b, "open", "open", "opening")
Compile(b)     == Call(b, "compile", "compile", "compiling")

\* The result of open_project is not looked at.
Opened(b) ==
  /\ bpc[b] = "opening"
  /\ answer[b] # "none"
  /\ Goto(b, "compile")
  /\ UNCHANGED <<shells, at, using, coreLock, pool, out, builds, faults>>

\* Mutant: neither is the result of the compile.
MutCompiled(b) ==
  /\ bpc[b] = "compiling"
  /\ answer[b] # "none"
  /\ Goto(b, "put")
  /\ UNCHANGED <<shells, at, using, coreLock, pool, out, builds, faults>>

Compiled(b) ==
  /\ bpc[b] = "compiling"
  /\ answer[b] # "none"
  /\ Goto(b, IF answer[b] = "ok" THEN "put" ELSE "putFailed")
  /\ UNCHANGED <<shells, at, using, coreLock, pool, out, builds, faults>>

\* A request that takes an hour is given up; the shell goes back to the pool
\* with the request still in it.
RequestLate(b) ==
  /\ bpc[b] \in {"opening", "compiling"}
  /\ Abandon(using[b], b)
  /\ Goto(b, "putFailed")
  /\ Fault("late")
  /\ UNCHANGED <<at, using, coreLock, pool, out, builds>>

\* release(), whatever the state of the shell and of the pool.
Release(b) ==
  /\ bpc[b] \in {"put", "putFailed"}
  /\ poolLock = Nobody
  /\ IF Len(idle[at[b]]) < Size
     THEN idle' = [idle EXCEPT ![at[b]] = Append(@, using[b])] /\ UNCHANGED shells
     ELSE Close({using[b]}, b) /\ UNCHANGED idle
  /\ using' = [using EXCEPT ![b] = NoShell]
  /\ Goto(b, IF bpc[b] = "put" THEN "collect" ELSE "failed")
  /\ UNCHANGED <<at, coreLock, poolLock, home, out, stopped, builds, faults>>
-----------------------------------------------------------------------------
(* _run_cold *)

ColdStart(b) ==
  /\ bpc[b] = "cold"
  /\ Goto(b, "coldRun")
  /\ UNCHANGED <<shells, at, using, coreLock, pool, out, builds, faults>>

\* A compile that ends well has replaced the bitstream and dumped the timing...
Written(c, age) ==
  /\ files' = [files EXCEPT ![c] = age]
  /\ report' = [report EXCEPT ![c] = age]

\* ... or failed to dump it: the timing.json of before is kept, or broken off.
Undumped(c, age) ==
  /\ files' = [files EXCEPT ![c] = age]
  /\ \E json \in {"none"} \cup (IF report[c] = "none" THEN {} ELSE {"kept"}) :
       report' = [report EXCEPT ![c] = json]
  /\ Fault("dump")

\* The exit status of the compile is dropped: failed, killed after its time
\* limit or done, the build goes on to read output_files.
ColdEnd(b) ==
  /\ bpc[b] = "coldRun"
  /\ \E r \in Replies : IF r = "ok" THEN Written(at[b], "new") ELSE UNCHANGED out
  /\ Goto(b, "coldCollect")
  /\ UNCHANGED <<shells, at, using, coreLock, pool, builds, faults>>

ColdUndumped(b) ==
  /\ bpc[b] = "coldRun"
  /\ Undumped(at[b], "new")
  /\ Goto(b, "coldCollect")
  /\ UNCHANGED <<shells, at, using, coreLock, pool, builds>>

Build(b) ==
  \/ Lock(b) \/ Return(b)
  \/ Acquire(b) \/ PickIdle(b) \/ PickDead(b) \/ PickNew(b)
  \/ Pinged(b) \/ PingRefused(b) \/ Ready(b) \/ DiedEarly(b)
  \/ OpenProject(b) \/ Opened(b) \/ Compile(b) \/ Compiled(b) \/ Release(b)
  \/ ColdStart(b) \/ ColdEnd(b)

BuildFault(b) ==
  \/ PingLate(b) \/ ReadyRace(b) \/ ReadyLate(b) \/ RequestLate(b)
  \/ ColdUndumped(b)
-----------------------------------------------------------------------------
(* Shells, shutdown, and the whole *)

\* Whose output a compile in a shell writes: a request that was given up belongs
\* to no build any more.
Age(s) == IF Current(s).by = Nobody THEN "old" ELSE "new"

Reply(s, outcome) ==
  /\ SendFrame(s, outcome)
  /\ IF Compiling(s) /\ outcome = "ok" THEN Written(home[s], Age(s)) ELSE UNCHANGED out
  /\ UNCHANGED <<bpc, at, using, coreLock, pool, builds, faults>>

\* The script ends well all the same.
ReplyUndumped(s) ==
  /\ Compiling(s)
  /\ SendFrame(s, "ok")
  /\ Undumped(home[s], Age(s))
  /\ UNCHANGED <<bpc, at, using, coreLock, pool, builds>>

\* A compile whose shell was killed meanwhile may write its bitstream too; the
\* dump was the shell's to do.
LeftEnds(s) ==
  /\ FlowEnds(s)
  /\ files' \in {files, [files EXCEPT ![home[s]] = "old"]}
  /\ UNCHANGED <<bpc, at, using, coreLock, pool, report, builds, faults>>

ShellStep(s) ==
  \/ LeftEnds(s)
  \/ \E outcome \in Replies \cup {"ok"} : Reply(s, outcome)
  \/ /\ ReaderStarts(s) \/ Announce(s) \/ ReadLine(s) \/ BodyExits(s) \/ Drain(s)
     /\ UNCHANGED <<bpc, at, using, coreLock, pool, out, builds, faults>>

ShellDies(s) ==
  /\ Die(s)
  /\ Fault("death")
  /\ UNCHANGED <<bpc, at, using, coreLock, pool, out, builds>>

\* shutdown() closes the idle shells; those in use come back later.
Shutdown ==
  /\ MayStop
  /\ ~ stopped
  /\ poolLock = Nobody
  /\ Close(UNION {ToSet(idle[c]) : c \in Cores}, Nobody)
  /\ idle' = [c \in Cores |-> <<>>]
  /\ stopped' = TRUE
  /\ UNCHANGED <<bpc, at, using, coreLock, poolLock, home, out, builds, faults>>

\* All builds were served; the step keeps it from counting as a deadlock.
Over ==
  /\ builds = MaxBuilds
  /\ \A b \in Callers : bpc[b] = "idle"
  /\ UNCHANGED vars

Next ==
  \/ \E b \in Callers : Ask(b) \/ Build(b) \/ BuildFault(b)
  \/ \E s \in Shells : ShellStep(s) \/ ShellDies(s) \/ ReplyUndumped(s)
  \/ Shutdown
  \/ Over

Spec == Init /\ [][Next]_vars

\* Threads are scheduled and shells answer; nobody has to ask, to fail or to
\* shut the pool down.
Fairness ==
  /\ \A b \in Callers : WF_vars(Build(b))
  /\ \A s \in Shells : WF_vars(ShellStep(s))

FairSpec == Spec /\ Fairness
-----------------------------------------------------------------------------
(* Properties *)

Pooled == UNION {ToSet(idle[c]) : c \in Cores}

\* A shell is used by one thread or idle in one place of one bucket, whatever
\* builds fail, time out or are closed in between, and it always works in the
\* directory of the core it is used for.  From the end of acquire() on there is
\* nothing older in it: a request that somebody gave up is answered before the
\* ping that hands the shell to the next build.
ShellsApart ==
  /\ \A b \in Callers :
       using[b] # NoShell =>
         /\ home[using[b]] = at[b]
         /\ using[b] \notin Pooled
         /\ \A d \in Callers \ {b} : using[d] # using[b]
  /\ \A b \in Callers :
       bpc[b] \in {"open", "opening", "compile", "compiling"} =>
         \A i \in DOMAIN inbox[using[b]] : inbox[using[b]][i].by = b
  /\ \A c \in Cores :
       /\ IsInjective(idle[c])
       /\ \A s \in ToSet(idle[c]) : home[s] = c

\* The compiles that run in the directory of a core.
WarmCompiles(c) == {s \in Shells : home[s] = c /\ (Compiling(s) \/ flow[s])}
ColdCompiles(c) == {b \in Callers : bpc[b] = "coldRun" /\ at[b] = c}

\* "only one incremental build per core at a time (serial by design)", as long as
\* no request was given up: whoever gives one up unlocks a core that is compiled.
OneCompile ==
  ~ Struck("late") =>
    \A c \in Cores : Cardinality(WarmCompiles(c)) + Cardinality(ColdCompiles(c)) <= 1

\* A caller whose shell is gone has its answer: it does not sit out the hour.
NobodyLeftWaiting ==
  \A b \in Callers : bpc[b] \in Waiting /\ eof[using[b]] => answer[b] # "none"

\* A warm build that comes to read its result, the timing before its shell is
\* released and the bitstream after it, finds in output_files the bitstream of its
\* own compile and no timing.json of an earlier one, except the one that its own
\* failed dump has kept; as long as no request was given up.
ResultIsOwn ==
  \A b \in Callers :
    bpc[b] \in {"put", "collect"} /\ ~ Struck("late") =>
      files[at[b]] = "new" /\ report[at[b]] # "old"

\* Whatever shells do, a build that was asked for returns.
Returns == \A b \in Callers : bpc[b] = "lock" ~> bpc[b] = "idle"

(* What the repository says and the code does not do *)

\* "a fresh .rbf_r": nor does a cold build take an older output for its result.
ColdResultIsOwn == \A b \in Callers : bpc[b] = "coldCollect" => files[at[b]] # "old"
=============================================================================

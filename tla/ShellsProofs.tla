----------------------------- MODULE ShellsProofs ---------------------------
(***************************************************************************)
(* The warm shells of a pool, for every number of cores, shells, threads   *)
(* and faults: a shell is in one place, works for its own core and is      *)
(* handed on empty; its callers are answered; and until a request is given *)
(* up, a core is compiled once at a time and a result is of its own build. *)
(***************************************************************************)
EXTENDS Incremental, FiniteSetTheorems, SequenceTheorems, TLAPS

USE IncrementalAssumption

-----------------------------------------------------------------------------
(* A bucket of idle shells.                                                 *)

LEMMA FrontShrinks ==
  ASSUME NEW S, NEW q \in Seq(S), q # <<>>, IsInjective(q)
  PROVE  /\ Front(q) \in Seq(S) /\ IsInjective(Front(q))
         /\ Last(q) \in S /\ Last(q) \in ToSet(q)
         /\ ToSet(Front(q)) = ToSet(q) \ {Last(q)}
<1>1. Len(q) \in Nat \ {0} /\ DOMAIN q = 1..Len(q) /\ \A i \in 1..Len(q) : q[i] \in S
  OBVIOUS
<1>2. /\ Front(q) \in Seq(S)
      /\ DOMAIN Front(q) = 1..(Len(q) - 1)
      /\ \A i \in 1..(Len(q) - 1) : Front(q)[i] = q[i]
  BY <1>1 DEF Front
<1>3. Last(q) = q[Len(q)] /\ Len(q) \in DOMAIN q
  BY <1>1 DEF Last
<1>4. IsInjective(Front(q))
  BY <1>1, <1>2 DEF IsInjective
<1>5. ToSet(Front(q)) = ToSet(q) \ {Last(q)}
  BY <1>1, <1>2, <1>3 DEF ToSet, IsInjective
<1> QED
  BY <1>1, <1>2, <1>3, <1>4, <1>5 DEF ToSet

LEMMA AppendGrows ==
  ASSUME NEW S, NEW q \in Seq(S), NEW e \in S, e \notin ToSet(q), IsInjective(q)
  PROVE  /\ Append(q, e) \in Seq(S) /\ IsInjective(Append(q, e))
         /\ ToSet(Append(q, e)) = ToSet(q) \cup {e}
<1>1. Len(q) \in Nat /\ DOMAIN q = 1..Len(q)
  OBVIOUS
<1>2. /\ Append(q, e) \in Seq(S)
      /\ DOMAIN Append(q, e) = 1..(Len(q) + 1)
      /\ Append(q, e)[Len(q) + 1] = e
      /\ \A i \in 1..Len(q) : Append(q, e)[i] = q[i]
  OBVIOUS
<1>3. IsInjective(Append(q, e))
  BY <1>1, <1>2 DEF IsInjective, ToSet
<1>4. ToSet(Append(q, e)) = ToSet(q) \cup {e}
  BY <1>1, <1>2 DEF ToSet
<1> QED
  BY <1>2, <1>3, <1>4

LEMMA EmptyBucket == ToSet(<<>>) = {} /\ IsInjective(<<>>) /\ <<>> \in Seq(Shells)
  BY DEF ToSet, IsInjective

-----------------------------------------------------------------------------
(* The inductive invariant.                                                 *)

\* The stages of a build that has a shell.
WithShell == {"ping", "boot", "open", "opening", "compile", "compiling", "put", "putFailed"}

PoolShape ==
  /\ bpc \in [Callers -> Stages]
  /\ at \in [Callers -> Cores]
  /\ using \in [Callers -> Shells \cup {NoShell}]
  /\ idle \in [Cores -> Seq(Shells)]
  /\ home \in [Shells -> Cores]

HasShell == \A b \in Callers : bpc[b] \in WithShell <=> using[b] # NoShell

\* The shells in use: of the core that is built, of one thread, and in no bucket.
UsedApart ==
  \A b \in Callers : using[b] # NoShell =>
    /\ home[using[b]] = at[b]
    /\ \A c \in Cores : using[b] \notin ToSet(idle[c])
    /\ \A d \in Callers \ {b} : using[d] # using[b]

\* The idle ones: once, in the bucket of the core they were made for.
IdleApart ==
  \A c \in Cores : IsInjective(idle[c]) /\ \A s \in ToSet(idle[c]) : home[s] = c

PoolInv == PoolShape /\ HasShell /\ UsedApart /\ IdleApart

-----------------------------------------------------------------------------
(* One step.                                                                *)

\* Nothing happens to a shell that is in use or idle.
Aside == UNCHANGED <<using, idle, home>>

LEMMA AsideStep ==
  ASSUME PoolInv, Aside, bpc' \in [Callers -> Stages], at' \in [Callers -> Cores],
         \A b \in Callers : bpc'[b] \in WithShell <=> bpc[b] \in WithShell,
         \A b \in Callers : using[b] # NoShell => at'[b] = at[b]
  PROVE  PoolInv'
BY DEF PoolInv, PoolShape, HasShell, UsedApart, IdleApart, Aside

LEMMA AsideActions ==
  ASSUME PoolInv, NEW b \in Callers,
         \/ Ask(b) \/ Lock(b) \/ Return(b) \/ Acquire(b) \/ Pinged(b) \/ Ready(b)
         \/ OpenProject(b) \/ Opened(b) \/ Compile(b) \/ Compiled(b)
         \/ ColdStart(b) \/ ColdEnd(b) \/ ColdUndumped(b) \/ RequestLate(b)
  PROVE  PoolInv'
<1> USE DEF Goto, WithShell, Stages, Waiting, Aside, pool
<1>1. PoolShape /\ HasShell
  BY DEF PoolInv
<1> USE DEF PoolShape, HasShell
<1>2. CASE Ask(b)
  BY <1>1, <1>2, AsideStep DEF Ask
<1>3. CASE Lock(b) \/ Return(b) \/ Acquire(b)
  BY <1>1, <1>3, AsideStep DEF Lock, Return, Acquire
<1>4. CASE Pinged(b) \/ Ready(b)
  BY <1>1, <1>4, AsideStep DEF Pinged, Ready, Acquired
<1>5. CASE OpenProject(b) \/ Compile(b)
  BY <1>1, <1>5, AsideStep DEF OpenProject, Compile, Call
<1>6. CASE Opened(b) \/ Compiled(b) \/ RequestLate(b)
  BY <1>1, <1>6, AsideStep DEF Opened, Compiled, RequestLate
<1>7. CASE ColdStart(b) \/ ColdEnd(b) \/ ColdUndumped(b)
  BY <1>1, <1>7, AsideStep DEF ColdStart, ColdEnd, ColdUndumped
<1> QED
  BY <1>2, <1>3, <1>4, <1>5, <1>6, <1>7

LEMMA PickIdleStep == ASSUME PoolInv, NEW b \in Callers, PickIdle(b) PROVE PoolInv'
<1> USE DEF PoolInv, PoolShape
<1> DEFINE c == at[b]
           s == Last(idle[c])
<1>1. c \in Cores /\ idle[c] \in Seq(Shells) /\ idle[c] # <<>> /\ IsInjective(idle[c])
  BY DEF PickIdle, IdleApart
<1>2. /\ Front(idle[c]) \in Seq(Shells) /\ IsInjective(Front(idle[c]))
      /\ s \in Shells /\ s \in ToSet(idle[c])
      /\ ToSet(Front(idle[c])) = ToSet(idle[c]) \ {s}
  BY <1>1, FrontShrinks
<1>3. /\ idle' = [idle EXCEPT ![c] = Front(idle[c])]
      /\ using' = [using EXCEPT ![b] = s]
      /\ bpc[b] = "pick" /\ bpc' = [bpc EXCEPT ![b] = "ping"]
      /\ UNCHANGED <<at, home>>
  BY DEF PickIdle, Pop, Goto
<1>4. PoolShape' /\ HasShell'
  BY <1>1, <1>2, <1>3 DEF HasShell, WithShell, Stages, Waiting
<1>5. home[s] = c /\ \A g \in Cores \ {c} : s \notin ToSet(idle[g])
  BY <1>1, <1>2 DEF IdleApart
<1>6. \A g \in Cores : ToSet(idle'[g]) = ToSet(idle[g]) \ {s} /\ IsInjective(idle'[g])
  BY <1>1, <1>2, <1>3, <1>5 DEF IdleApart
<1>7. UsedApart'
  BY <1>1, <1>2, <1>3, <1>5, <1>6 DEF UsedApart
<1>8. IdleApart'
  BY <1>3, <1>6 DEF IdleApart
<1> QED
  BY <1>4, <1>7, <1>8

LEMMA PickDeadStep == ASSUME PoolInv, NEW b \in Callers, PickDead(b) PROVE PoolInv'
<1> USE DEF PoolInv, PoolShape
<1> DEFINE c == at[b]
<1>1. c \in Cores /\ idle[c] \in Seq(Shells) /\ idle[c] # <<>> /\ IsInjective(idle[c])
  BY DEF PickDead, IdleApart
<1>2. /\ Front(idle[c]) \in Seq(Shells) /\ IsInjective(Front(idle[c]))
      /\ ToSet(Front(idle[c])) = ToSet(idle[c]) \ {Last(idle[c])}
  BY <1>1, FrontShrinks
<1>3. /\ idle' = [idle EXCEPT ![c] = Front(idle[c])]
      /\ bpc[b] = "pick" /\ bpc' = [bpc EXCEPT ![b] = "failed"]
      /\ UNCHANGED <<at, home, using>>
  BY DEF PickDead, Pop, Goto
<1>4. PoolShape' /\ HasShell'
  BY <1>1, <1>2, <1>3 DEF HasShell, WithShell, Stages, Waiting
<1>5. \A g \in Cores : ToSet(idle'[g]) \subseteq ToSet(idle[g]) /\ IsInjective(idle'[g])
  BY <1>1, <1>2, <1>3 DEF IdleApart
<1>6. UsedApart' /\ IdleApart'
  BY <1>3, <1>5 DEF UsedApart, IdleApart
<1> QED
  BY <1>4, <1>6

LEMMA PickNewStep == ASSUME PoolInv, NEW b \in Callers, PickNew(b) PROVE PoolInv'
<1> USE DEF PoolInv, PoolShape
<1>1. PICK s \in Shells :
        /\ \A c \in Cores : s \notin ToSet(idle[c])
        /\ \A d \in Callers : using[d] # s
        /\ using' = [using EXCEPT ![b] = s] /\ home' = [home EXCEPT ![s] = at[b]]
  BY DEF PickNew
<1>2. bpc[b] = "pick" /\ bpc' = [bpc EXCEPT ![b] = "boot"] /\ UNCHANGED <<at, idle>>
  BY DEF PickNew, Goto
<1>3. PoolShape' /\ HasShell'
  BY <1>1, <1>2 DEF HasShell, WithShell, Stages, Waiting
<1>4. UsedApart'
  BY <1>1, <1>2 DEF UsedApart
<1>5. IdleApart'
  BY <1>1, <1>2 DEF IdleApart
<1> QED
  BY <1>3, <1>4, <1>5

\* The shell is let go: killed, or left to itself.
LEMMA LetGoStep ==
  ASSUME PoolInv, NEW b \in Callers, using' = [using EXCEPT ![b] = NoShell],
         NEW stage \in Stages \ WithShell, bpc' = [bpc EXCEPT ![b] = stage],
         UNCHANGED <<at, idle, home>>
  PROVE  PoolInv'
BY DEF PoolInv, PoolShape, HasShell, UsedApart, IdleApart

LEMMA ReleaseStep == ASSUME PoolInv, NEW b \in Callers, Release(b) PROVE PoolInv'
<1> USE DEF PoolInv, PoolShape
<1> DEFINE c == at[b]
           s == using[b]
<1>1. PICK stage \in {"collect", "failed"} : bpc' = [bpc EXCEPT ![b] = stage]
  BY DEF Release, Goto
<1>2. stage \in Stages \ WithShell
  BY DEF Stages, WithShell, Waiting
<1>3. using' = [using EXCEPT ![b] = NoShell] /\ UNCHANGED <<at, home>>
  BY DEF Release
<1>4. CASE UNCHANGED idle
  BY <1>1, <1>2, <1>3, <1>4, LetGoStep
<1>5. CASE idle' = [idle EXCEPT ![c] = Append(@, s)]
  <2>1. c \in Cores /\ s \in Shells /\ idle[c] \in Seq(Shells)
    BY DEF Release, HasShell, WithShell
  <2>2. \A g \in Cores : s \notin ToSet(idle[g]) /\ IsInjective(idle[g])
    BY <2>1 DEF UsedApart, IdleApart
  <2>3. /\ Append(idle[c], s) \in Seq(Shells) /\ IsInjective(Append(idle[c], s))
        /\ ToSet(Append(idle[c], s)) = ToSet(idle[c]) \cup {s}
    BY <2>1, <2>2, AppendGrows
  <2>4. PoolShape' /\ HasShell'
    BY <1>1, <1>2, <1>3, <1>5, <2>1, <2>3 DEF HasShell
  <2>5. \A g \in Cores : /\ ToSet(idle'[g]) = IF g = c THEN ToSet(idle[g]) \cup {s} ELSE ToSet(idle[g])
                         /\ IsInjective(idle'[g])
    BY <1>5, <2>1, <2>2, <2>3
  <2>6. home[s] = c /\ \A d \in Callers \ {b} : using[d] # s
    BY <2>1 DEF UsedApart
  <2>7. UsedApart'
    <3> SUFFICES ASSUME NEW d \in Callers, using'[d] # NoShell
                 PROVE  /\ home[using[d]] = at[d]
                        /\ \A g \in Cores : using[d] \notin ToSet(idle'[g])
                        /\ \A e \in Callers \ {d} : using'[e] # using[d]
      BY <1>3 DEF UsedApart
    <3>1. d # b /\ using[d] # NoShell
      BY <1>3
    <3>2. home[using[d]] = at[d] /\ \A e \in Callers \ {d} : using[e] # using[d]
      BY <3>1 DEF UsedApart
    <3>3. using[d] # s /\ \A g \in Cores : using[d] \notin ToSet(idle[g])
      BY <2>6, <3>1 DEF UsedApart
    <3>4. \A g \in Cores : using[d] \notin ToSet(idle'[g])
      BY <2>5, <3>3
    <3>5. \A e \in Callers : using'[e] \in {using[e], NoShell}
      BY <1>3
    <3> QED
      BY <3>1, <3>2, <3>4, <3>5
  <2>8. IdleApart'
    <3> SUFFICES ASSUME NEW g \in Cores PROVE \A x \in ToSet(idle'[g]) : home[x] = g
      BY <1>3, <2>5 DEF IdleApart
    <3>1. \A x \in ToSet(idle[g]) : home[x] = g
      BY DEF IdleApart
    <3> QED
      BY <2>5, <2>6, <3>1
  <2> QED
    BY <2>4, <2>7, <2>8
<1> QED
  BY <1>4, <1>5 DEF Release

LEMMA ShutdownStep == ASSUME PoolInv, Shutdown PROVE PoolInv'
<1>1. \A c \in Cores : ToSet(idle'[c]) = {} /\ IsInjective(idle'[c])
  BY EmptyBucket DEF Shutdown
<1>2. idle' \in [Cores -> Seq(Shells)] /\ UNCHANGED <<bpc, at, using, home>>
  BY EmptyBucket DEF Shutdown
<1> QED
  BY <1>1, <1>2 DEF PoolInv, PoolShape, HasShell, UsedApart, IdleApart

LEMMA PoolStep == PoolInv /\ [Next]_vars => PoolInv'
<1> SUFFICES ASSUME PoolInv, [Next]_vars PROVE PoolInv'
  OBVIOUS
<1>1. ASSUME NEW b \in Callers, PingRefused(b) \/ PingLate(b) PROVE PoolInv'
  BY <1>1, LetGoStep
  DEF PingRefused, PingLate, Eject, Goto, pool, Stages, WithShell
<1>2. ASSUME NEW b \in Callers, DiedEarly(b) \/ ReadyRace(b) \/ ReadyLate(b) PROVE PoolInv'
  BY <1>2, LetGoStep
  DEF DiedEarly, ReadyRace, ReadyLate, StartUpFails, Goto, Stages, WithShell
<1>3. ASSUME NEW s \in Shells, ShellStep(s) \/ ShellDies(s) \/ ReplyUndumped(s)
      PROVE  UNCHANGED <<bpc, at, using, idle, home>>
  BY <1>3 DEF ShellStep, LeftEnds, Reply, ReplyUndumped, ShellDies, pool
<1>4. CASE UNCHANGED vars
  BY <1>4 DEF vars, pool, PoolInv, PoolShape, HasShell, UsedApart, IdleApart
<1>5. CASE UNCHANGED <<bpc, at, using, idle, home>>
  BY <1>5 DEF PoolInv, PoolShape, HasShell, UsedApart, IdleApart
<1>6. Over => UNCHANGED vars
  BY DEF Over
<1> QED
  BY <1>1, <1>2, <1>3, <1>4, <1>5, <1>6, AsideActions, PickIdleStep, PickDeadStep, PickNewStep,
     ReleaseStep, ShutdownStep, Zenon DEF Next, Build, BuildFault

-----------------------------------------------------------------------------
(* The pipes of one process.                                                *)

LEMMA FirstLeaves ==
  ASSUME NEW q \in Seq(Request), q # <<>>
  PROVE  /\ Len(q) \in Nat \ {0} /\ Head(q) = q[1] /\ q[1] \in Request
         /\ Tail(q) \in Seq(Request) /\ Len(Tail(q)) = Len(q) - 1
         /\ \A i \in 1..(Len(q) - 1) : Tail(q)[i] = q[i + 1]
  OBVIOUS

LEMMA OneMore ==
  ASSUME NEW q \in Seq(Request), NEW r \in Request
  PROVE  /\ Append(q, r) \in Seq(Request) /\ Len(Append(q, r)) = Len(q) + 1
         /\ Append(q, r)[Len(q) + 1] = r
         /\ \A i \in 1..Len(q) : Append(q, r)[i] = q[i]
  OBVIOUS

\* What is forgotten stays in the pipe.
LEMMA ForgetKeeps ==
  ASSUME ShellsTypeOK, NEW s \in Shells, NEW b \in Callers \cup {Nobody}
  PROVE  /\ Forget(s, b) \in Seq(Request)
         /\ Len(Forget(s, b)) = Len(inbox[s])
         /\ \A i \in 1..Len(inbox[s]) :
              /\ Forget(s, b)[i].kind = inbox[s][i].kind
              /\ Forget(s, b)[i].by = IF inbox[s][i].by = b THEN Nobody ELSE inbox[s][i].by
<1> DEFINE q == inbox[s]
           f == Forget(s, b)
<1>1. q \in Seq(Request) /\ Len(q) \in Nat /\ DOMAIN q = 1..Len(q)
  BY DEF ShellsTypeOK
<1>2. \A i \in 1..Len(q) : q[i] \in Request
  BY <1>1
<1>3. f = [i \in 1..Len(q) |-> IF q[i].by = b THEN [q[i] EXCEPT !.by = Nobody] ELSE q[i]]
  BY <1>1 DEF Forget
<1>4. \A i \in 1..Len(q) :
        /\ f[i] \in Request /\ f[i].kind = q[i].kind
        /\ f[i].by = IF q[i].by = b THEN Nobody ELSE q[i].by
  BY <1>2, <1>3 DEF Request
<1>5. f \in [1..Len(q) -> Request]
  BY <1>3, <1>4
<1>6. f \in Seq(Request)
  BY <1>1, <1>5, SeqDef
<1>7. Len(f) = Len(q)
  BY <1>1, <1>3, <1>6
<1> QED
  BY <1>4, <1>6, <1>7

\* The reader has nothing to do once it has seen the end, and a process works on something.
EofGone   == \A s \in Shells : eof[s] => proc[s] = "dead" /\ ~ flow[s] /\ inbox[s] = <<>>
BusyReads == \A s \in Shells : proc[s] = "busy" => inbox[s] # <<>>

PipeInv == ShellsTypeOK /\ EofGone /\ BusyReads

LEMMA SpawnStep == ASSUME PipeInv, NEW s \in Shells, Spawn(s) PROVE PipeInv'
BY DEF PipeInv, ShellsTypeOK, EofGone, BusyReads, Spawn

LEMMA SendStep ==
  ASSUME PipeInv, NEW s \in Shells, NEW b \in Callers, NEW kind \in Kinds, Send(s, b, kind)
  PROVE  PipeInv'
<1> DEFINE r == [kind |-> kind, by |-> b]
<1>1. r \in Request /\ inbox[s] \in Seq(Request)
  BY DEF Request, PipeInv, ShellsTypeOK
<1>2. Append(inbox[s], r) \in Seq(Request) /\ Len(Append(inbox[s], r)) = Len(inbox[s]) + 1
  BY <1>1, OneMore
<1>3. Append(inbox[s], r) # <<>>
  BY <1>1, <1>2
<1>4. ~ eof[s]
  BY DEF Send, Alive, PipeInv, EofGone
<1> QED
  BY <1>1, <1>2, <1>3, <1>4 DEF PipeInv, ShellsTypeOK, EofGone, BusyReads, Send

LEMMA ForgetStep ==
  ASSUME PipeInv, NEW S \in SUBSET Shells, NEW b \in Callers \cup {Nobody},
         inbox' = [s \in Shells |-> IF s \in S THEN Forget(s, b) ELSE inbox[s]],
         \/ UNCHANGED <<proc, flow>>
         \/ Kill(S),
         UNCHANGED <<mark, eof, answer>>
  PROVE  PipeInv'
<1> USE DEF PipeInv, ShellsTypeOK, EofGone, BusyReads
<1>1. \A s \in Shells : /\ Forget(s, b) \in Seq(Request)
                        /\ Forget(s, b) = <<>> <=> inbox[s] = <<>>
  <2> TAKE s \in Shells
  <2>1. Forget(s, b) \in Seq(Request) /\ Len(Forget(s, b)) = Len(inbox[s]) /\ inbox[s] \in Seq(Request)
    BY ForgetKeeps
  <2> QED
    BY <2>1
<1>2. /\ inbox' \in [Shells -> Seq(Request)]
      /\ \A s \in Shells : inbox'[s] = <<>> <=> inbox[s] = <<>>
  <2> HIDE DEF EofGone, BusyReads
  <2>1. \A s \in Shells : inbox[s] \in Seq(Request)
    OBVIOUS
  <2>2. \A s \in Shells : inbox'[s] = IF s \in S THEN Forget(s, b) ELSE inbox[s]
    OBVIOUS
  <2>3. inbox' \in [Shells -> Seq(Request)]
    BY <1>1, <2>1
  <2> QED
    BY <1>1, <2>2, <2>3
<1>3. CASE UNCHANGED <<proc, flow>>
  BY <1>2, <1>3
<1>4. CASE Kill(S)
  BY <1>2, <1>4 DEF Kill, Alive, Compiling
<1> QED
  BY <1>3, <1>4

LEMMA FrameStep ==
  ASSUME PipeInv, NEW s \in Shells, NEW outcome \in Replies \cup {"ok"}, SendFrame(s, outcome)
  PROVE  PipeInv'
<1> USE DEF PipeInv, ShellsTypeOK, EofGone, BusyReads
<1>1. proc[s] = "busy" /\ inbox[s] # <<>> /\ outcome \in {"ok", "err"}
  BY ShellAssumption DEF SendFrame
<1>2. Tail(inbox[s]) \in Seq(Request) /\ Current(s) \in Request
  BY <1>1, FirstLeaves DEF Current
<1>3. answer' \in [Callers -> {"none", "ok", "err"}]
  BY <1>1, <1>2 DEF SendFrame, Request
<1> QED
  BY <1>1, <1>2, <1>3 DEF SendFrame

LEMMA ReaderStep ==
  ASSUME PipeInv, NEW s \in Shells,
         \/ ReaderStarts(s) \/ Announce(s) \/ ReadLine(s) \/ BodyExits(s) \/ Die(s)
         \/ FlowEnds(s) \/ Drain(s)
  PROVE  PipeInv'
<1> USE DEF PipeInv, ShellsTypeOK, EofGone, BusyReads
<1>1. CASE ReaderStarts(s) \/ Announce(s) \/ ReadLine(s) \/ BodyExits(s)
  BY <1>1 DEF ReaderStarts, Announce, ReadLine, BodyExits
<1>2. CASE Die(s)
  BY <1>2 DEF Die, Kill, Alive, Compiling
<1>3. CASE FlowEnds(s)
  BY <1>3 DEF FlowEnds
<1>4. CASE Drain(s)
  BY <1>4 DEF Drain
<1> QED
  BY <1>1, <1>2, <1>3, <1>4

-----------------------------------------------------------------------------
(* The pipes, while the pool is at work.                                    *)

LEMMA UsedShell ==
  ASSUME PoolInv, NEW b \in Callers, bpc[b] \in WithShell
  PROVE  using[b] \in Shells
BY DEF PoolInv, PoolShape, HasShell

LEMMA TopShell ==
  ASSUME PoolInv, NEW c \in Cores, idle[c] # <<>>
  PROVE  Last(idle[c]) \in Shells /\ Last(idle[c]) \in ToSet(idle[c])
BY FrontShrinks DEF PoolInv, PoolShape, IdleApart

LEMMA PipesAside == ASSUME PipeInv, UNCHANGED shells PROVE PipeInv'
BY DEF PipeInv, ShellsTypeOK, EofGone, BusyReads, shells

LEMMA PipesOfBuild ==
  ASSUME PoolInv, PipeInv, NEW b \in Callers, Ask(b) \/ Build(b) \/ BuildFault(b)
  PROVE  PipeInv'
<1> USE DEF WithShell
<1>1. CASE \/ Ask(b) \/ Lock(b) \/ Return(b) \/ Acquire(b) \/ PickDead(b) \/ Pinged(b) \/ Ready(b)
           \/ DiedEarly(b) \/ ReadyRace(b) \/ ReadyLate(b) \/ Opened(b) \/ Compiled(b)
           \/ ColdStart(b) \/ ColdEnd(b) \/ ColdUndumped(b)
  BY <1>1, PipesAside
  DEF Ask, Lock, Return, Acquire, PickDead, SendBreaks, Pinged, Ready, Acquired, DiedEarly,
      ReadyRace, ReadyLate, StartUpFails, Opened, Compiled, ColdStart, ColdEnd, ColdUndumped
<1>2. CASE PickIdle(b)
  <2>1. at[b] \in Cores /\ idle[at[b]] # <<>>
    BY <1>2 DEF PickIdle, PoolInv, PoolShape
  <2>2. Send(Last(idle[at[b]]), b, "ping")
    BY <1>2 DEF PickIdle
  <2> QED
    BY <2>1, <2>2, TopShell, SendStep DEF Kinds
<1>3. CASE PickNew(b)
  BY <1>3, SpawnStep DEF PickNew
<1>4. CASE OpenProject(b) \/ Compile(b)
  <2>1. using[b] \in Shells
    BY <1>4, UsedShell DEF OpenProject, Compile, Call
  <2>2. PICK kind \in Kinds : Send(using[b], b, kind) \/ SendBreaks(using[b])
    BY <1>4 DEF OpenProject, Compile, Call, Kinds
  <2> QED
    BY <2>1, <2>2, SendStep, PipesAside DEF SendBreaks
<1>5. CASE PingRefused(b) \/ PingLate(b) \/ (Release(b) /\ Close({using[b]}, b))
  <2>1. using[b] \in Shells /\ Close({using[b]}, b)
    BY <1>5, UsedShell DEF PingRefused, PingLate, Eject, Release
  <2> QED
    BY <2>1, ForgetStep DEF Close
<1>6. CASE RequestLate(b)
  <2>1. using[b] \in Shells /\ Abandon(using[b], b)
    BY <1>6, UsedShell DEF RequestLate
  <2>2. inbox' = [s \in Shells |-> IF s \in {using[b]} THEN Forget(s, b) ELSE inbox[s]]
    BY <2>1 DEF Abandon, PipeInv, ShellsTypeOK
  <2>3. {using[b]} \in SUBSET Shells /\ UNCHANGED <<proc, flow>> /\ UNCHANGED <<mark, eof, answer>>
    BY <2>1 DEF Abandon
  <2> QED
    BY <2>2, <2>3, ForgetStep
<1>7. CASE Release(b) /\ UNCHANGED shells
  BY <1>7, PipesAside
<1> QED
  BY <1>1, <1>2, <1>3, <1>4, <1>5, <1>6, <1>7 DEF Build, BuildFault, Release

LEMMA PipeStep == PoolInv /\ PipeInv /\ [Next]_vars => PipeInv'
<1> SUFFICES ASSUME PoolInv, PipeInv, [Next]_vars PROVE PipeInv'
  OBVIOUS
<1>1. CASE UNCHANGED vars \/ Over
  BY <1>1, PipesAside DEF vars, Over
<1>2. ASSUME NEW s \in Shells, ShellStep(s) \/ ShellDies(s) \/ ReplyUndumped(s) PROVE PipeInv'
  BY <1>2, FrameStep, ReaderStep DEF ShellStep, LeftEnds, Reply, ReplyUndumped, ShellDies
<1>3. CASE Shutdown
  <2>1. UNION {ToSet(idle[c]) : c \in Cores} \subseteq Shells
    BY DEF PoolInv, PoolShape, ToSet
  <2> QED
    BY <1>3, <2>1, ForgetStep DEF Shutdown, Close
<1> QED
  BY <1>1, <1>2, <1>3, PipesOfBuild DEF Next

-----------------------------------------------------------------------------
(* The rest of the types.                                                   *)

OutShape ==
  /\ files \in [Cores -> {"none", "old", "new"}]
  /\ report \in [Cores -> {"none", "old", "kept", "new"}]

FaultShape == faults \in Seq(Faults) /\ Len(faults) <= MaxFaults

RestShape ==
  /\ coreLock \in [Cores -> Callers \cup {Nobody}]
  /\ poolLock \in Callers \cup {Nobody}
  /\ OutShape
  /\ stopped \in BOOLEAN
  /\ builds \in 0..MaxBuilds
  /\ FaultShape

LEMMA OutStep ==
  ASSUME OutShape, NEW c \in Cores, NEW age \in {"old", "new"},
         Written(c, age) \/ Undumped(c, age)
  PROVE  OutShape'
BY DEF OutShape, Written, Undumped

LEMMA FaultStep ==
  ASSUME FaultShape, NEW kind, Fault(kind)
  PROVE  FaultShape' /\ ToSet(faults') = ToSet(faults) \cup {kind}
<1>1. /\ faults \in Seq(Faults) /\ kind \in Faults /\ Len(faults) < MaxFaults
      /\ faults' = Append(faults, kind)
  BY DEF FaultShape, Fault
<1>2. /\ faults' \in Seq(Faults) /\ Len(faults') = Len(faults) + 1 /\ Len(faults) \in Nat
      /\ faults'[Len(faults) + 1] = kind
      /\ \A i \in 1..Len(faults) : faults'[i] = faults[i]
  BY <1>1
<1>3. ToSet(faults') = ToSet(faults) \cup {kind}
  BY <1>1, <1>2 DEF ToSet
<1> QED
  BY <1>1, <1>2, <1>3 DEF FaultShape

LEMMA RestOfBuild ==
  ASSUME PoolInv, RestShape, NEW b \in Callers, Ask(b) \/ Build(b) \/ BuildFault(b)
  PROVE  RestShape'
<1> USE DEF RestShape
<1>1. at[b] \in Cores
  BY DEF PoolInv, PoolShape
<1>2. CASE Lock(b)
  <2>1. OutShape'
    BY <1>1, <1>2 DEF OutShape, Lock, Aged
  <2> QED
    BY <1>1, <1>2, <2>1 DEF Lock, pool, FaultShape
<1>3. CASE Ask(b) \/ Return(b)
  BY <1>1, <1>3 DEF Ask, Return, pool, out, OutShape, FaultShape
<1>4. CASE \/ Acquire(b) \/ PickIdle(b) \/ PickDead(b) \/ PickNew(b) \/ Pinged(b) \/ Ready(b)
           \/ Opened(b) \/ Compiled(b) \/ Release(b)
  BY <1>1, <1>4
  DEF Acquire, PickIdle, PickDead, PickNew, Pinged, Ready, Acquired, Opened, Compiled, Release, pool,
      out, OutShape, FaultShape
<1>5. CASE OpenProject(b) \/ Compile(b) \/ ColdStart(b) \/ PingRefused(b) \/ DiedEarly(b)
  BY <1>1, <1>5
  DEF OpenProject, Compile, Call, ColdStart, PingRefused, Eject, DiedEarly, StartUpFails, pool,
      out, OutShape, FaultShape
<1>6. CASE ColdEnd(b)
  <2>1. OutShape'
    BY <1>1, <1>6, OutStep DEF ColdEnd, out, OutShape
  <2> QED
    BY <1>6, <2>1 DEF ColdEnd, pool, FaultShape
<1>7. CASE BuildFault(b)
  <2>1. PICK kind : Fault(kind)
    BY <1>7 DEF BuildFault, PingLate, ReadyRace, ReadyLate, RequestLate, ColdUndumped, Undumped
  <2>2. FaultShape'
    BY <2>1, FaultStep
  <2>3. OutShape'
    BY <1>1, <1>7, OutStep
    DEF BuildFault, PingLate, Eject, ReadyRace, ReadyLate, StartUpFails, RequestLate, ColdUndumped, out, OutShape
  <2> QED
    BY <1>1, <1>7, <2>2, <2>3
    DEF BuildFault, PingLate, Eject, ReadyRace, ReadyLate, StartUpFails, RequestLate, ColdUndumped, pool
<1> QED
  BY <1>2, <1>3, <1>4, <1>5, <1>6, <1>7 DEF Build

LEMMA RestStep == PoolInv /\ RestShape /\ [Next]_vars => RestShape'
<1> SUFFICES ASSUME PoolInv, RestShape, [Next]_vars PROVE RestShape'
  OBVIOUS
<1> USE DEF RestShape
<1>1. CASE UNCHANGED vars \/ Over
  BY <1>1 DEF vars, Over, pool, out, OutShape, FaultShape
<1>2. ASSUME NEW s \in Shells, ShellStep(s) PROVE RestShape'
  <2>1. home[s] \in Cores /\ Age(s) \in {"old", "new"}
    BY DEF PoolInv, PoolShape, Age
  <2>2. OutShape'
    BY <1>2, <2>1, OutStep DEF ShellStep, LeftEnds, Reply, out, OutShape
  <2>3. UNCHANGED <<coreLock, pool, builds, faults>>
    BY <1>2 DEF ShellStep, LeftEnds, Reply
  <2> QED
    BY <2>2, <2>3 DEF pool, FaultShape
<1>3. ASSUME NEW s \in Shells, ShellDies(s) \/ ReplyUndumped(s) PROVE RestShape'
  <2>1. home[s] \in Cores /\ Age(s) \in {"old", "new"}
    BY DEF PoolInv, PoolShape, Age
  <2>2. OutShape'
    BY <1>3, <2>1, OutStep DEF ShellDies, ReplyUndumped, out, OutShape
  <2>3. FaultShape'
    BY <1>3, FaultStep DEF ShellDies, ReplyUndumped, Undumped
  <2> QED
    BY <1>3, <2>2, <2>3 DEF ShellDies, ReplyUndumped, pool
<1>4. CASE Shutdown
  BY <1>4 DEF Shutdown, out, OutShape, FaultShape
<1> QED
  BY <1>1, <1>2, <1>3, <1>4, RestOfBuild DEF Next

\* A late answer is remembered.
LEMMA LateStays ==
  ASSUME PoolInv, RestShape, [Next]_vars, ~ Struck("late")'
  PROVE  /\ ~ Struck("late")
         /\ \A b \in Callers : ~ PingLate(b) /\ ~ RequestLate(b)
<1>1. UNCHANGED faults \/ \E kind : Fault(kind)
  <2>1. ASSUME NEW b \in Callers, Ask(b) \/ Build(b) PROVE UNCHANGED faults
    BY <2>1
    DEF Ask, Build, Lock, Return, Acquire, PickIdle, PickDead, PickNew, Pinged, PingRefused, Ready, Acquired,
        Eject, DiedEarly, OpenProject, Compile, Call, Opened, Compiled, Release, ColdStart, ColdEnd
  <2>2. ASSUME NEW b \in Callers, BuildFault(b) PROVE \E kind : Fault(kind)
    BY <2>2 DEF BuildFault, PingLate, ReadyRace, ReadyLate, RequestLate, ColdUndumped, Undumped
  <2>3. ASSUME NEW s \in Shells, ShellStep(s) PROVE UNCHANGED faults
    BY <2>3 DEF ShellStep, LeftEnds, Reply
  <2>4. ASSUME NEW s \in Shells, ShellDies(s) \/ ReplyUndumped(s) PROVE \E kind : Fault(kind)
    BY <2>4 DEF ShellDies, ReplyUndumped, Undumped
  <2>5. Shutdown \/ Over \/ UNCHANGED vars => UNCHANGED faults
    BY DEF Shutdown, Over, vars
  <2> QED
    BY <2>1, <2>2, <2>3, <2>4, <2>5 DEF Next
<1>2. \A kind : Fault(kind) => ToSet(faults') = ToSet(faults) \cup {kind}
  BY FaultStep DEF RestShape
<1>3. ~ Struck("late")
  BY <1>1, <1>2 DEF Struck
<1>4. ~ Fault("late")
  BY <1>2 DEF Struck
<1> QED
  BY <1>3, <1>4 DEF PingLate, RequestLate

-----------------------------------------------------------------------------
(* Who waits, waits for something.                                          *)

\* The request of a caller that has no answer yet is in the pipe of its shell.
Pending ==
  \A b \in Callers : bpc[b] \in Waiting /\ answer[b] = "none" =>
    \E i \in 1..Len(inbox[using[b]]) : inbox[using[b]][i].by = b

BuildInv == PoolInv /\ PipeInv /\ RestShape /\ Pending

\* Nothing happens to the requests, and b is not one more that waits.
LEMMA PendingAside ==
  ASSUME BuildInv, NEW b \in Callers,
         \A d \in Callers \ {b} :
           /\ bpc'[d] = bpc[d] /\ using'[d] = using[d] /\ answer'[d] = answer[d]
           /\ using[d] # NoShell => inbox'[using[d]] = inbox[using[d]],
         bpc'[b] \notin Waiting
  PROVE  Pending'
<1> SUFFICES ASSUME NEW d \in Callers, bpc'[d] \in Waiting, answer'[d] = "none"
             PROVE  \E i \in 1..Len(inbox'[using'[d]]) : inbox'[using'[d]][i].by = d
  BY DEF Pending
<1>1. d # b /\ bpc[d] \in Waiting /\ answer[d] = "none"
  OBVIOUS
<1>2. using[d] # NoShell
  BY <1>1 DEF BuildInv, PoolInv, HasShell, Waiting, WithShell
<1>3. \E i \in 1..Len(inbox[using[d]]) : inbox[using[d]][i].by = d
  BY <1>1 DEF BuildInv, Pending
<1> QED
  BY <1>1, <1>2, <1>3

LEMMA PendingOfSend ==
  ASSUME BuildInv, NEW b \in Callers, NEW s \in Shells, NEW kind \in Kinds, Send(s, b, kind),
         \A d \in Callers \ {b} : bpc'[d] = bpc[d] /\ using'[d] = using[d],
         using'[b] = s
  PROVE  Pending'
<1> SUFFICES ASSUME NEW d \in Callers, bpc'[d] \in Waiting, answer'[d] = "none"
             PROVE  \E i \in 1..Len(inbox'[using'[d]]) : inbox'[using'[d]][i].by = d
  BY DEF Pending
<1> DEFINE r == [kind |-> kind, by |-> b]
           q == inbox[s]
<1>1. r \in Request /\ q \in Seq(Request) /\ inbox \in [Shells -> Seq(Request)]
  BY DEF Request, BuildInv, PipeInv, ShellsTypeOK
<1>2. inbox' = [inbox EXCEPT ![s] = Append(q, r)] /\ inbox'[s] = Append(q, r)
  BY <1>1 DEF Send
<1>3. /\ Len(Append(q, r)) = Len(q) + 1 /\ Append(q, r)[Len(q) + 1].by = b
      /\ \A i \in 1..Len(q) : Append(q, r)[i] = q[i]
      /\ Len(q) \in Nat
  BY <1>1, OneMore
<1>4. CASE d = b
  <2>1. Len(q) + 1 \in 1..Len(inbox'[s]) /\ inbox'[s][Len(q) + 1].by = b
    BY <1>2, <1>3
  <2> QED
    BY <1>4, <2>1
<1>5. CASE d # b
  <2>1. bpc[d] \in Waiting /\ answer[d] = "none" /\ using'[d] = using[d]
    BY <1>5 DEF Send, BuildInv, PipeInv, ShellsTypeOK
  <2>2. PICK i \in 1..Len(inbox[using[d]]) : inbox[using[d]][i].by = d
    BY <2>1 DEF BuildInv, Pending
  <2>3. using[d] \in Shells
    BY <2>1, UsedShell DEF BuildInv, Waiting, WithShell
  <2>4. CASE using[d] = s
    BY <1>2, <1>3, <2>1, <2>2, <2>4
  <2>5. CASE using[d] # s
    BY <1>1, <1>2, <2>1, <2>2, <2>3, <2>5
  <2> QED
    BY <2>4, <2>5
<1> QED
  BY <1>4, <1>5

LEMMA PendingOfBuild ==
  ASSUME BuildInv, NEW b \in Callers, Ask(b) \/ Build(b) \/ BuildFault(b)
  PROVE  Pending'
<1> USE DEF Goto, Waiting
<1>1. bpc \in [Callers -> Stages] /\ using \in [Callers -> Shells \cup {NoShell}]
  BY DEF BuildInv, PoolInv, PoolShape
<1>2. CASE \/ Ask(b) \/ Lock(b) \/ Return(b) \/ Acquire(b) \/ PickDead(b)
           \/ Opened(b) \/ Compiled(b) \/ ColdStart(b) \/ ColdEnd(b) \/ ColdUndumped(b)
  BY <1>1, <1>2, PendingAside
  DEF Ask, Lock, Return, Acquire, PickDead, SendBreaks, Opened, Compiled, ColdStart, ColdEnd, ColdUndumped, shells
<1>3. CASE Pinged(b) \/ Ready(b) \/ DiedEarly(b) \/ ReadyRace(b) \/ ReadyLate(b)
  BY <1>1, <1>3, PendingAside
  DEF Pinged, Ready, Acquired, DiedEarly, ReadyRace, ReadyLate, StartUpFails, shells
<1>4. CASE PickIdle(b)
  <2>1. at[b] \in Cores /\ idle[at[b]] # <<>>
    BY <1>4 DEF PickIdle, BuildInv, PoolInv, PoolShape
  <2>2. /\ Send(Last(idle[at[b]]), b, "ping") /\ Last(idle[at[b]]) \in Shells
        /\ using' = [using EXCEPT ![b] = Last(idle[at[b]])] /\ bpc' = [bpc EXCEPT ![b] = "ping"]
    BY <1>4, <2>1, TopShell DEF PickIdle, BuildInv
  <2> QED
    BY <1>1, <2>2, PendingOfSend DEF Kinds
<1>5. CASE PickNew(b)
  <2>1. PICK s \in Shells : /\ \A d \in Callers : using[d] # s
                            /\ Spawn(s) /\ using' = [using EXCEPT ![b] = s]
    BY <1>5 DEF PickNew
  <2>2. \A d \in Callers : using[d] # NoShell => inbox'[using[d]] = inbox[using[d]]
    BY <1>1, <2>1 DEF Spawn, BuildInv, PipeInv, ShellsTypeOK
  <2> QED
    BY <1>1, <1>5, <2>1, <2>2, PendingAside DEF PickNew, Spawn
<1>6. CASE OpenProject(b) \/ Compile(b)
  <2>1. PICK kind \in Kinds, there \in Waiting :
          /\ \/ Send(using[b], b, kind) /\ bpc' = [bpc EXCEPT ![b] = there]
             \/ UNCHANGED shells /\ bpc' = [bpc EXCEPT ![b] = "putFailed"]
          /\ UNCHANGED using
    BY <1>6 DEF OpenProject, Compile, Call, Kinds, SendBreaks
  <2>2. using[b] \in Shells
    BY <1>6, UsedShell DEF OpenProject, Compile, Call, BuildInv, WithShell
  <2>3. CASE Send(using[b], b, kind) /\ bpc' = [bpc EXCEPT ![b] = there]
    BY <1>1, <2>1, <2>2, <2>3, PendingOfSend
  <2>4. CASE UNCHANGED shells /\ bpc' = [bpc EXCEPT ![b] = "putFailed"]
    BY <1>1, <2>1, <2>4, PendingAside DEF shells
  <2> QED
    BY <2>1, <2>3, <2>4
<1>7. CASE PingRefused(b) \/ PingLate(b) \/ Release(b) \/ RequestLate(b)
  <2>1. bpc[b] \in WithShell
    BY <1>7 DEF PingRefused, PingLate, Release, RequestLate, WithShell
  <2>2. using[b] \in Shells /\ \A d \in Callers \ {b} : using[d] # using[b]
    BY <2>1, UsedShell DEF BuildInv, PoolInv, UsedApart
  <2>3. \A d \in Callers \ {b} : using[d] # NoShell => inbox'[using[d]] = inbox[using[d]]
    BY <1>1, <1>7, <2>2
    DEF PingRefused, PingLate, Eject, Release, RequestLate, Abandon, Close, shells, BuildInv, PipeInv, ShellsTypeOK
  <2>4. UNCHANGED answer /\ \A d \in Callers \ {b} : bpc'[d] = bpc[d] /\ using'[d] = using[d]
    BY <1>1, <1>7
    DEF PingRefused, PingLate, Eject, Release, RequestLate, Abandon, Close, shells
  <2>5. bpc'[b] \notin Waiting
    BY <1>1, <1>7 DEF PingRefused, PingLate, Eject, Release, RequestLate
  <2> QED
    BY <2>3, <2>4, <2>5, PendingAside
<1> QED
  BY <1>2, <1>3, <1>4, <1>5, <1>6, <1>7 DEF Build, BuildFault

\* The steps of the shells: an answer goes to the caller whose request leaves the pipe.
LEMMA PendingOfShell ==
  ASSUME BuildInv, NEW s \in Shells, ShellStep(s) \/ ShellDies(s) \/ ReplyUndumped(s)
  PROVE  Pending'
<1> SUFFICES ASSUME NEW d \in Callers, bpc'[d] \in Waiting, answer'[d] = "none"
             PROVE  \E i \in 1..Len(inbox'[using'[d]]) : inbox'[using'[d]][i].by = d
  BY DEF Pending
<1>1. UNCHANGED <<bpc, using>>
  BY DEF ShellStep, LeftEnds, Reply, ReplyUndumped, ShellDies
<1>2. using[d] \in Shells /\ answer \in [Callers -> {"none", "ok", "err"}]
  BY <1>1, UsedShell DEF BuildInv, Waiting, WithShell, PipeInv, ShellsTypeOK
<1>3. CASE UNCHANGED <<inbox, answer>>
  BY <1>1, <1>3 DEF BuildInv, Pending
<1>4. ASSUME NEW outcome \in Replies \cup {"ok"}, SendFrame(s, outcome)
      PROVE  \E i \in 1..Len(inbox'[using[d]]) : inbox'[using[d]][i].by = d
  <2> DEFINE q == inbox[s]
  <2>1. q \in Seq(Request) /\ q # <<>> /\ inbox \in [Shells -> Seq(Request)]
    BY <1>4 DEF SendFrame, BuildInv, PipeInv, ShellsTypeOK, BusyReads
  <2>2. /\ Len(q) \in Nat \ {0} /\ Head(q) = q[1] /\ q[1] \in Request /\ Len(Tail(q)) = Len(q) - 1
        /\ \A i \in 1..(Len(q) - 1) : Tail(q)[i] = q[i + 1]
    BY <2>1, FirstLeaves
  <2>3. /\ inbox' = [inbox EXCEPT ![s] = Tail(q)] /\ outcome # "none"
        /\ answer' = IF q[1].by = Nobody THEN answer ELSE [answer EXCEPT ![q[1].by] = outcome]
    BY <1>4, <2>2, ShellAssumption DEF SendFrame, Current
  <2>4. answer[d] = "none" /\ q[1].by # d
    BY <1>2, <2>2, <2>3, ShellAssumption DEF Request
  <2>5. PICK i \in 1..Len(inbox[using[d]]) : inbox[using[d]][i].by = d
    BY <1>1, <2>4 DEF BuildInv, Pending
  <2>6. CASE using[d] = s
    <3>1. i \in 1..Len(q) /\ q[i].by = d /\ i # 1
      BY <2>4, <2>5, <2>6
    <3>2. i - 1 \in 1..(Len(q) - 1)
      BY <2>2, <3>1
    <3>3. i - 1 \in 1..Len(Tail(q)) /\ Tail(q)[i - 1] = q[i]
      BY <2>2, <3>1, <3>2
    <3> QED
      BY <2>1, <2>3, <2>6, <3>1, <3>3
  <2>7. CASE using[d] # s
    BY <1>2, <2>1, <2>3, <2>5, <2>7
  <2> QED
    BY <2>6, <2>7
<1>5. CASE Drain(s)
  <2>1. answer[d] = "none" /\ inbox' = [inbox EXCEPT ![s] = <<>>]
        /\ ~ \E i \in DOMAIN inbox[s] : inbox[s][i].by = d
    BY <1>5 DEF Drain
  <2>2. PICK i \in 1..Len(inbox[using[d]]) : inbox[using[d]][i].by = d
    BY <1>1, <2>1 DEF BuildInv, Pending
  <2>3. inbox[s] \in Seq(Request) /\ inbox \in [Shells -> Seq(Request)]
    BY DEF BuildInv, PipeInv, ShellsTypeOK
  <2>4. using[d] # s
    BY <2>1, <2>2, <2>3
  <2> QED
    BY <1>1, <1>2, <2>1, <2>2, <2>3, <2>4
<1>6. \/ UNCHANGED <<inbox, answer>> \/ Drain(s)
      \/ \E outcome \in Replies \cup {"ok"} : SendFrame(s, outcome)
  BY DEF ShellStep, LeftEnds, FlowEnds, Reply, ReplyUndumped, ShellDies, Die, ReaderStarts, Announce, ReadLine,
         BodyExits
<1> QED
  BY <1>1, <1>3, <1>4, <1>5, <1>6

LEMMA PendingStep == BuildInv /\ [Next]_vars => Pending'
<1> SUFFICES ASSUME BuildInv, [Next]_vars PROVE Pending'
  OBVIOUS
<1>1. CASE UNCHANGED vars \/ Over
  BY <1>1 DEF vars, Over, shells, BuildInv, Pending
<1>2. CASE Shutdown
  <2>1. UNCHANGED <<bpc, using, answer>>
    BY <1>2 DEF Shutdown, Close
  <2>2. \A d \in Callers : using[d] # NoShell => inbox'[using[d]] = inbox[using[d]]
    BY <1>2 DEF Shutdown, Close, BuildInv, PoolInv, PoolShape, UsedApart
  <2> QED
    BY <2>1, <2>2 DEF BuildInv, Pending, PoolInv, HasShell, Waiting, WithShell
<1> QED
  BY <1>1, <1>2, PendingOfBuild, PendingOfShell DEF Next

LEMMA BuildInvariant == Spec => []BuildInv
<1>1. Init => BuildInv
  <2> SUFFICES ASSUME Init PROVE BuildInv
    OBVIOUS
  <2>1. PoolInv
    BY EmptyBucket
    DEF Init, PoolInv, PoolShape, HasShell, UsedApart, IdleApart, Stages, WithShell
  <2>2. PipeInv
    BY DEF Init, ShellsInit, PipeInv, ShellsTypeOK, EofGone, BusyReads
  <2>3. RestShape
    <3>1. OutShape
      BY DEF Init, OutShape
    <3>2. coreLock \in [Cores -> Callers \cup {Nobody}] /\ poolLock \in Callers \cup {Nobody}
      BY DEF Init
    <3>3. stopped = FALSE /\ builds = 0 /\ faults = <<>>
      BY DEF Init
    <3>4. builds \in 0..MaxBuilds /\ FaultShape
      BY <3>3 DEF FaultShape
    <3> QED
      BY <3>1, <3>2, <3>3, <3>4 DEF RestShape
  <2>4. Pending
    BY DEF Init, Pending, Waiting
  <2> QED
    BY <2>1, <2>2, <2>3, <2>4 DEF BuildInv
<1>2. BuildInv /\ [Next]_vars => BuildInv'
  BY PoolStep, PipeStep, RestStep, PendingStep DEF BuildInv
<1> QED
  BY <1>1, <1>2, PTL DEF Spec

-----------------------------------------------------------------------------
(* What was given up is answered first.                                     *)

Wants(b) == bpc[b] \in Waiting /\ answer[b] = "none"

\* A request that somebody still waits for is the last one in the pipe of his shell.
WantedLast ==
  \A s \in Shells, b \in Callers : \A i \in 1..Len(inbox[s]) :
    inbox[s][i].by = b => using[b] = s /\ Wants(b) /\ i = Len(inbox[s])

\* The stages of a build whose shell has nothing left of what was given up.
Started == {"boot", "open", "opening", "compile", "compiling", "put"}

NoneLeft ==
  \A b \in Callers : bpc[b] \in Started =>
    \A i \in 1..Len(inbox[using[b]]) : inbox[using[b]][i].by # Nobody

PingLast == \A b \in Callers : bpc[b] = "ping" /\ answer[b] # "none" => inbox[using[b]] = <<>>

FreshInv == WantedLast /\ NoneLeft /\ PingLast

\* So a build that waits for nothing has an empty pipe.
LEMMA FreshEmpty ==
  ASSUME BuildInv, FreshInv, NEW b \in Callers, ~ Wants(b), bpc[b] \in Started \cup {"ping"}
  PROVE  using[b] \in Shells /\ inbox[using[b]] = <<>>
<1>1. using[b] \in Shells
  BY UsedShell DEF BuildInv, Started, WithShell
<1>2. inbox[using[b]] \in Seq(Request)
  BY <1>1 DEF BuildInv, PipeInv, ShellsTypeOK
<1>3. CASE bpc[b] = "ping"
  BY <1>1, <1>3 DEF FreshInv, PingLast, Wants, Waiting
<1>4. CASE bpc[b] \in Started
  <2>1. ASSUME NEW i \in 1..Len(inbox[using[b]]) PROVE FALSE
    <3>1. inbox[using[b]][i] \in Request /\ inbox[using[b]][i].by # Nobody
      BY <1>2, <1>4 DEF FreshInv, NoneLeft
    <3>2. PICK d \in Callers : inbox[using[b]][i].by = d
      BY <3>1 DEF Request
    <3>3. using[d] = using[b] /\ Wants(d)
      BY <1>1, <3>2 DEF FreshInv, WantedLast
    <3>4. using[b] # NoShell
      BY <1>1, IncrementalAssumption
    <3> QED
      BY <3>3, <3>4 DEF BuildInv, PoolInv, UsedApart
  <2> QED
    BY <1>1, <1>2, <2>1
<1> QED
  BY <1>1, <1>3, <1>4

\* The pipes are as they were, and b, if it goes on with a shell, with an empty one.
LEMMA FreshAside ==
  ASSUME BuildInv, FreshInv, UNCHANGED <<inbox, answer>>, NEW b \in Callers, ~ Wants(b),
         \A d \in Callers \ {b} : bpc'[d] = bpc[d] /\ using'[d] = using[d],
         bpc'[b] \notin Waiting,
         bpc'[b] \in Started => inbox[using'[b]] = <<>>
  PROVE  FreshInv'
<1>1. WantedLast'
  BY DEF FreshInv, WantedLast, Wants
<1>2. NoneLeft'
  BY DEF FreshInv, NoneLeft
<1>3. PingLast'
  BY DEF FreshInv, PingLast, Waiting
<1> QED
  BY <1>1, <1>2, <1>3 DEF FreshInv

LEMMA FreshSend ==
  ASSUME BuildInv, FreshInv, NEW b \in Callers, NEW s \in Shells, NEW kind \in Kinds,
         NEW stage \in Waiting, ~ Wants(b), Send(s, b, kind),
         bpc' = [bpc EXCEPT ![b] = stage], using'[b] = s,
         \A d \in Callers \ {b} : using[d] # s /\ using'[d] = using[d],
         stage # "ping" => inbox[s] = <<>>
  PROVE  FreshInv'
<1> DEFINE q == inbox[s]
           r == [kind |-> kind, by |-> b]
<1>1. /\ r \in Request /\ q \in Seq(Request) /\ inbox \in [Shells -> Seq(Request)]
      /\ answer \in [Callers -> {"none", "ok", "err"}] /\ bpc \in [Callers -> Stages]
  BY DEF Request, BuildInv, PipeInv, ShellsTypeOK, PoolInv, PoolShape
<1>2. inbox' = [inbox EXCEPT ![s] = Append(q, r)] /\ answer' = [answer EXCEPT ![b] = "none"]
  BY <1>1 DEF Send
<1>3. /\ Len(Append(q, r)) = Len(q) + 1 /\ Append(q, r)[Len(q) + 1].by = b
      /\ \A i \in 1..Len(q) : Append(q, r)[i] = q[i]
      /\ Len(q) \in Nat
  BY <1>1, OneMore
<1>4. /\ inbox'[s] = Append(q, r) /\ \A t \in Shells \ {s} : inbox'[t] = inbox[t]
      /\ Wants(b)' /\ \A d \in Callers \ {b} : bpc'[d] = bpc[d] /\ answer'[d] = answer[d]
  BY <1>1, <1>2 DEF Wants
<1>5. WantedLast'
  <2> SUFFICES ASSUME NEW t \in Shells, NEW d \in Callers, NEW i \in 1..Len(inbox'[t]),
                      inbox'[t][i].by = d
               PROVE  using'[d] = t /\ Wants(d)' /\ i = Len(inbox'[t])
    BY DEF WantedLast
  <2>1. CASE t = s /\ i = Len(q) + 1
    BY <1>3, <1>4, <2>1
  <2>2. CASE t = s /\ i # Len(q) + 1
    <3>0. inbox'[t] = Append(q, r) /\ i \in 1..(Len(q) + 1) /\ i \in 1..Len(q)
      BY <1>3, <1>4, <2>2
    <3>1. i \in 1..Len(q) /\ q[i].by = d
      <4> HIDE DEF q, r
      <4>1. Append(q, r)[i] = q[i]
        BY <1>3, <3>0
      <4> QED
        BY <3>0, <4>1
    <3>2. using[d] = s /\ Wants(d)
      BY <3>1 DEF FreshInv, WantedLast
    <3> QED
      BY <3>2
  <2>3. CASE t # s
    <3>1. using[d] = t /\ Wants(d) /\ i = Len(inbox[t])
      BY <1>4, <2>3 DEF FreshInv, WantedLast
    <3> QED
      BY <1>4, <2>3, <3>1 DEF Wants
  <2> QED
    BY <2>1, <2>2, <2>3
<1>6. NoneLeft'
  <2> SUFFICES ASSUME NEW d \in Callers, bpc'[d] \in Started, NEW i \in 1..Len(inbox'[using'[d]])
               PROVE  inbox'[using'[d]][i].by # Nobody
    BY DEF NoneLeft
  <2>1. CASE d = b
    <3>1. stage # "ping"
      BY <1>1, <2>1 DEF Started
    <3>2. Len(q) = 0 /\ i = Len(q) + 1
      BY <1>3, <1>4, <2>1, <3>1
    <3> QED
      BY <1>3, <1>4, <2>1, <3>2, ShellAssumption
  <2>2. CASE d # b
    <3>1. using[d] \in Shells /\ using[d] # s /\ bpc[d] \in Started
      BY <1>4, <2>2, UsedShell DEF BuildInv, Started, WithShell
    <3> QED
      BY <1>4, <2>2, <3>1 DEF FreshInv, NoneLeft
  <2> QED
    BY <2>1, <2>2
<1>7. PingLast'
  <2> SUFFICES ASSUME NEW d \in Callers, bpc'[d] = "ping", answer'[d] # "none"
               PROVE  inbox'[using'[d]] = <<>>
    BY DEF PingLast
  <2>1. d # b /\ bpc[d] = "ping"
    BY <1>4 DEF Wants
  <2>2. using[d] \in Shells
    BY <2>1, UsedShell DEF BuildInv, WithShell
  <2> QED
    BY <1>4, <2>1, <2>2 DEF FreshInv, PingLast
<1> QED
  BY <1>5, <1>6, <1>7 DEF FreshInv

\* b stops listening, and is done with the shells whose requests it leaves behind.
LEMMA FreshForget ==
  ASSUME BuildInv, FreshInv, NEW S \in SUBSET Shells, NEW b \in Callers \cup {Nobody},
         inbox' = [s \in Shells |-> IF s \in S THEN Forget(s, b) ELSE inbox[s]],
         UNCHANGED answer,
         \A d \in Callers \ {b} : bpc'[d] = bpc[d] /\ using'[d] = using[d] /\ using[d] \notin S,
         b \in Callers => using[b] \in S /\ bpc'[b] \notin Waiting \cup Started
  PROVE  FreshInv'
<1>1. \A s \in Shells : inbox'[s] = IF s \in S THEN Forget(s, b) ELSE inbox[s]
  OBVIOUS
<1>2. ShellsTypeOK
  BY DEF BuildInv, PipeInv
<1>3. WantedLast'
  <2> SUFFICES ASSUME NEW t \in Shells, NEW d \in Callers, NEW i \in 1..Len(inbox'[t]),
                      inbox'[t][i].by = d
               PROVE  using'[d] = t /\ Wants(d)' /\ i = Len(inbox'[t])
    BY DEF WantedLast
  <2>1. Len(inbox'[t]) = Len(inbox[t])
    BY <1>1, <1>2, ForgetKeeps
  <2>2. inbox[t][i].by = d /\ (t \in S => d # b)
    <3>1. CASE t \in S
      <4>1. inbox'[t] = Forget(t, b)
        BY <1>1, <3>1
      <4>2. d = IF inbox[t][i].by = b THEN Nobody ELSE inbox[t][i].by
        BY <1>2, <2>1, <4>1, ForgetKeeps
      <4> QED
        BY <4>2, ShellAssumption
    <3>2. CASE t \notin S
      BY <1>1, <3>2
    <3> QED
      BY <3>1, <3>2
  <2>3. using[d] = t /\ Wants(d) /\ i = Len(inbox[t])
    BY <2>1, <2>2 DEF FreshInv, WantedLast
  <2>4. d # b
    BY <2>2, <2>3
  <2> QED
    BY <2>1, <2>3, <2>4 DEF Wants
<1>4. ASSUME NEW d \in Callers, bpc'[d] \in Started \cup {"ping"}
      PROVE  bpc[d] = bpc'[d] /\ using'[d] = using[d] /\ inbox'[using[d]] = inbox[using[d]]
  <2>1. d # b
    BY <1>4 DEF Waiting
  <2>2. bpc[d] \in WithShell
    BY <1>4, <2>1 DEF Started, WithShell
  <2>3. using[d] \in Shells
    BY <2>2, UsedShell DEF BuildInv
  <2> QED
    BY <1>1, <2>1, <2>3
<1>5. NoneLeft' /\ PingLast'
  BY <1>4 DEF FreshInv, NoneLeft, PingLast
<1> QED
  BY <1>3, <1>5 DEF FreshInv

LEMMA FreshOfBuild ==
  ASSUME BuildInv, FreshInv, NEW b \in Callers, Ask(b) \/ Build(b) \/ BuildFault(b)
  PROVE  FreshInv'
<1> USE DEF Goto
<1>1. bpc \in [Callers -> Stages] /\ using \in [Callers -> Shells \cup {NoShell}]
  BY DEF BuildInv, PoolInv, PoolShape
<1>2. CASE \/ Ask(b) \/ Lock(b) \/ Return(b) \/ Acquire(b) \/ PickDead(b)
           \/ ColdStart(b) \/ ColdEnd(b) \/ ColdUndumped(b)
  BY <1>1, <1>2, FreshAside
  DEF Ask, Lock, Return, Acquire, PickDead, SendBreaks, ColdStart, ColdEnd, ColdUndumped, shells,
      Wants, Waiting, Started
<1>3. CASE DiedEarly(b) \/ ReadyRace(b) \/ ReadyLate(b)
  BY <1>1, <1>3, FreshAside
  DEF DiedEarly, ReadyRace, ReadyLate, StartUpFails, shells, Wants, Waiting, Started
<1>4. CASE Pinged(b) \/ Ready(b) \/ Opened(b) \/ Compiled(b) \/ (Release(b) /\ UNCHANGED shells)
  <2>1. ~ Wants(b)
    BY <1>4 DEF Pinged, Ready, Opened, Compiled, Release, Wants, Waiting
  <2>2. UNCHANGED <<inbox, answer>> /\ \A d \in Callers \ {b} : bpc'[d] = bpc[d] /\ using'[d] = using[d]
    BY <1>1, <1>4 DEF Pinged, Ready, Acquired, Opened, Compiled, Release, shells
  <2>3. bpc'[b] \notin Waiting
    BY <1>1, <1>4 DEF Pinged, Ready, Acquired, Opened, Compiled, Release, Waiting
  <2>4. bpc'[b] \in Started => inbox[using'[b]] = <<>>
    <3>1. bpc'[b] \in Started => bpc[b] \in Started \cup {"ping"} /\ using'[b] = using[b]
      BY <1>1, <1>4 DEF Pinged, Ready, Acquired, Opened, Compiled, Release, Started
    <3> QED
      BY <2>1, <3>1, FreshEmpty
  <2> QED
    BY <2>1, <2>2, <2>3, <2>4, FreshAside
<1>5. CASE PickIdle(b)
  <2>1. at[b] \in Cores /\ idle[at[b]] # <<>> /\ bpc[b] = "pick"
    BY <1>5 DEF PickIdle, BuildInv, PoolInv, PoolShape
  <2>2. /\ Send(Last(idle[at[b]]), b, "ping")
        /\ using' = [using EXCEPT ![b] = Last(idle[at[b]])] /\ bpc' = [bpc EXCEPT ![b] = "ping"]
    BY <1>5 DEF PickIdle
  <2>3. Last(idle[at[b]]) \in Shells /\ \A d \in Callers : using[d] # Last(idle[at[b]])
    <3>1. Last(idle[at[b]]) \in Shells /\ Last(idle[at[b]]) \in ToSet(idle[at[b]])
      BY <2>1, TopShell DEF BuildInv
    <3>2. Last(idle[at[b]]) # NoShell
      BY <3>1, IncrementalAssumption
    <3> QED
      BY <2>1, <3>1, <3>2 DEF BuildInv, PoolInv, UsedApart
  <2>4. ~ Wants(b) /\ "ping" \in Waiting /\ "ping" \in Kinds
    BY <2>1 DEF Wants, Waiting, Kinds
  <2> QED
    BY <1>1, <2>2, <2>3, <2>4, FreshSend
<1>6. CASE OpenProject(b) \/ Compile(b)
  <2>1. bpc[b] \in {"open", "compile"} /\ ~ Wants(b) /\ UNCHANGED using
    BY <1>6 DEF OpenProject, Compile, Call, Wants, Waiting
  <2>2. using[b] \in Shells /\ inbox[using[b]] = <<>>
    BY <2>1, FreshEmpty DEF Started
  <2>3. PICK kind \in Kinds, stage \in {"opening", "compiling"} :
          \/ Send(using[b], b, kind) /\ bpc' = [bpc EXCEPT ![b] = stage]
          \/ UNCHANGED shells /\ bpc' = [bpc EXCEPT ![b] = "putFailed"]
    BY <1>6 DEF OpenProject, Compile, Call, SendBreaks, Kinds
  <2>4. CASE Send(using[b], b, kind) /\ bpc' = [bpc EXCEPT ![b] = stage]
    <3>1. stage \in Waiting /\ using'[b] = using[b]
      BY <2>1 DEF Waiting
    <3>2. \A d \in Callers \ {b} : using[d] # using[b] /\ using'[d] = using[d]
      BY <2>1, <2>2, IncrementalAssumption DEF BuildInv, PoolInv, UsedApart
    <3> QED
      BY <2>1, <2>2, <2>4, <3>1, <3>2, FreshSend
  <2>5. CASE UNCHANGED shells /\ bpc' = [bpc EXCEPT ![b] = "putFailed"]
    BY <1>1, <2>1, <2>5, FreshAside DEF shells, Waiting, Started
  <2> QED
    BY <2>3, <2>4, <2>5
<1>7. CASE PickNew(b)
  <2>1. PICK s \in Shells : /\ \A d \in Callers : using[d] # s
                            /\ Spawn(s) /\ using' = [using EXCEPT ![b] = s]
    BY <1>7 DEF PickNew
  <2>2. /\ inbox' = [inbox EXCEPT ![s] = <<>>] /\ UNCHANGED answer
        /\ bpc[b] = "pick" /\ bpc' = [bpc EXCEPT ![b] = "boot"]
    BY <1>7, <2>1 DEF PickNew, Spawn
  <2>3. inbox \in [Shells -> Seq(Request)]
    BY DEF BuildInv, PipeInv, ShellsTypeOK
  <2>4. inbox'[s] = <<>> /\ Len(inbox'[s]) = 0 /\ \A t \in Shells \ {s} : inbox'[t] = inbox[t]
    BY <2>2, <2>3
  <2>5. /\ using'[b] = s /\ bpc'[b] = "boot" /\ ~ Wants(b)
        /\ \A d \in Callers \ {b} : bpc'[d] = bpc[d] /\ using'[d] = using[d]
    BY <1>1, <2>1, <2>2 DEF Wants, Waiting
  <2>6. WantedLast'
    <3> SUFFICES ASSUME NEW t \in Shells, NEW d \in Callers, NEW i \in 1..Len(inbox'[t]),
                        inbox'[t][i].by = d
                 PROVE  using'[d] = t /\ Wants(d)' /\ i = Len(inbox'[t])
      BY DEF WantedLast
    <3>1. t # s /\ inbox'[t] = inbox[t]
      BY <2>4
    <3>2. using[d] = t /\ Wants(d) /\ i = Len(inbox[t])
      BY <3>1 DEF FreshInv, WantedLast
    <3> QED
      BY <2>2, <2>5, <3>1, <3>2 DEF Wants
  <2>7. \A d \in Callers \ {b} : bpc[d] \in WithShell => using[d] \in Shells \ {s}
    BY <2>1, UsedShell DEF BuildInv
  <2>8. NoneLeft'
    <3>1. \A i \in 1..Len(inbox'[using'[b]]) : FALSE
      BY <2>4, <2>5
    <3>2. ASSUME NEW d \in Callers \ {b}, bpc'[d] \in Started
          PROVE  bpc[d] \in Started /\ using'[d] = using[d] /\ inbox'[using[d]] = inbox[using[d]]
      BY <2>4, <2>5, <2>7, <3>2 DEF Started, WithShell
    <3>3. \A d \in Callers \ {b} : bpc'[d] \in Started =>
            \A i \in 1..Len(inbox'[using'[d]]) : inbox'[using'[d]][i].by # Nobody
      BY <3>2 DEF FreshInv, NoneLeft
    <3> QED
      BY <3>1, <3>3 DEF NoneLeft
  <2>9. PingLast'
    BY <2>2, <2>4, <2>5, <2>7 DEF FreshInv, PingLast, WithShell
  <2> QED
    BY <2>6, <2>8, <2>9 DEF FreshInv
<1>8. CASE PingRefused(b) \/ PingLate(b) \/ RequestLate(b) \/ (Release(b) /\ Close({using[b]}, b))
  <2>1. bpc[b] \in WithShell
    BY <1>8 DEF PingRefused, PingLate, Release, RequestLate, WithShell
  <2>2. using[b] \in Shells /\ \A d \in Callers \ {b} : using[d] # using[b]
    BY <2>1, UsedShell DEF BuildInv, PoolInv, UsedApart
  <2>3. inbox' = [s \in Shells |-> IF s \in {using[b]} THEN Forget(s, b) ELSE inbox[s]]
    <3>1. CASE Close({using[b]}, b)
      BY <3>1 DEF Close
    <3>2. CASE Abandon(using[b], b)
      BY <2>2, <3>2 DEF Abandon, BuildInv, PipeInv, ShellsTypeOK
    <3> QED
      BY <1>8, <3>1, <3>2 DEF PingRefused, PingLate, Eject, RequestLate
  <2>4. UNCHANGED answer /\ \A d \in Callers \ {b} : bpc'[d] = bpc[d] /\ using'[d] = using[d]
    BY <1>1, <1>8
    DEF PingRefused, PingLate, Eject, Release, RequestLate, Abandon, Close, shells
  <2>5. bpc'[b] \notin Waiting \cup Started
    BY <1>1, <1>8 DEF PingRefused, PingLate, Eject, Release, RequestLate, Waiting, Started
  <2>6. {using[b]} \in SUBSET Shells
    BY <2>2
  <2> QED
    BY <2>2, <2>3, <2>4, <2>5, <2>6, FreshForget
<1> QED
  BY <1>2, <1>3, <1>4, <1>5, <1>6, <1>7, <1>8 DEF Build, BuildFault, Release

LEMMA FreshOfShell ==
  ASSUME BuildInv, FreshInv, NEW s \in Shells, ShellStep(s) \/ ShellDies(s) \/ ReplyUndumped(s)
  PROVE  FreshInv'
<1>1. UNCHANGED <<bpc, using>>
  BY DEF ShellStep, LeftEnds, Reply, ReplyUndumped, ShellDies
<1>2. inbox \in [Shells -> Seq(Request)] /\ answer \in [Callers -> {"none", "ok", "err"}]
  BY DEF BuildInv, PipeInv, ShellsTypeOK
<1>3. CASE UNCHANGED <<inbox, answer>>
  BY <1>1, <1>3 DEF FreshInv, WantedLast, NoneLeft, PingLast, Wants
<1>4. ASSUME NEW outcome \in Replies \cup {"ok"}, SendFrame(s, outcome) PROVE FreshInv'
  <2> DEFINE q == inbox[s]
  <2>1. q \in Seq(Request) /\ q # <<>>
    BY <1>2, <1>4 DEF SendFrame, BuildInv, PipeInv, BusyReads
  <2>2. /\ Len(q) \in Nat \ {0} /\ Head(q) = q[1] /\ q[1] \in Request /\ Len(Tail(q)) = Len(q) - 1
        /\ \A i \in 1..(Len(q) - 1) : Tail(q)[i] = q[i + 1]
        /\ Tail(q) \in Seq(Request)
    BY <2>1, FirstLeaves
  <2>3. /\ inbox'[s] = Tail(q) /\ \A t \in Shells \ {s} : inbox'[t] = inbox[t]
        /\ \A d \in Callers : d # q[1].by => answer'[d] = answer[d]
    BY <1>2, <1>4, <2>2 DEF SendFrame, Current
  <2>4. \A d \in Callers : d = q[1].by => using[d] = s /\ Len(q) = 1 /\ Wants(d)
    <3>1. 1 \in 1..Len(inbox[s])
      BY <2>2
    <3>2. ASSUME NEW i \in 1..Len(inbox[s]), NEW d \in Callers, inbox[s][i].by = d
          PROVE  using[d] = s /\ Wants(d) /\ i = Len(inbox[s])
      BY <3>2 DEF FreshInv, WantedLast
    <3> QED
      BY <3>1, <3>2
  <2>5. WantedLast'
    <3> SUFFICES ASSUME NEW t \in Shells, NEW d \in Callers, NEW i \in 1..Len(inbox'[t]),
                        inbox'[t][i].by = d
                 PROVE  using[d] = t /\ Wants(d)' /\ i = Len(inbox'[t])
      BY <1>1 DEF WantedLast
    <3>1. CASE t = s
      <4>0. inbox'[t] = Tail(q) /\ i \in 1..(Len(q) - 1)
        BY <2>2, <2>3, <3>1
      <4>1. i + 1 \in 1..Len(q) /\ q[i + 1].by = d /\ Len(q) # 1
        <5> HIDE DEF q
        <5>1. Tail(q)[i] = q[i + 1]
          BY <2>2, <4>0
        <5>2. q[i + 1].by = d
          BY <4>0, <5>1
        <5> QED
          BY <2>2, <4>0, <5>2
      <4>2. using[d] = s /\ Wants(d) /\ i + 1 = Len(q)
        BY <4>1 DEF FreshInv, WantedLast
      <4>3. answer'[d] = answer[d]
        BY <2>3, <2>4, <4>1
      <4>4. i = Len(inbox'[t])
        <5> HIDE DEF q
        <5>1. i + 1 = Len(q)
          BY <4>2 DEF q
        <5>2. Len(inbox'[t]) = Len(q) - 1
          BY <2>2, <4>0, Zenon
        <5>3. Len(q) \in Nat
          BY <2>2
        <5> QED
          BY <5>1, <5>2, <5>3
      <4> QED
        BY <1>1, <3>1, <4>2, <4>3, <4>4 DEF Wants
    <3>2. CASE t # s
      <4>1. using[d] = t /\ Wants(d) /\ i = Len(inbox[t])
        BY <2>3, <3>2 DEF FreshInv, WantedLast
      <4>2. answer'[d] = answer[d]
        BY <2>3, <2>4, <3>2, <4>1
      <4> QED
        BY <1>1, <2>3, <3>2, <4>1, <4>2 DEF Wants
    <3> QED
      BY <3>1, <3>2
  <2>6. NoneLeft'
    <3> SUFFICES ASSUME NEW d \in Callers, bpc[d] \in Started, NEW i \in 1..Len(inbox'[using[d]])
                 PROVE  inbox'[using[d]][i].by # Nobody
      BY <1>1 DEF NoneLeft
    <3>1. using[d] \in Shells
      BY UsedShell DEF BuildInv, Started, WithShell
    <3>2. CASE using[d] = s
      <4>0. inbox'[using[d]] = Tail(q) /\ i \in 1..(Len(q) - 1)
        BY <2>2, <2>3, <3>2
      <4>1. i + 1 \in 1..Len(q) /\ inbox'[s][i] = q[i + 1]
        <5> HIDE DEF q
        <5>1. Tail(q)[i] = q[i + 1]
          BY <2>2, <4>0
        <5> QED
          BY <2>2, <2>3, <4>0, <5>1
      <4> QED
        BY <3>2, <4>1 DEF FreshInv, NoneLeft
    <3>3. CASE using[d] # s
      BY <2>3, <3>1, <3>3 DEF FreshInv, NoneLeft
    <3> QED
      BY <3>2, <3>3
  <2>7. PingLast'
    <3> SUFFICES ASSUME NEW d \in Callers, bpc[d] = "ping", answer'[d] # "none"
                 PROVE  inbox'[using[d]] = <<>>
      BY <1>1 DEF PingLast
    <3>1. using[d] \in Shells
      BY UsedShell DEF BuildInv, WithShell
    <3>2. CASE d = q[1].by
      <4>1. using[d] = s /\ Len(q) = 1
        BY <2>4, <3>2
      <4>2. Tail(q) \in Seq(Request) /\ Len(Tail(q)) = 0
        BY <2>2, <4>1
      <4>3. Tail(q) = <<>>
        BY <4>2, EmptySeq, Zenon
      <4> QED
        BY <2>3, <4>1, <4>3
    <3>3. CASE d # q[1].by
      <4>1. inbox[using[d]] = <<>>
        BY <2>3, <3>3 DEF FreshInv, PingLast
      <4>2. using[d] # s
        BY <2>1, <4>1
      <4> QED
        BY <2>3, <3>1, <4>1, <4>2
    <3> QED
      BY <3>2, <3>3
  <2> QED
    BY <2>5, <2>6, <2>7 DEF FreshInv
<1>5. CASE Drain(s)
  <2>1. /\ inbox'[s] = <<>> /\ Len(inbox'[s]) = 0 /\ \A t \in Shells \ {s} : inbox'[t] = inbox[t]
        /\ \A d \in Callers : answer'[d] = answer[d] \/ \E i \in 1..Len(inbox[s]) : inbox[s][i].by = d
    BY <1>2, <1>5 DEF Drain
  <2>2. \A d \in Callers : answer'[d] = answer[d] \/ using[d] = s
    BY <2>1 DEF FreshInv, WantedLast
  <2>3. WantedLast'
    <3> SUFFICES ASSUME NEW t \in Shells, NEW d \in Callers, NEW i \in 1..Len(inbox'[t]),
                        inbox'[t][i].by = d
                 PROVE  using[d] = t /\ Wants(d)' /\ i = Len(inbox'[t])
      BY <1>1 DEF WantedLast
    <3>1. t # s /\ inbox'[t] = inbox[t]
      BY <2>1
    <3>2. using[d] = t /\ Wants(d) /\ i = Len(inbox[t])
      BY <3>1 DEF FreshInv, WantedLast
    <3> QED
      BY <1>1, <2>2, <3>1, <3>2 DEF Wants
  <2>4. \A d \in Callers : bpc[d] \in WithShell => using[d] \in Shells
    BY UsedShell DEF BuildInv
  <2>5. NoneLeft'
    BY <1>1, <2>1, <2>4 DEF FreshInv, NoneLeft, Started, WithShell
  <2>6. PingLast'
    BY <1>1, <2>1, <2>2, <2>4 DEF FreshInv, PingLast, WithShell
  <2> QED
    BY <2>3, <2>5, <2>6 DEF FreshInv
<1>6. \/ UNCHANGED <<inbox, answer>> \/ Drain(s)
      \/ \E outcome \in Replies \cup {"ok"} : SendFrame(s, outcome)
  BY DEF ShellStep, LeftEnds, FlowEnds, Reply, ReplyUndumped, ShellDies, Die, ReaderStarts, Announce, ReadLine,
         BodyExits
<1> QED
  BY <1>3, <1>4, <1>5, <1>6

LEMMA FreshInvariant == Spec => []FreshInv
<1>1. Init => FreshInv
  BY DEF Init, ShellsInit, FreshInv, WantedLast, NoneLeft, PingLast, Started
<1>2. BuildInv /\ FreshInv /\ [Next]_vars => FreshInv'
  <2> SUFFICES ASSUME BuildInv, FreshInv, [Next]_vars PROVE FreshInv'
    OBVIOUS
  <2>1. CASE UNCHANGED vars \/ Over
    BY <2>1 DEF vars, Over, shells, FreshInv, WantedLast, NoneLeft, PingLast, Wants
  <2>2. CASE Shutdown
    <3> DEFINE S == UNION {ToSet(idle[c]) : c \in Cores}
    <3>1. S \in SUBSET Shells /\ \A d \in Callers : using[d] \notin S
      <4>1. S \in SUBSET Shells
        BY DEF BuildInv, PoolInv, PoolShape, ToSet
      <4>2. ASSUME NEW d \in Callers, NEW c \in Cores, using[d] \in ToSet(idle[c]) PROVE FALSE
        <5>1. using[d] # NoShell
          BY <4>1, <4>2, IncrementalAssumption
        <5> QED
          BY <4>2, <5>1 DEF BuildInv, PoolInv, UsedApart
      <4> QED
        BY <4>1, <4>2
    <3>2. Close(S, Nobody) /\ UNCHANGED <<bpc, using>>
      BY <2>2 DEF Shutdown
    <3> HIDE DEF S
    <3>3. /\ inbox' = [s \in Shells |-> IF s \in S THEN Forget(s, Nobody) ELSE inbox[s]]
          /\ UNCHANGED answer
      BY <3>2 DEF Close
    <3> QED
      BY <3>1, <3>2, <3>3, FreshForget, ShellAssumption
  <2> QED
    BY <2>1, <2>2, FreshOfBuild, FreshOfShell DEF Next
<1> QED
  BY <1>1, <1>2, BuildInvariant, PTL DEF Spec

-----------------------------------------------------------------------------
(* As long as nobody gives up on a shell, a shell does one thing at a time. *)

\* The lock of a core is with the build that is past it.
LockHeld == \A b \in Callers : bpc[b] \notin {"idle", "lock"} => coreLock[at[b]] = b

\* What a caller waits for at each of its stages.
KindAt   == [ping |-> "ping", opening |-> "open", compiling |-> "compile"]
Asked(b) == [kind |-> KindAt[bpc[b]], by |-> b]

\* b waits for shell s and has no answer yet.
WaitsFor(b, s) == using[b] = s /\ bpc[b] \in Waiting /\ answer[b] = "none"

\* A pipe holds nothing but the one request of the caller that waits for it.
Calm ==
  \A s \in Shells : inbox[s] # <<>> =>
    \E b \in Callers : WaitsFor(b, s) /\ inbox[s] = <<Asked(b)>>

\* A compile outlives its shell while its caller still waits.
LeftRuns ==
  \A s \in Shells : flow[s] =>
    proc[s] = "dead" /\ inbox[s] # <<>> /\ Current(s).kind = "compile"

\* A build whose compile ended well finds what it has written, or what its own
\* dump has left.
OwnFiles ==
  \A b \in Callers :
    bpc[b] \in {"put", "collect"} \/ (bpc[b] = "compiling" /\ answer[b] = "ok")
      => files[at[b]] = "new" /\ report[at[b]] # "old"

CalmInv == LockHeld /\ Calm /\ LeftRuns

LEMMA LockStep == BuildInv /\ LockHeld /\ [Next]_vars => LockHeld'
<1> SUFFICES ASSUME BuildInv, LockHeld, [Next]_vars PROVE LockHeld'
  OBVIOUS
<1> USE DEF LockHeld, Goto
<1>1. /\ bpc \in [Callers -> Stages] /\ at \in [Callers -> Cores]
      /\ coreLock \in [Cores -> Callers \cup {Nobody}]
  BY DEF BuildInv, PoolInv, PoolShape, RestShape
<1>2. CASE UNCHANGED <<bpc, at, coreLock>>
  BY <1>2
<1>3. ASSUME NEW b \in Callers, Ask(b) PROVE LockHeld'
  BY <1>1, <1>3 DEF Ask
<1>4. ASSUME NEW b \in Callers, Lock(b) PROVE LockHeld'
  BY <1>1, <1>4, ShellAssumption DEF Lock
<1>5. ASSUME NEW b \in Callers, Return(b) PROVE LockHeld'
  BY <1>1, <1>5 DEF Return
<1>6. ASSUME NEW b \in Callers, bpc[b] \notin {"idle", "lock"},
             \A d \in Callers \ {b} : bpc'[d] = bpc[d], UNCHANGED <<at, coreLock>>
      PROVE  LockHeld'
  BY <1>1, <1>6
<1>7. ASSUME NEW b \in Callers, Build(b) \/ BuildFault(b), ~ Lock(b), ~ Return(b) PROVE LockHeld'
  <2>1. CASE \/ Acquire(b) \/ PickIdle(b) \/ PickDead(b) \/ PickNew(b) \/ Pinged(b) \/ Ready(b)
             \/ Opened(b) \/ Compiled(b) \/ Release(b)
    BY <1>1, <1>6, <2>1
    DEF Acquire, PickIdle, PickDead, PickNew, Pinged, Ready, Acquired, Opened, Compiled, Release
  <2>2. CASE \/ OpenProject(b) \/ Compile(b) \/ ColdStart(b) \/ ColdEnd(b)
             \/ PingRefused(b) \/ DiedEarly(b)
    BY <1>1, <1>6, <2>2
    DEF OpenProject, Compile, Call, ColdStart, ColdEnd, PingRefused, Eject, DiedEarly, StartUpFails
  <2>3. CASE BuildFault(b)
    BY <1>1, <1>6, <2>3
    DEF BuildFault, PingLate, Eject, ReadyRace, ReadyLate, StartUpFails, RequestLate, ColdUndumped
  <2> QED
    BY <1>7, <2>1, <2>2, <2>3 DEF Build
<1>8. \/ \E s \in Shells : ShellStep(s) \/ ShellDies(s) \/ ReplyUndumped(s)
      \/ Shutdown \/ Over \/ UNCHANGED vars
      => UNCHANGED <<bpc, at, coreLock>>
  BY DEF ShellStep, LeftEnds, Reply, ReplyUndumped, ShellDies, Shutdown, Over, vars
<1> QED
  BY <1>2, <1>3, <1>4, <1>5, <1>7, <1>8 DEF Next

\* A shell nobody waits for has nothing to do.
LEMMA QuietShell ==
  ASSUME BuildInv, CalmInv, NEW s \in Shells, \A b \in Callers : ~ WaitsFor(b, s)
  PROVE  inbox[s] = <<>> /\ ~ Compiling(s) /\ ~ flow[s]
BY DEF BuildInv, CalmInv, Calm, LeftRuns, PipeInv, BusyReads, Compiling

\* What a caller uses, nobody else waits for.
LEMMA OwnShell ==
  ASSUME BuildInv, NEW b \in Callers, bpc[b] \in WithShell,
         bpc[b] \notin Waiting \/ answer[b] # "none"
  PROVE  using[b] \in Shells /\ \A d \in Callers : ~ WaitsFor(d, using[b])
BY UsedShell DEF BuildInv, PoolInv, HasShell, UsedApart, WaitsFor

\* An idle shell is one nobody waits for.
LEMMA IdleShell ==
  ASSUME BuildInv, NEW c \in Cores, NEW s \in ToSet(idle[c])
  PROVE  s \in Shells /\ \A d \in Callers : ~ WaitsFor(d, s)
<1>1. s \in Shells
  BY DEF BuildInv, PoolInv, PoolShape, ToSet
<1> QED
  BY <1>1 DEF BuildInv, PoolInv, HasShell, UsedApart, WaitsFor, Waiting, WithShell

-----------------------------------------------------------------------------
(* The pipes stay calm.                                                     *)

\* Nothing happens to the shells, and whoever waits goes on waiting.
LEMMA CalmAside ==
  ASSUME CalmInv, UNCHANGED <<proc, flow, inbox, answer>>,
         \A d \in Callers : bpc[d] \in Waiting /\ answer[d] = "none"
           => bpc'[d] = bpc[d] /\ using'[d] = using[d]
  PROVE  Calm' /\ LeftRuns'
<1>1. Calm'
  <2> SUFFICES ASSUME NEW s \in Shells, inbox[s] # <<>>
               PROVE  \E b \in Callers : WaitsFor(b, s)' /\ inbox[s] = <<Asked(b)'>>
    BY DEF Calm
  <2>1. PICK b \in Callers : WaitsFor(b, s) /\ inbox[s] = <<Asked(b)>>
    BY DEF CalmInv, Calm
  <2> QED
    BY <2>1 DEF WaitsFor, Asked
<1>2. LeftRuns'
  BY DEF CalmInv, LeftRuns, Current
<1> QED
  BY <1>1, <1>2

LEMMA CalmSend ==
  ASSUME BuildInv, CalmInv, NEW b \in Callers, NEW s \in Shells, NEW stage \in Waiting,
         \A d \in Callers : ~ WaitsFor(d, s),
         bpc[b] \notin Waiting \/ answer[b] # "none",
         Send(s, b, KindAt[stage]), bpc' = [bpc EXCEPT ![b] = stage],
         using'[b] = s, \A d \in Callers \ {b} : using'[d] = using[d]
  PROVE  Calm' /\ LeftRuns'
<1> USE DEF WaitsFor
<1>1. /\ inbox \in [Shells -> Seq(Request)] /\ answer \in [Callers -> {"none", "ok", "err"}]
      /\ bpc \in [Callers -> Stages]
  BY DEF BuildInv, PipeInv, ShellsTypeOK, PoolInv, PoolShape
<1>2. inbox[s] = <<>> /\ ~ flow[s]
  BY QuietShell
<1>3. inbox' = [inbox EXCEPT ![s] = <<[kind |-> KindAt[stage], by |-> b]>>]
  BY <1>1, <1>2 DEF Send
<1>4. answer' = [answer EXCEPT ![b] = "none"] /\ UNCHANGED <<proc, flow>>
  BY DEF Send
<1>5. Calm'
  <2> SUFFICES ASSUME NEW t \in Shells, inbox'[t] # <<>>
               PROVE  \E e \in Callers : WaitsFor(e, t)' /\ inbox'[t] = <<Asked(e)'>>
    BY DEF Calm
  <2>1. CASE t = s
    <3>1. WaitsFor(b, s)'
      BY <1>1, <1>4
    <3>2. inbox'[s] = <<Asked(b)'>>
      BY <1>1, <1>3 DEF Asked
    <3> QED
      BY <2>1, <3>1, <3>2
  <2>2. CASE t # s
    <3>1. inbox'[t] = inbox[t]
      BY <1>1, <1>3, <2>2
    <3>2. PICK e \in Callers : WaitsFor(e, t) /\ inbox[t] = <<Asked(e)>>
      BY <3>1 DEF CalmInv, Calm
    <3>3. e # b
      BY <3>2
    <3>4. bpc'[e] = bpc[e] /\ answer'[e] = answer[e] /\ using'[e] = using[e]
      BY <1>1, <1>4, <3>3
    <3> QED
      BY <3>1, <3>2, <3>4 DEF Asked
  <2> QED
    BY <2>1, <2>2
<1>6. LeftRuns'
  BY <1>1, <1>2, <1>3, <1>4 DEF CalmInv, LeftRuns, Current
<1> QED
  BY <1>5, <1>6

\* Closing shells that nobody waits for changes no pipe and leaves no compile behind.
LEMMA CalmClose ==
  ASSUME BuildInv, CalmInv, NEW S \in SUBSET Shells, NEW b \in Callers \cup {Nobody},
         Close(S, b), \A s \in S : \A d \in Callers : ~ WaitsFor(d, s)
  PROVE  /\ UNCHANGED <<inbox, flow, answer>>
         /\ \A s \in Shells : proc[s] = "dead" => proc'[s] = "dead"
<1>1. \A s \in S : inbox[s] = <<>> /\ ~ Compiling(s)
  BY QuietShell
<1>2. ShellsTypeOK
  BY DEF BuildInv, PipeInv
<1>3. \A s \in S : Forget(s, b) = <<>>
  <2> TAKE s \in S
  <2>1. Forget(s, b) \in Seq(Request) /\ Len(Forget(s, b)) = Len(inbox[s])
    BY <1>2, ForgetKeeps
  <2> QED
    BY <1>1, <2>1
<1>4. inbox \in [Shells -> Seq(Request)] /\ flow \in [Shells -> BOOLEAN]
  BY <1>2 DEF ShellsTypeOK
<1>5. inbox' = inbox
  BY <1>1, <1>3, <1>4 DEF Close
<1>6. flow' = flow
  <2>1. flow' = [s \in Shells |-> flow[s] \/ (s \in S /\ Compiling(s))]
    BY DEF Close, Kill
  <2>2. \A s \in Shells : (flow[s] \/ (s \in S /\ Compiling(s))) = flow[s]
    BY <1>1, <1>4
  <2>3. flow' = [s \in Shells |-> flow[s]]
    BY <2>1, <2>2
  <2> QED
    BY <1>4, <2>3
<1> QED
  BY <1>5, <1>6 DEF Close, Kill

LEMMA CalmOfBuild ==
  ASSUME BuildInv, CalmInv, NEW b \in Callers, Ask(b) \/ Build(b) \/ BuildFault(b),
         ~ PingLate(b), ~ RequestLate(b)
  PROVE  Calm' /\ LeftRuns'
<1> USE DEF Goto, Waiting, WithShell
<1>1. bpc \in [Callers -> Stages] /\ using \in [Callers -> Shells \cup {NoShell}]
  BY DEF BuildInv, PoolInv, PoolShape
<1>2. CASE \/ Ask(b) \/ Lock(b) \/ Return(b) \/ Acquire(b) \/ PickDead(b)
           \/ Opened(b) \/ Compiled(b) \/ ColdStart(b) \/ ColdEnd(b) \/ ColdUndumped(b)
  BY <1>1, <1>2, CalmAside
  DEF Ask, Lock, Return, Acquire, PickDead, SendBreaks, Opened, Compiled, ColdStart, ColdEnd, ColdUndumped, shells
<1>3. CASE Pinged(b) \/ Ready(b) \/ DiedEarly(b) \/ ReadyRace(b) \/ ReadyLate(b)
  BY <1>1, <1>3, CalmAside
  DEF Pinged, Ready, Acquired, DiedEarly, ReadyRace, ReadyLate, StartUpFails, shells
<1>5. CASE PickIdle(b)
  <2>1. at[b] \in Cores /\ idle[at[b]] # <<>> /\ bpc[b] = "pick"
    BY <1>5 DEF PickIdle, BuildInv, PoolInv, PoolShape
  <2>2. /\ Send(Last(idle[at[b]]), b, "ping")
        /\ using' = [using EXCEPT ![b] = Last(idle[at[b]])] /\ bpc' = [bpc EXCEPT ![b] = "ping"]
    BY <1>5 DEF PickIdle
  <2>3. /\ Last(idle[at[b]]) \in Shells
        /\ \A d \in Callers : ~ WaitsFor(d, Last(idle[at[b]]))
    BY <2>1, TopShell, IdleShell DEF BuildInv
  <2>4. KindAt["ping"] = "ping"
    BY DEF KindAt
  <2> QED
    BY <1>1, <2>1, <2>2, <2>3, <2>4, CalmSend
<1>6. CASE OpenProject(b) \/ Compile(b)
  <2>1. using[b] \in Shells /\ (\A d \in Callers : ~ WaitsFor(d, using[b])) /\ bpc[b] \notin Waiting
    BY <1>6, OwnShell DEF OpenProject, Compile, Call
  <2>2. PICK stage \in {"opening", "compiling"} :
          /\ \/ Send(using[b], b, KindAt[stage]) /\ bpc' = [bpc EXCEPT ![b] = stage]
             \/ UNCHANGED shells /\ bpc' = [bpc EXCEPT ![b] = "putFailed"]
          /\ UNCHANGED using
    BY <1>6 DEF OpenProject, Compile, Call, SendBreaks, KindAt
  <2>3. CASE Send(using[b], b, KindAt[stage]) /\ bpc' = [bpc EXCEPT ![b] = stage]
    BY <1>1, <2>1, <2>2, <2>3, CalmSend
  <2>4. CASE UNCHANGED shells /\ bpc' = [bpc EXCEPT ![b] = "putFailed"]
    BY <1>1, <2>1, <2>2, <2>4, CalmAside DEF shells
  <2> QED
    BY <2>2, <2>3, <2>4
<1>7. CASE PickNew(b)
  <2>1. PICK s \in Shells : /\ Reusable(s) /\ (\A d \in Callers : using[d] # s)
                            /\ Spawn(s) /\ using' = [using EXCEPT ![b] = s]
    BY <1>7 DEF PickNew
  <2>2. ~ flow[s]
    BY <2>1 DEF Reusable, BuildInv, PipeInv, EofGone, CalmInv, LeftRuns
  <2>3. /\ inbox' = [inbox EXCEPT ![s] = <<>>] /\ proc' = [proc EXCEPT ![s] = "booting"]
        /\ UNCHANGED <<flow, answer>>
    BY <2>1 DEF Spawn
  <2>4. bpc[b] = "pick" /\ bpc' = [bpc EXCEPT ![b] = "boot"]
    BY <1>7 DEF PickNew
  <2>5. inbox \in [Shells -> Seq(Request)] /\ proc \in [Shells -> {"unborn", "booting", "up", "busy", "dead"}]
    BY DEF BuildInv, PipeInv, ShellsTypeOK
  <2>6. Calm'
    <3> SUFFICES ASSUME NEW t \in Shells, inbox'[t] # <<>>
                 PROVE  \E e \in Callers : WaitsFor(e, t)' /\ inbox'[t] = <<Asked(e)'>>
      BY DEF Calm
    <3>1. inbox'[t] = inbox[t]
      BY <2>3, <2>5
    <3>2. PICK e \in Callers : WaitsFor(e, t) /\ inbox[t] = <<Asked(e)>>
      BY <3>1 DEF CalmInv, Calm
    <3>3. e # b /\ bpc'[e] = bpc[e] /\ using'[e] = using[e]
      BY <1>1, <2>1, <2>4, <3>2 DEF WaitsFor
    <3> QED
      BY <2>3, <3>1, <3>2, <3>3 DEF WaitsFor, Asked
  <2>7. LeftRuns'
    BY <2>2, <2>3, <2>5 DEF CalmInv, LeftRuns, Current
  <2> QED
    BY <2>6, <2>7
<1>8. CASE PingRefused(b) \/ Release(b)
  <2>1. using[b] \in Shells /\ \A d \in Callers : ~ WaitsFor(d, using[b])
    BY <1>8, OwnShell DEF PingRefused, Release
  <2>2. UNCHANGED shells \/ Close({using[b]}, b)
    BY <1>8 DEF PingRefused, Eject, Release
  <2>3. /\ UNCHANGED <<inbox, flow, answer>>
        /\ \A s \in Shells : proc[s] = "dead" => proc'[s] = "dead"
    BY <2>1, <2>2, CalmClose DEF shells
  <2>4. ~ WaitsFor(b, using[b]) /\ \A d \in Callers \ {b} : bpc'[d] = bpc[d] /\ using'[d] = using[d]
    BY <1>1, <1>8, <2>1 DEF PingRefused, Eject, Release
  <2>5. Calm'
    <3> SUFFICES ASSUME NEW t \in Shells, inbox[t] # <<>>
                 PROVE  \E e \in Callers : WaitsFor(e, t)' /\ inbox[t] = <<Asked(e)'>>
      BY <2>3 DEF Calm
    <3>1. PICK e \in Callers : WaitsFor(e, t) /\ inbox[t] = <<Asked(e)>>
      BY DEF CalmInv, Calm
    <3>2. e # b
      BY <2>4, <3>1 DEF WaitsFor
    <3> QED
      BY <2>3, <2>4, <3>1, <3>2 DEF WaitsFor, Asked
  <2>6. LeftRuns'
    BY <2>3 DEF CalmInv, LeftRuns, Current
  <2> QED
    BY <2>5, <2>6
<1> QED
  BY <1>2, <1>3, <1>5, <1>6, <1>7, <1>8 DEF Build, BuildFault

\* The answer of a shell goes to the one caller that waits for it.
LEMMA CalmOfShell ==
  ASSUME BuildInv, CalmInv, NEW s \in Shells, ShellStep(s) \/ ShellDies(s) \/ ReplyUndumped(s)
  PROVE  Calm' /\ LeftRuns'
<1> USE DEF WaitsFor, Current
<1>1. UNCHANGED <<bpc, using>>
  BY DEF ShellStep, LeftEnds, Reply, ReplyUndumped, ShellDies
<1>2. /\ inbox \in [Shells -> Seq(Request)] /\ answer \in [Callers -> {"none", "ok", "err"}]
      /\ proc \in [Shells -> {"unborn", "booting", "up", "busy", "dead"}] /\ flow \in [Shells -> BOOLEAN]
  BY DEF BuildInv, PipeInv, ShellsTypeOK
<1>3. CASE UNCHANGED <<inbox, answer>>
  <2>1. Calm'
    BY <1>1, <1>3 DEF CalmInv, Calm, Asked
  <2>2. \A t \in Shells : flow'[t] => flow[t] \/ (proc'[t] = "dead" /\ Compiling(t))
    BY <1>2, <1>3
    DEF ShellStep, LeftEnds, FlowEnds, Reply, ReplyUndumped, SendFrame, ShellDies, Die, Kill, Alive, Compiling, ReaderStarts,
        Announce, ReadLine, BodyExits, Drain
  <2>3. \A t \in Shells : proc[t] = "dead" => proc'[t] = "dead"
    BY <1>2
    DEF ShellStep, LeftEnds, FlowEnds, Reply, ReplyUndumped, SendFrame, ShellDies, Die, Kill, Alive, Compiling, ReaderStarts,
        Announce, ReadLine, BodyExits, Drain
  <2>4. LeftRuns'
    BY <1>3, <2>2, <2>3 DEF CalmInv, LeftRuns, Compiling, BuildInv, PipeInv, BusyReads
  <2> QED
    BY <2>1, <2>4
<1>4. ASSUME /\ proc[s] = "busy" \/ ~ flow[s]
             /\ inbox' = [inbox EXCEPT ![s] = <<>>] /\ UNCHANGED flow
             /\ \A t \in Shells \ {s} : proc'[t] = proc[t]
             /\ \A d \in Callers : (\E t \in Shells \ {s} : WaitsFor(d, t)) => answer'[d] = answer[d]
      PROVE  Calm' /\ LeftRuns'
  <2>1. Calm'
    <3> SUFFICES ASSUME NEW t \in Shells, inbox'[t] # <<>>
                 PROVE  \E e \in Callers : WaitsFor(e, t)' /\ inbox'[t] = <<Asked(e)'>>
      BY DEF Calm
    <3>1. t # s /\ inbox'[t] = inbox[t]
      BY <1>2, <1>4
    <3>2. PICK e \in Callers : WaitsFor(e, t) /\ inbox[t] = <<Asked(e)>>
      BY <3>1 DEF CalmInv, Calm
    <3> QED
      BY <1>1, <1>4, <3>1, <3>2 DEF Asked
  <2>2. LeftRuns'
    BY <1>2, <1>4 DEF CalmInv, LeftRuns
  <2> QED
    BY <2>1, <2>2
<1>5. ASSUME NEW outcome \in Replies \cup {"ok"}, SendFrame(s, outcome) PROVE Calm' /\ LeftRuns'
  <2>1. inbox[s] # <<>> /\ proc[s] = "busy"
    BY <1>5 DEF SendFrame, BuildInv, PipeInv, BusyReads
  <2>2. PICK e \in Callers : WaitsFor(e, s) /\ inbox[s] = <<Asked(e)>>
    BY <2>1 DEF CalmInv, Calm
  <2>3. Tail(inbox[s]) = <<>> /\ Head(inbox[s]).by = e
    BY <2>2 DEF Asked
  <2>4. inbox' = [inbox EXCEPT ![s] = <<>>] /\ UNCHANGED flow /\ proc' = [proc EXCEPT ![s] = "up"]
    BY <1>5, <2>3 DEF SendFrame
  <2>5. \A d \in Callers \ {e} : answer'[d] = answer[d]
    BY <1>2, <1>5, <2>3 DEF SendFrame
  <2>6. \A d \in Callers : (\E t \in Shells \ {s} : WaitsFor(d, t)) => d # e
    BY <2>2
  <2> QED
    BY <1>2, <1>4, <2>1, <2>4, <2>5, <2>6
<1>6. CASE Drain(s)
  <2>1. inbox' = [inbox EXCEPT ![s] = <<>>] /\ UNCHANGED <<flow, proc>> /\ ~ flow[s]
    BY <1>6 DEF Drain
  <2>2. ASSUME NEW d \in Callers, NEW t \in Shells \ {s}, WaitsFor(d, t)
        PROVE  ~ \E i \in DOMAIN inbox[s] : inbox[s][i].by = d
    <3>1. CASE inbox[s] = <<>>
      BY <3>1
    <3>2. CASE inbox[s] # <<>>
      <4>1. PICK e \in Callers : WaitsFor(e, s) /\ inbox[s] = <<Asked(e)>>
        BY <3>2 DEF CalmInv, Calm
      <4>2. d # e
        BY <2>2, <4>1
      <4> QED
        BY <4>1, <4>2 DEF Asked
    <3> QED
      BY <3>1, <3>2
  <2>3. \A d \in Callers : (\E t \in Shells \ {s} : WaitsFor(d, t)) => answer'[d] = answer[d]
    BY <1>6, <2>2 DEF Drain
  <2> QED
    BY <1>4, <2>1, <2>3
<1>7. \/ UNCHANGED <<inbox, answer>> \/ Drain(s)
      \/ \E outcome \in Replies \cup {"ok"} : SendFrame(s, outcome)
  BY DEF ShellStep, LeftEnds, FlowEnds, Reply, ReplyUndumped, ShellDies, Die, ReaderStarts, Announce, ReadLine,
         BodyExits
<1> QED
  BY <1>3, <1>5, <1>6, <1>7

LEMMA CalmStep ==
  ASSUME BuildInv, CalmInv, [Next]_vars, \A b \in Callers : ~ PingLate(b) /\ ~ RequestLate(b)
  PROVE  CalmInv'
<1>1. ASSUME UNCHANGED vars \/ Over PROVE Calm' /\ LeftRuns'
  <2>1. UNCHANGED <<proc, flow, inbox, answer>> /\ UNCHANGED <<bpc, using>>
    BY <1>1 DEF vars, Over, shells
  <2> QED
    BY <2>1, CalmAside
<1>2. ASSUME Shutdown PROVE Calm' /\ LeftRuns'
  <2> DEFINE S == UNION {ToSet(idle[c]) : c \in Cores}
  <2>1. \A s \in S : s \in Shells /\ \A d \in Callers : ~ WaitsFor(d, s)
    BY IdleShell
  <2>2. Close(S, Nobody) /\ UNCHANGED <<bpc, using>>
    BY <1>2 DEF Shutdown
  <2> HIDE DEF S
  <2>3. /\ UNCHANGED <<inbox, flow, answer>>
        /\ \A s \in Shells : proc[s] = "dead" => proc'[s] = "dead"
    BY <2>1, <2>2, CalmClose
  <2>4. Calm'
    BY <2>2, <2>3 DEF CalmInv, Calm, WaitsFor, Asked
  <2>5. LeftRuns'
    BY <2>3 DEF CalmInv, LeftRuns, Current
  <2> QED
    BY <2>4, <2>5
<1>3. Calm' /\ LeftRuns'
  BY <1>1, <1>2, CalmOfBuild, CalmOfShell DEF Next
<1> QED
  BY <1>3, LockStep DEF CalmInv

-----------------------------------------------------------------------------
(* The output files of a core.                                              *)

HasOwn(b) == bpc[b] \in {"put", "collect"} \/ (bpc[b] = "compiling" /\ answer[b] = "ok")

\* What a compile leaves in output_files is no older than what it found.
Renewed ==
  \A c \in Cores : files'[c] \in {files[c], "new"} /\ (report'[c] = report[c] \/ report'[c] # "old")

LEMMA OutRenewed ==
  ASSUME OutShape, NEW c \in Cores, Written(c, "new") \/ Undumped(c, "new")
  PROVE  Renewed /\ files'[c] = "new" /\ report'[c] # "old"
BY DEF OutShape, Written, Undumped, Renewed

LEMMA FilesOfBuild ==
  ASSUME BuildInv, CalmInv, OwnFiles, NEW b \in Callers, Ask(b) \/ Build(b) \/ BuildFault(b)
  PROVE  OwnFiles'
<1> USE DEF Goto, HasOwn, Renewed
<1>1. /\ bpc \in [Callers -> Stages] /\ at \in [Callers -> Cores]
      /\ OutShape /\ answer \in [Callers -> {"none", "ok", "err"}]
  BY DEF BuildInv, PoolInv, PoolShape, RestShape, PipeInv, ShellsTypeOK
<1>2. OwnFiles <=> \A d \in Callers : HasOwn(d) => files[at[d]] = "new" /\ report[at[d]] # "old"
  BY DEF OwnFiles
<1>3. OwnFiles' <=> \A d \in Callers : HasOwn(d)' => files'[at'[d]] = "new" /\ report'[at'[d]] # "old"
  BY DEF OwnFiles
<1>4. ASSUME \A d \in Callers \ {b} : bpc'[d] = bpc[d] /\ answer'[d] = answer[d] /\ at'[d] = at[d],
             HasOwn(b)' => HasOwn(b) /\ at'[b] = at[b],
             Renewed
      PROVE  OwnFiles'
  BY <1>1, <1>2, <1>3, <1>4
<1>5. CASE Lock(b)
  <2>1. /\ coreLock[at[b]] = Nobody
        /\ \A c \in Cores : c # at[b] => files'[c] = files[c] /\ report'[c] = report[c]
    BY <1>1, <1>5 DEF Lock, Aged, OutShape
  <2>2. bpc'[b] \notin {"put", "collect", "compiling"} /\ UNCHANGED <<at, answer>>
        /\ \A d \in Callers \ {b} : bpc'[d] = bpc[d]
    BY <1>1, <1>5 DEF Lock, shells
  <2>3. \A d \in Callers : HasOwn(d) => at[d] # at[b]
    BY <2>1, ShellAssumption DEF CalmInv, LockHeld
  <2> QED
    BY <1>1, <1>2, <1>3, <2>1, <2>2, <2>3
<1>6. CASE \/ Ask(b) \/ Return(b) \/ Acquire(b) \/ PickDead(b) \/ Opened(b) \/ Compiled(b)
           \/ ColdStart(b)
  BY <1>1, <1>4, <1>6
  DEF Ask, Return, Acquire, PickDead, SendBreaks, Opened, Compiled, ColdStart, shells, out
<1>7. CASE Pinged(b) \/ Ready(b) \/ DiedEarly(b) \/ ReadyRace(b) \/ ReadyLate(b)
  BY <1>1, <1>4, <1>7
  DEF Pinged, Ready, Acquired, DiedEarly, ReadyRace, ReadyLate, StartUpFails, shells, out
<1>8. CASE PickIdle(b) \/ PickNew(b) \/ PingRefused(b) \/ PingLate(b)
  BY <1>1, <1>4, <1>8
  DEF PickIdle, PickNew, Spawn, Send, PingRefused, PingLate, Eject, Close, out
<1>9. CASE OpenProject(b) \/ Compile(b)
  <2>1. PICK there \in {"opening", "compiling"} :
          /\ \/ answer' = [answer EXCEPT ![b] = "none"] /\ bpc' = [bpc EXCEPT ![b] = there]
             \/ UNCHANGED answer /\ bpc' = [bpc EXCEPT ![b] = "putFailed"]
          /\ UNCHANGED <<at, files, report>>
    BY <1>9 DEF OpenProject, Compile, Call, Send, SendBreaks, shells, out
  <2> QED
    BY <1>1, <1>4, <2>1
<1>10. CASE Release(b) \/ RequestLate(b)
  BY <1>1, <1>4, <1>10 DEF Release, RequestLate, Abandon, Close, shells, out
<1>11. CASE ColdEnd(b) \/ ColdUndumped(b)
  <2>1. Renewed
    BY <1>1, <1>11, OutRenewed DEF ColdEnd, ColdUndumped, out
  <2> QED
    BY <1>1, <1>4, <1>11, <2>1 DEF ColdEnd, ColdUndumped, shells
<1> QED
  BY <1>5, <1>6, <1>7, <1>8, <1>9, <1>10, <1>11 DEF Build, BuildFault

LEMMA FilesOfShell ==
  ASSUME BuildInv, CalmInv, OwnFiles, NEW s \in Shells, ShellStep(s) \/ ShellDies(s) \/ ReplyUndumped(s)
  PROVE  OwnFiles'
<1> USE DEF HasOwn, WaitsFor
<1>1. /\ bpc \in [Callers -> Stages] /\ at \in [Callers -> Cores] /\ home[s] \in Cores
      /\ OutShape /\ answer \in [Callers -> {"none", "ok", "err"}]
  BY DEF BuildInv, PoolInv, PoolShape, RestShape, PipeInv, ShellsTypeOK
<1>2. OwnFiles <=> \A d \in Callers : HasOwn(d) => files[at[d]] = "new" /\ report[at[d]] # "old"
  BY DEF OwnFiles
<1>3. OwnFiles' <=> \A d \in Callers : HasOwn(d)' => files'[at'[d]] = "new" /\ report'[at'[d]] # "old"
  BY DEF OwnFiles
<1>4. UNCHANGED <<bpc, using, at>>
  BY DEF ShellStep, LeftEnds, Reply, ReplyUndumped, ShellDies
<1>5. ASSUME inbox[s] # <<>>
      PROVE  \E e \in Callers : /\ WaitsFor(e, s) /\ inbox[s] = <<Asked(e)>> /\ home[s] = at[e]
                                /\ bpc[e] = "compiling" <=> Current(s).kind = "compile"
  <2>1. PICK e \in Callers : WaitsFor(e, s) /\ inbox[s] = <<Asked(e)>>
    BY <1>5 DEF CalmInv, Calm
  <2>2. home[s] = at[e]
    BY <2>1 DEF BuildInv, PoolInv, HasShell, UsedApart, Waiting, WithShell
  <2>3. Current(s).kind = KindAt[bpc[e]]
    BY <2>1 DEF Current, Asked
  <2>4. bpc[e] = "compiling" <=> KindAt[bpc[e]] = "compile"
    BY <2>1 DEF KindAt, Waiting
  <2> QED
    BY <2>1, <2>2, <2>3, <2>4
<1>6. CASE LeftEnds(s)
  <2>1. flow[s] /\ UNCHANGED <<answer, report>> /\ \A c \in Cores : c # home[s] => files'[c] = files[c]
    BY <1>1, <1>6 DEF LeftEnds, FlowEnds, OutShape
  <2>2. PICK e \in Callers : WaitsFor(e, s) /\ home[s] = at[e] /\ bpc[e] = "compiling"
    BY <1>5, <2>1 DEF CalmInv, LeftRuns
  <2>3. \A d \in Callers : HasOwn(d) => d # e /\ at[d] # at[e]
    BY <2>2 DEF CalmInv, LockHeld
  <2> QED
    BY <1>1, <1>2, <1>3, <1>4, <2>1, <2>2, <2>3
<1>7. ASSUME NEW outcome \in Replies \cup {"ok"},
             Reply(s, outcome) \/ (outcome = "ok" /\ ReplyUndumped(s))
      PROVE  OwnFiles'
  <2>0. SendFrame(s, outcome)
    BY <1>7 DEF Reply, ReplyUndumped
  <2>1. inbox[s] # <<>> /\ proc[s] = "busy"
    BY <2>0 DEF SendFrame, BuildInv, PipeInv, BusyReads
  <2>2. PICK e \in Callers : /\ WaitsFor(e, s) /\ inbox[s] = <<Asked(e)>> /\ home[s] = at[e]
                             /\ bpc[e] = "compiling" <=> Current(s).kind = "compile"
    BY <1>5, <2>1
  <2>3. Current(s).by = e /\ e # Nobody /\ Age(s) = "new"
    BY <2>2, ShellAssumption DEF Current, Asked, Age
  <2>4. answer' = [answer EXCEPT ![e] = outcome]
    BY <2>0, <2>3 DEF SendFrame
  <2>5. CASE UNCHANGED out /\ ~ (bpc[e] = "compiling" /\ outcome = "ok")
    BY <1>1, <1>2, <1>3, <1>4, <2>2, <2>4, <2>5 DEF out, Waiting
  <2>6. CASE Written(home[s], "new") \/ Undumped(home[s], "new")
    <3>1. Renewed /\ files'[home[s]] = "new" /\ report'[home[s]] # "old"
      BY <1>1, <2>6, OutRenewed
    <3>2. bpc[e] \notin {"put", "collect"}
      BY <2>2 DEF Waiting
    <3> QED
      BY <1>1, <1>2, <1>3, <1>4, <2>2, <2>4, <3>1, <3>2 DEF Renewed
  <2>7. \/ UNCHANGED out /\ ~ (bpc[e] = "compiling" /\ outcome = "ok")
        \/ Written(home[s], "new") \/ Undumped(home[s], "new")
    BY <1>7, <2>1, <2>2, <2>3 DEF Reply, ReplyUndumped, Compiling
  <2> QED
    BY <2>5, <2>6, <2>7
<1>8. CASE UNCHANGED out /\ \A d \in Callers : answer'[d] \in {answer[d], "err"}
  BY <1>2, <1>3, <1>4, <1>8 DEF out
<1>9. \/ LeftEnds(s)
      \/ \E outcome \in Replies \cup {"ok"} : Reply(s, outcome) \/ (outcome = "ok" /\ ReplyUndumped(s))
      \/ UNCHANGED out /\ \A d \in Callers : answer'[d] \in {answer[d], "err"}
  BY DEF ShellStep, ShellDies, Die, ReaderStarts, Announce, ReadLine, BodyExits, Drain
<1> QED
  BY <1>6, <1>7, <1>8, <1>9

LEMMA FilesStep == BuildInv /\ CalmInv /\ OwnFiles /\ [Next]_vars => OwnFiles'
<1>1. Shutdown \/ Over \/ UNCHANGED vars => UNCHANGED <<bpc, at, answer, files, report>>
  BY DEF Shutdown, Close, Over, vars, shells, out
<1>2. OwnFiles /\ UNCHANGED <<bpc, at, answer, files, report>> => OwnFiles'
  BY DEF OwnFiles
<1> QED
  BY <1>1, <1>2, FilesOfBuild, FilesOfShell DEF Next

\* So far nobody has given up on a shell.
SoFarCalm == ~ Struck("late") => CalmInv /\ OwnFiles

LEMMA CalmInvariant == Spec => []SoFarCalm
<1>1. Init => SoFarCalm
  BY DEF Init, ShellsInit, SoFarCalm, CalmInv, LockHeld, Calm, LeftRuns, OwnFiles
<1>2. BuildInv /\ SoFarCalm /\ [Next]_vars => SoFarCalm'
  <2> SUFFICES ASSUME BuildInv, SoFarCalm, [Next]_vars, ~ Struck("late")' PROVE (CalmInv /\ OwnFiles)'
    BY DEF SoFarCalm
  <2>1. ~ Struck("late") /\ \A b \in Callers : ~ PingLate(b) /\ ~ RequestLate(b)
    BY LateStays DEF BuildInv
  <2>2. CalmInv /\ OwnFiles
    BY <2>1 DEF SoFarCalm
  <2> QED
    BY <2>1, <2>2, CalmStep, FilesStep
<1> QED
  BY <1>1, <1>2, BuildInvariant, PTL DEF Spec

-----------------------------------------------------------------------------
(* The theorems.                                                            *)

\* What every variable holds, the requests in the pipes and the answers included.
THEOREM ShellsTypesCorrect == Spec => []TypeOK
<1>1. BuildInv => TypeOK
  BY DEF BuildInv, PoolInv, PoolShape, PipeInv, RestShape, OutShape, FaultShape, TypeOK
<1> QED
  BY <1>1, BuildInvariant, PTL

\* A shell is used by one thread or idle in one place of one bucket, works in the
\* directory of the core it is used for, and has answered what others gave up before
\* a build uses it, whatever builds fail, time out or are closed.
THEOREM ShellsStayApart == Spec => []ShellsApart
<1>1. BuildInv /\ FreshInv => ShellsApart
  <2> SUFFICES ASSUME BuildInv, FreshInv PROVE ShellsApart
    OBVIOUS
  <2>1. ASSUME NEW b \in Callers, bpc[b] \in {"open", "opening", "compile", "compiling"},
               NEW i \in DOMAIN inbox[using[b]]
        PROVE  inbox[using[b]][i].by = b
    <3>1. using[b] \in Shells /\ using[b] # NoShell
      BY <2>1, UsedShell, IncrementalAssumption DEF BuildInv, WithShell
    <3>2. i \in 1..Len(inbox[using[b]]) /\ inbox[using[b]][i] \in Request
      BY <2>1, <3>1 DEF BuildInv, PipeInv, ShellsTypeOK
    <3>3. inbox[using[b]][i].by # Nobody
      BY <2>1, <3>2 DEF FreshInv, NoneLeft, Started
    <3>4. PICK d \in Callers : inbox[using[b]][i].by = d
      BY <3>2, <3>3 DEF Request
    <3>5. using[d] = using[b]
      BY <3>1, <3>2, <3>4 DEF FreshInv, WantedLast
    <3> QED
      BY <3>1, <3>4, <3>5 DEF BuildInv, PoolInv, UsedApart
  <2> QED
    BY <2>1 DEF BuildInv, PoolInv, PoolShape, UsedApart, IdleApart, ShellsApart, Pooled
<1> QED
  BY <1>1, BuildInvariant, FreshInvariant, PTL

\* Once the reader of a shell has seen its end, every caller that waits for it has an
\* answer, however the shell ended and whatever was in its pipe.
THEOREM CallersAreAnswered == Spec => []NobodyLeftWaiting
<1>1. BuildInv => NobodyLeftWaiting
  BY UsedShell DEF BuildInv, Pending, PipeInv, EofGone, NobodyLeftWaiting, Waiting, WithShell
<1> QED
  BY <1>1, BuildInvariant, PTL

\* Two compiles never run in the directory of one core, warm or cold, as long as no
\* request is given up: whoever gave one up has left a compile behind that no lock covers.
THEOREM CoreIsCompiledOnce == Spec => []OneCompile
<1>1. ASSUME BuildInv, SoFarCalm PROVE OneCompile
  <2> SUFFICES ASSUME NEW c \in Cores, CalmInv
               PROVE  Cardinality(WarmCompiles(c)) + Cardinality(ColdCompiles(c)) <= 1
    BY <1>1 DEF OneCompile, SoFarCalm
  <2> DEFINE b == coreLock[c]
  <2>1. \A d \in ColdCompiles(c) : d = b /\ bpc[d] = "coldRun"
    BY <1>1 DEF ColdCompiles, CalmInv, LockHeld
  <2>2. ASSUME NEW s \in WarmCompiles(c) PROVE bpc[b] = "compiling" /\ s = using[b]
    <3>1. s \in Shells /\ home[s] = c /\ inbox[s] # <<>> /\ Current(s).kind = "compile"
      BY <1>1 DEF WarmCompiles, Compiling, CalmInv, LeftRuns, BuildInv, PipeInv, BusyReads
    <3>2. PICK e \in Callers : WaitsFor(e, s) /\ inbox[s] = <<Asked(e)>>
      BY <1>1, <3>1 DEF CalmInv, Calm
    <3>3. at[e] = c
      BY <1>1, <3>1, <3>2
      DEF BuildInv, PoolInv, HasShell, UsedApart, WaitsFor, Waiting, WithShell
    <3>4. bpc[e] = "compiling"
      BY <3>1, <3>2 DEF Current, Asked, KindAt, WaitsFor, Waiting
    <3>5. e = b
      BY <1>1, <3>3, <3>4 DEF CalmInv, LockHeld
    <3> QED
      BY <3>2, <3>4, <3>5 DEF WaitsFor
  <2>3. (WarmCompiles(c) = {} \/ WarmCompiles(c) = {using[b]}) /\ (ColdCompiles(c) = {} \/ ColdCompiles(c) = {b})
    BY <2>1, <2>2
  <2>4. WarmCompiles(c) = {} \/ ColdCompiles(c) = {}
    BY <2>1, <2>2
  <2>5. Cardinality({}) = 0 /\ Cardinality({b}) = 1 /\ Cardinality({using[b]}) = 1
    BY FS_EmptySet, FS_Singleton
  <2> QED
    BY <2>3, <2>4, <2>5
<1> QED
  BY <1>1, BuildInvariant, CalmInvariant, PTL

\* A warm build that comes to read its result finds its own bitstream and no timing
\* of an earlier build but what its own failed dump has kept, as long as nobody has
\* given up on a shell.
THEOREM WarmResultIsOwn == Spec => []ResultIsOwn
<1>1. SoFarCalm => ResultIsOwn
  BY DEF SoFarCalm, OwnFiles, ResultIsOwn
<1> QED
  BY <1>1, CalmInvariant, PTL
=============================================================================

---------------------------- MODULE ServiceProofs ---------------------------
(***************************************************************************)
(* The parts of super-q that share no state, each for every value of its   *)
(* constants: what the watch loop never forgets and never makes up, whose  *)
(* socket is at the path of the daemon, how long a ladder may climb, that  *)
(* what a command tells is what happened, what a timing report is taken    *)
(* for, and which cores are found.                                         *)
(***************************************************************************)
EXTENDS MCServices, DataFacts

-----------------------------------------------------------------------------
(* The watch loop.                                                          *)

LEMMA InitLoopInv == Init => LoopInv
<1> SUFFICES ASSUME Init PROVE LoopInv
  OBVIOUS
<1>1. pending \in BOOLEAN /\ stopping \in BOOLEAN /\ dirty \in BOOLEAN
  BY Zenon DEF Init
<1> QED
  BY <1>1, WatchAssumption DEF Init, LoopInv, TypeOK, Phases, Coming, Used

\* No step of the user, of run() or of the consumer breaks LoopInv.
LEMMA StepLoopInv == LoopInv /\ [Next]_vars => LoopInv'
<1> USE WatchAssumption DEF mainVars, consumerVars, sourceVars
<1> SUFFICES ASSUME LoopInv, [Next]_vars PROVE LoopInv'
  OBVIOUS
<1>1. CASE Save
  <2>1. pending' \in BOOLEAN /\ stopping' \in BOOLEAN /\ dirty' \in BOOLEAN
    BY <1>1, Zenon DEF Save, LoopInv, TypeOK, Watching
  <2>2. TypeOK'
    BY <1>1, <2>1 DEF Save, LoopInv, TypeOK, Watching
  <2>3. Phases'
    BY <1>1 DEF Save, LoopInv, TypeOK, Phases, Watching
  <2>4. Coming'
    BY <1>1 DEF Save, LoopInv, TypeOK, Phases, Coming, Watching
  <2>5. Used'
    BY <1>1 DEF Save, LoopInv, TypeOK, Phases, Used, Watching
  <2> QED
    BY <2>2, <2>3, <2>4, <2>5 DEF LoopInv
<1>2. CASE Interrupt
  BY <1>2 DEF Interrupt, LoopInv, TypeOK, Phases, Coming, Used
<1>3. CASE Prime
  <2>1. pending' \in BOOLEAN /\ stopping' \in BOOLEAN /\ dirty' \in BOOLEAN
    BY <1>3, Zenon DEF Prime, LoopInv, TypeOK
  <2>2. TypeOK'
    BY <1>3, <2>1 DEF Prime, LoopInv, TypeOK
  <2>3. Phases'
    BY <1>3 DEF Prime, LoopInv, TypeOK, Phases
  <2>4. Coming'
    BY <1>3 DEF Prime, LoopInv, TypeOK, Phases, Coming
  <2>5. Used'
    BY <1>3 DEF Prime, LoopInv, TypeOK, Phases, Used
  <2> QED
    BY <2>2, <2>3, <2>4, <2>5 DEF LoopInv
<1>4. CASE Register
  BY <1>4 DEF Register, LoopInv, TypeOK, Phases, Coming, Used
<1>5. CASE Yield
  <2>1. pending' \in BOOLEAN /\ stopping' \in BOOLEAN /\ dirty' \in BOOLEAN
    BY <1>5, Zenon DEF Yield, LoopInv, TypeOK
  <2>2. TypeOK'
    BY <1>5, <2>1 DEF Yield, LoopInv, TypeOK
  <2>3. Phases'
    BY <1>5 DEF Yield, LoopInv, TypeOK, Phases
  <2>4. Coming'
    BY <1>5 DEF Yield, LoopInv, TypeOK, Phases, Coming
  <2>5. Used'
    BY <1>5 DEF Yield, LoopInv, TypeOK, Phases, Used
  <2> QED
    BY <2>2, <2>3, <2>4, <2>5 DEF LoopInv
<1>6. CASE Request
  BY <1>6 DEF Request, LoopInv, TypeOK, Phases, Coming, Used
<1>7. CASE Stop
  BY <1>7 DEF Stop, LoopInv, TypeOK, Phases, Coming, Used
<1>8. CASE Wake
  BY <1>8 DEF Wake, LoopInv, TypeOK, Phases, Coming, Used
<1>9. CASE Exit
  BY <1>9 DEF Exit, LoopInv, TypeOK, Phases, Coming, Used
<1>10. CASE Loop \/ Wait \/ Woken \/ Check
  BY <1>10 DEF Loop, Wait, Woken, Check, LoopInv, TypeOK, Phases, Coming, Used
<1>11. CASE Clear
  <2>1. pending' \in BOOLEAN /\ stopping' \in BOOLEAN /\ dirty' \in BOOLEAN
    BY <1>11, Zenon DEF Clear, LoopInv, TypeOK
  <2>2. TypeOK'
    BY <1>11, <2>1 DEF Clear, LoopInv, TypeOK
  <2>3. Phases'
    BY <1>11 DEF Clear, LoopInv, TypeOK, Phases
  <2>4. Coming'
    BY <1>11 DEF Clear, LoopInv, TypeOK, Phases, Coming
  <2>5. Used'
    BY <1>11 DEF Clear, LoopInv, TypeOK, Phases, Used
  <2> QED
    BY <2>2, <2>3, <2>4, <2>5 DEF LoopInv
<1>12. CASE ReadSources
  BY <1>12 DEF ReadSources, LoopInv, TypeOK, Phases, Coming, Used
<1>13. CASE FailEarly \/ Built
  BY <1>13 DEF FailEarly, Built, LoopInv, TypeOK, Phases, Coming, Used
<1>14. CASE UNCHANGED vars
  BY <1>14 DEF vars, LoopInv, TypeOK, Phases, Coming, Used
<1> QED
  BY <1>1, <1>2, <1>3, <1>4, <1>5, <1>6, <1>7, <1>8, <1>9, <1>10, <1>11, <1>12,
     <1>13, <1>14 DEF Next, RunLoop, Consume, Over

LEMMA LoopInvInvariant == Spec => []LoopInv
  BY InitLoopInv, StepLoopInv, PTL DEF Spec

\* The control points and versions of the watch loop stay in their sets.
THEOREM WatchTypeCorrect == Spec => []TypeOK
<1>1. LoopInv => TypeOK
  BY DEF LoopInv
<1> QED
  BY <1>1, LoopInvInvariant, PTL

\* A save that the watcher has noticed has been read by a build, or is on its way to
\* one, or the build started for it was reported failed, whenever it fell into the
\* clear-and-build of the consumer.
THEOREM NoSaveForgotten == Spec => []NothingForgotten
<1>1. LoopInv => NothingForgotten
  BY DEF LoopInv, Coming, NothingForgotten
<1> QED
  BY <1>1, LoopInvInvariant, PTL

\* Every build was asked for by the start or by a change, but for one that the
\* wake-up of stop() can start.
THEOREM NoBuildMadeUp == Spec => []BuildsAskedFor
<1>1. LoopInv => BuildsAskedFor
  BY DEF LoopInv, TypeOK, Phases, Used, BuildsAskedFor
<1> QED
  BY <1>1, LoopInvInvariant, PTL

-----------------------------------------------------------------------------
(* The daemon.                                                              *)

USE DaemonAssumption

DaemonSpec == DaemonInit /\ [][DaemonNext]_<<daemonVars, clash>>

-----------------------------------------------------------------------------
(* The parts of the inductive invariant.                                    *)

DaemonPlaces ==
  {"idle", "ask", "asked", "call", "calling"} \cup Starting \cup Listening \cup Stopping \cup Gone

DaemonShape ==
  /\ path \in Servers \cup {Nowhere}
  /\ at \in [Parties -> DaemonPlaces]
  /\ conn \in [Parties -> Servers \cup {Nowhere}]

\* On the way in or out.
Moving(d) == at[d] \in {"ask", "asked", "bound"} \cup Starting \cup Stopping

OneMoves == \A d, e \in Servers : Moving(d) /\ Moving(e) => d = e

Serves(d) == at[d] \in {"bound", "up"}

NoneServes == \A d \in Servers : ~Serves(d)

\* Who serves is at the path.
ServerAtPath == \A d \in Servers : Serves(d) => path = d

\* Past the question whether a daemon answers there is none.
StartsAlone ==
  \A d \in Servers :
    /\ at[d] \in Starting \cup Stopping => NoneServes
    /\ at[d] = "asked" /\ d \notin pong => NoneServes \/ (conn[d] # Nowhere /\ conn[d] = path)

\* Who is about to bind has seen to the path.
PathIsClear == \A d \in Servers : at[d] \in {"state", "bind"} => path = Nowhere

NobodyRefused == \A d \in Servers : at[d] # "inuse"

Calm == OneMoves /\ ServerAtPath /\ StartsAlone /\ PathIsClear /\ NobodyRefused

DaemonInv == DaemonShape /\ (clash \/ Calm)

-----------------------------------------------------------------------------
(* One step.                                                                *)

LEMMA DaemonShapeStep == DaemonShape /\ [DaemonNext]_<<daemonVars, clash>> => DaemonShape'
<1> SUFFICES ASSUME DaemonShape, [DaemonNext]_<<daemonVars, clash>> PROVE DaemonShape'
  OBVIOUS
<1> USE DEF DaemonShape, DaemonPlaces, Starting, Listening, Stopping, Gone, Goes
<1>1. ASSUME NEW p \in Parties, Command(p) \/ is_running(p) PROVE DaemonShape'
  BY <1>1 DEF Command, is_running, Connects
<1>2. ASSUME NEW p \in Parties, Ran(p) PROVE DaemonShape'
  BY <1>2 DEF Ran
<1>3. ASSUME NEW p \in Parties, Answer(p) \/ HangsUp(p) PROVE DaemonShape'
  BY <1>3 DEF Answer, HangsUp
<1>4. ASSUME NEW p \in Callers, Client(p) PROVE DaemonShape'
  BY <1>4 DEF Client, Call, Called, Connects, Parties
<1>5. ASSUME NEW d \in Servers, serve(d) PROVE DaemonShape'
  BY <1>5 DEF serve, Connects, Parties
<1>6. ASSUME NEW d \in Servers, Repinged(d) \/ Unlink(d) \/ State(d) \/ Bind(d) PROVE DaemonShape'
  BY <1>6 DEF Repinged, Unlink, State, Bind, Parties
<1>7. ASSUME NEW d \in Servers,
             ServeForever(d) \/ Shutdown(d) \/ server_close(d) \/ UnlinkOwn(d) \/ WindUp(d)
      PROVE  DaemonShape'
  BY <1>7 DEF ServeForever, Shutdown, server_close, UnlinkOwn, WindUp, Parties
<1>8. ASSUME NEW d \in Servers, _stop(d) \/ Kill(d) PROVE DaemonShape'
  BY <1>8 DEF _stop, Kill, Parties
<1>9. CASE UNCHANGED <<daemonVars, clash>>
  BY <1>9 DEF daemonVars
<1> QED
  BY <1>1, <1>2, <1>3, <1>4, <1>5, <1>6, <1>7, <1>8, <1>9, Zenon
  DEF DaemonNext, Steps, Server

\* Without a clash nobody moves beside another.
LEMMA NoOverlap == DaemonNext /\ ~clash' => OneMoves'
  BY DEF DaemonNext, Overlap, OneMoves, Moving

LEMMA CalmStep == DaemonShape /\ Calm /\ DaemonNext /\ OneMoves' => Calm'
<1> SUFFICES ASSUME DaemonShape, Calm, DaemonNext, OneMoves' PROVE Calm'
  OBVIOUS
<1> USE DEF DaemonShape, Calm, OneMoves, ServerAtPath, StartsAlone, PathIsClear, NobodyRefused,
            Serves, NoneServes, Moving, DaemonPlaces, Starting, Listening, Stopping, Goes, Parties
<1>1. ASSUME NEW p \in Parties, Command(p) PROVE Calm'
  BY <1>1 DEF Command
<1>2. ASSUME NEW p \in Parties, is_running(p) PROVE Calm'
  BY <1>2 DEF is_running, Connects, Reachable
<1>3. ASSUME NEW p \in Parties, Ran(p) PROVE Calm'
  BY <1>3 DEF Ran, Hangs
<1>4. ASSUME NEW p \in Parties, Answer(p) \/ HangsUp(p) PROVE Calm'
  BY <1>4 DEF Answer, HangsUp, Hangs
<1>5. ASSUME NEW p \in Callers, Client(p) PROVE Calm'
  BY <1>5 DEF Client, Call, Called, Connects
<1>6. ASSUME NEW d \in Servers, serve(d) PROVE Calm'
  BY <1>6 DEF serve, Connects, Reachable
<1>7. ASSUME NEW d \in Servers, Repinged(d) \/ Unlink(d) \/ State(d) PROVE Calm'
  BY <1>7 DEF Repinged, Unlink, State
<1>8. ASSUME NEW d \in Servers, Bind(d) PROVE Calm'
  BY <1>8 DEF Bind
<1>9. ASSUME NEW d \in Servers, ServeForever(d) \/ Shutdown(d) \/ server_close(d) PROVE Calm'
  BY <1>9 DEF ServeForever, Shutdown, server_close
<1>10. ASSUME NEW d \in Servers, UnlinkOwn(d) \/ WindUp(d) PROVE Calm'
  BY <1>10 DEF UnlinkOwn, WindUp
<1>11. ASSUME NEW d \in Servers, _stop(d) \/ Kill(d) PROVE Calm'
  BY <1>11 DEF _stop, Kill
<1> HIDE DEF DaemonShape, Calm
<1> QED
  BY <1>1, <1>2, <1>3, <1>4, <1>5, <1>6, <1>7, <1>8, <1>9, <1>10, <1>11, Zenon
  DEF DaemonNext, Steps, Server

-----------------------------------------------------------------------------
(* The theorem.                                                             *)

\* As long as no start meets another start, or a stop that is not over, a daemon that
\* listens is the one at the path, and nobody finds the path taken.
THEOREM DaemonReachable == DaemonSpec => []AloneIsReachable
<1>1. DaemonInit => DaemonInv
  BY DEF DaemonInit, DaemonInv, DaemonShape, Calm, OneMoves, ServerAtPath, StartsAlone,
         PathIsClear, NobodyRefused, Serves, Moving, DaemonPlaces, Starting, Stopping, Parties
<1>2. DaemonInv /\ [DaemonNext]_<<daemonVars, clash>> => DaemonInv'
  <2> SUFFICES ASSUME DaemonInv, [DaemonNext]_<<daemonVars, clash>> PROVE DaemonInv'
    OBVIOUS
  <2>1. DaemonShape'
    BY DaemonShapeStep DEF DaemonInv
  <2>2. CASE DaemonNext
    <3>1. clash => clash'
      BY <2>2 DEF DaemonNext
    <3> QED
      BY <2>1, <2>2, <3>1, NoOverlap, CalmStep DEF DaemonInv
  <2>3. CASE UNCHANGED <<daemonVars, clash>>
    BY <2>1, <2>3
    DEF DaemonInv, Calm, OneMoves, ServerAtPath, StartsAlone, PathIsClear, NobodyRefused,
        Serves, NoneServes, Moving, daemonVars
  <2> QED
    BY <2>2, <2>3
<1>3. DaemonInv => AloneIsReachable
  BY DEF DaemonInv, Calm, NobodyRefused, ServerAtPath, Serves, AloneIsReachable
<1> QED
  BY <1>1, <1>2, <1>3, PTL DEF DaemonSpec

\* The rest of the types: who is answered, told to stop or killed.
Calling == \A p \in Parties : conn[p] # Nowhere => at[p] \in {"asked", "calling", "reping", "killed"}

DaemonRest ==
  /\ Calling
  /\ pong \subseteq Parties /\ told \subseteq Servers
  /\ asks \in [Callers -> {"stop", "ping"}]
  /\ kills \in 0..MaxKills
  /\ clash \in BOOLEAN

LEMMA DaemonRestStep ==
  DaemonShape /\ DaemonRest /\ [DaemonNext]_<<daemonVars, clash>> => DaemonRest'
<1> SUFFICES ASSUME DaemonShape, DaemonRest, [DaemonNext]_<<daemonVars, clash>> PROVE DaemonRest'
  OBVIOUS
<1> DEFINE Kept == Calling' /\ pong' \subseteq Parties /\ told' \subseteq Servers
                   /\ asks' \in [Callers -> {"stop", "ping"}] /\ kills' \in 0..MaxKills
<1> USE DEF DaemonShape, DaemonRest, Calling, DaemonPlaces, Starting, Listening, Stopping, Gone, Goes
<1>1. ASSUME NEW p \in Parties, Command(p) \/ is_running(p) PROVE Kept
  BY <1>1 DEF Command, is_running, Connects
<1>2. ASSUME NEW p \in Parties, Ran(p) PROVE Kept
  BY <1>2 DEF Ran, Hangs
<1>3. ASSUME NEW p \in Parties, Answer(p) \/ HangsUp(p) PROVE Kept
  BY <1>3 DEF Answer, HangsUp, Hangs
<1>4. ASSUME NEW p \in Callers, Client(p) PROVE Kept
  BY <1>4 DEF Client, Call, Called, Connects, Parties, Hangs
<1>5. ASSUME NEW d \in Servers, serve(d) PROVE Kept
  BY <1>5 DEF serve, Connects, Parties
<1>6. ASSUME NEW d \in Servers, Repinged(d) \/ Unlink(d) \/ State(d) \/ Bind(d) PROVE Kept
  BY <1>6 DEF Repinged, Unlink, State, Bind, Parties, Hangs
<1>7. ASSUME NEW d \in Servers,
             ServeForever(d) \/ Shutdown(d) \/ server_close(d) \/ UnlinkOwn(d) \/ WindUp(d)
      PROVE  Kept
  BY <1>7 DEF ServeForever, Shutdown, server_close, UnlinkOwn, WindUp, Parties
<1>8. ASSUME NEW d \in Servers, _stop(d) \/ Kill(d) PROVE Kept
  BY <1>8 DEF _stop, Kill, Parties
<1>9. ASSUME UNCHANGED <<daemonVars, clash>> PROVE Kept
  BY <1>9 DEF daemonVars
<1>10. clash' \in BOOLEAN
  <2>1. clash \in BOOLEAN
    BY DEF DaemonRest
  <2>2. CASE DaemonNext
    <3>1. clash' = (clash \/ Overlap')
      BY <2>2 DEF DaemonNext
    <3> QED
      BY <2>1, <3>1, Zenon
  <2>3. CASE UNCHANGED <<daemonVars, clash>>
    BY <2>1, <2>3
  <2> QED
    BY <2>2, <2>3
<1> HIDE DEF DaemonShape, DaemonRest, Calling, Goes, Kept
<1>11. Kept
  BY <1>1, <1>2, <1>3, <1>4, <1>5, <1>6, <1>7, <1>8, <1>9, Zenon DEF DaemonNext, Steps, Server
<1> QED
  BY <1>10, <1>11 DEF Kept, DaemonRest

LEMMA DaemonTypeCorrect == DaemonSpec => []DaemonTypeOK
<1>1. DaemonInit => DaemonShape /\ DaemonRest
  <2> SUFFICES ASSUME DaemonInit PROVE DaemonShape /\ DaemonRest
    OBVIOUS
  <2>1. clash \in BOOLEAN
    BY DEF DaemonInit
  <2> QED
    BY <2>1 DEF DaemonInit, DaemonShape, DaemonRest, Calling, DaemonPlaces
<1>2. DaemonShape /\ DaemonRest => DaemonTypeOK
  BY DEF DaemonShape, DaemonRest, Calling, DaemonPlaces, DaemonTypeOK
<1> QED
  BY <1>1, <1>2, DaemonShapeStep, DaemonRestStep, PTL DEF DaemonSpec

HIDE DaemonAssumption

-----------------------------------------------------------------------------
(* The ladder.                                                              *)

ExploreSpec == ExploreInit /\ [][ExploreNext]_exploreVars

Waves == {Ladder[i].waves : i \in 1..Len(Ladder)} \cup {1}

Widest == MaxOf(Waves)

Extra == Drained + SynthCap

Limit == (Budget + Grace) * Widest + Extra

Rung == [waves : Nat \ {0}, split : BOOLEAN]

LEMMA LadderIs ==
  /\ Len(Ladder) \in Nat
  /\ \A i \in 1..Len(Ladder) : Ladder[i] \in Rung /\ Ladder[i].waves \in Nat \ {0}
  /\ Budget \in Nat /\ Cap \in Nat \ {0} /\ SynthCap \in Nat
  /\ Grace \in Nat /\ Drained \in Nat
<1>1. Ladder \in Seq(Rung)
  BY ExploreAssumption DEF Rung
<1>2. Len(Ladder) \in Nat /\ \A i \in 1..Len(Ladder) : Ladder[i] \in Rung
  BY <1>1, LenProperties
<1> QED
  BY <1>2, ExploreAssumption DEF Rung

\* A ladder has a widest rung.
LEMMA WidestIs == /\ Widest \in Nat \ {0}
                  /\ \A i \in 1..Len(Ladder) : Ladder[i].waves <= Widest
<1> DEFINE Upto(n) == {Ladder[i].waves : i \in {j \in 1..Len(Ladder) : j <= n}} \cup {1}
           HasMax(S) == \E x \in S : \A y \in S : y <= x
           Done == {n \in Nat : HasMax(Upto(n))}
<1>1. 0 \in Done
  <2>1. Upto(0) = {1}
    BY LadderIs
  <2> QED
    BY <2>1
<1>2. \A n \in Done \cap Nat : n + 1 \in Done
  <2> HIDE DEF HasMax, Upto
  <2> SUFFICES ASSUME NEW n \in Nat, HasMax(Upto(n)) PROVE HasMax(Upto(n + 1))
    OBVIOUS
  <2> USE DEF HasMax, Upto
  <2>1. PICK x \in Upto(n) : \A y \in Upto(n) : y <= x
    OBVIOUS
  <2>2. x \in Nat /\ Upto(n) \subseteq Nat
    BY LadderIs
  <2>3. CASE n + 1 > Len(Ladder)
    <3>1. Upto(n + 1) = Upto(n)
      BY <2>3, LadderIs
    <3> QED
      BY <2>1, <3>1
  <2>4. CASE n + 1 <= Len(Ladder)
    <3> DEFINE z == Ladder[n + 1].waves
    <3>1. Upto(n + 1) = Upto(n) \cup {z}
      <4>1. {j \in 1..Len(Ladder) : j <= n + 1} = {j \in 1..Len(Ladder) : j <= n} \cup {n + 1}
        BY <2>4, LadderIs
      <4> QED
        BY <4>1
    <3>2. z \in Nat
      BY <2>4, LadderIs
    <3> HIDE DEF z, Upto
    <3>3. CASE z <= x
      BY <2>1, <3>1, <3>3
    <3>4. CASE x <= z
      <4>1. \A y \in Upto(n) : y <= z
        BY <2>1, <2>2, <3>2, <3>4
      <4> QED
        BY <3>1, <3>2, <4>1
    <3> QED
      BY <2>2, <3>2, <3>3, <3>4
  <2> QED
    BY <2>3, <2>4, LadderIs
<1>3. Nat \subseteq Done
  <2> HIDE DEF Done
  <2> QED
    BY <1>1, <1>2, SetInduction
<1>4. Upto(Len(Ladder)) = Waves
  BY LadderIs DEF Waves
<1>5. HasMax(Waves)
  <2>1. Len(Ladder) \in Done
    BY <1>3, LadderIs
  <2>2. HasMax(Upto(Len(Ladder)))
    BY <2>1
  <2> HIDE DEF HasMax, Upto
  <2> QED
    BY <1>4, <2>2
<1>6. Widest \in Waves /\ \A y \in Waves : y <= Widest
  BY <1>5 DEF Widest, MaxOf
<1> QED
  BY <1>6, LadderIs DEF Waves

LEMMA SmallerIs ==
  ASSUME NEW a \in Nat, NEW b \in Nat
  PROVE  MinOf({a, b}) \in Nat /\ MinOf({a, b}) <= a /\ MinOf({a, b}) <= b
<1>1. \E x \in {a, b} : \A y \in {a, b} : x <= y
  BY DEF MinOf
<1>2. MinOf({a, b}) \in {a, b} /\ \A y \in {a, b} : MinOf({a, b}) <= y
  BY <1>1 DEF MinOf
<1> QED
  BY <1>2

LEMMA SweepForIs ==
  ASSUME NEW left \in Nat
  PROVE  SweepFor(left) \in Nat /\ SweepFor(left) <= left
<1> DEFINE m == MinOf({left, Cap})
<1>1. m \in Nat /\ m <= left
  BY SmallerIs, LadderIs
<1> HIDE DEF m
<1>2. 2 * (m \div 2) \in Nat /\ 2 * (m \div 2) <= m
  BY <1>1
<1>3. SweepFor(left) = 2 * (m \div 2)
  BY DEF SweepFor, m
<1> HIDE DEF SweepFor
<1> QED
  BY <1>1, <1>2, <1>3

\* How late it may be where explore() is.
ClockInv ==
  /\ clock \in Nat /\ timeout \in Nat
  /\ stage \in {"rung", "sweep", "swept", "told", "over"}
  /\ rung \in 0..Len(Ladder)
  /\ stage = "rung" => clock <= Limit + 2
  /\ stage = "sweep" => rung # 0 /\ timeout <= Budget /\ clock + timeout <= Budget + 1
  /\ stage = "swept" => clock <= Limit + 1
  /\ stage \in {"told", "over"} => clock <= Limit + 3

LEMMA LimitIs == Limit \in Nat /\ Budget <= Limit
<1> DEFINE most == Budget + Grace
<1>1. Budget \in Nat /\ most \in Nat /\ Budget <= most /\ Widest \in Nat \ {0} /\ Extra \in Nat
  BY LadderIs, WidestIs DEF Extra
<1> HIDE DEF most
<1>2. most * Widest \in Nat /\ most <= most * Widest
  <2>1. \A b, w \in Nat : b * w \in Nat /\ (w # 0 => b <= b * w)
    OBVIOUS
  <2> QED
    BY <1>1, <2>1
<1>3. Limit = most * Widest + Extra
  BY DEF Limit, most
<1> DEFINE all == most * Widest
<1>4. all \in Nat /\ most <= all /\ Limit = all + Extra
  BY <1>2, <1>3
<1> HIDE DEF all
<1> QED
  BY <1>1, <1>4

\* A sweep that starts within the budget ends within the limit.
LEMMA LongestIs ==
  ASSUME ClockInv, stage = "sweep", NEW d \in 0..Longest
  PROVE  d \in Nat /\ clock + d <= Limit + 1
<1> DEFINE w == Ladder[rung].waves
           synth == Drained + IF Ladder[rung].split THEN SynthCap ELSE 0
           each == timeout + Grace
           most == Budget + Grace
<1>1. /\ clock \in Nat /\ each \in Nat /\ most \in Nat /\ each <= most /\ clock + each <= most + 1
      /\ rung \in 1..Len(Ladder)
  BY LadderIs DEF ClockInv
<1>2. w \in Nat \ {0} /\ w <= Widest /\ Widest \in Nat \ {0} /\ Extra \in Nat
  BY <1>1, LadderIs, WidestIs DEF Extra
<1>3. synth \in Nat /\ synth <= Extra
  BY LadderIs DEF Extra
<1>4. Longest = w * each + synth
  <2> DEFINE x == w * each
  <2>1. x \in Int
    BY <1>1, <1>2
  <2>2. Longest = x + Drained + IF Ladder[rung].split THEN SynthCap ELSE 0
    BY DEF Longest
  <2> HIDE DEF x
  <2>3. Longest = x + synth
    BY <2>1, <2>2, LadderIs
  <2> QED
    BY <2>3 DEF x
<1> HIDE DEF w, synth, each, most
<1>5. w * each \in Nat /\ (w - 1) * each <= (Widest - 1) * most
  <2>1. \A a, b, c, e \in Nat : a <= b /\ c <= e => a * c <= b * e
    <3> SUFFICES ASSUME NEW a \in Nat, NEW b \in Nat, NEW c \in Nat, NEW e \in Nat, a <= b, c <= e
                 PROVE  a * c <= b * e
      OBVIOUS
    <3>1. a * c <= b * c
      <4>1. (b - a) * c >= 0
        <5>1. b - a \in Nat
          OBVIOUS
        <5>2. \A x, y \in Nat : x * y >= 0
          OBVIOUS
        <5> QED
          BY <5>1, <5>2
      <4> QED
        BY <4>1
    <3>2. b * c <= b * e
      <4>1. b * (e - c) >= 0
        <5>1. e - c \in Nat
          OBVIOUS
        <5>2. \A x, y \in Nat : x * y >= 0
          OBVIOUS
        <5> QED
          BY <5>1, <5>2
      <4> QED
        BY <4>1
    <3>3. a * c \in Int /\ b * c \in Int /\ b * e \in Int
      OBVIOUS
    <3> QED
      BY <3>1, <3>2, <3>3
  <2>2. w - 1 \in Nat /\ Widest - 1 \in Nat /\ w - 1 <= Widest - 1
    BY <1>2
  <2>3. (w - 1) * each <= (Widest - 1) * most
    BY <1>1, <1>2, <2>1, <2>2
  <2>4. w * each \in Nat
    BY <1>1, <1>2
  <2> QED
    BY <2>3, <2>4
<1>6. /\ (w - 1) * each = w * each - each
      /\ (Widest - 1) * most = most * Widest - most
  BY <1>1, <1>2
<1>7. d \in Nat /\ d <= w * each + synth
  BY <1>1, <1>2, <1>3, <1>4, <1>5
<1> DEFINE x == w * each
           y == most * Widest
<1>8. x \in Nat /\ y \in Int /\ x - each <= y - most
  BY <1>1, <1>2, <1>5, <1>6
<1>9. d <= x + synth
  BY <1>7
<1>10. Limit = y + Extra
  BY DEF Limit, most
<1> HIDE DEF x, y
<1> QED
  BY <1>1, <1>2, <1>3, <1>7, <1>8, <1>9, <1>10

LEMMA ClockStep == ClockInv /\ [ExploreNext]_exploreVars => ClockInv'
<1> SUFFICES ASSUME ClockInv, [ExploreNext]_exploreVars PROVE ClockInv'
  OBVIOUS
<1> USE DEF ClockInv
<1>1. CASE Begin
  <2>1. stage = "rung" /\ rung # Len(Ladder) /\ clock < Budget
    BY <1>1, LadderIs DEF Begin, EndsLadder
  <2>2. rung' = rung + 1 /\ timeout' = SweepFor(Budget - clock) /\ stage' = "sweep" /\ clock' \in {clock, clock + 1}
    BY <1>1 DEF Begin, Moment
  <2>3. timeout' \in Nat /\ timeout' <= Budget - clock
    <3>1. Budget - clock \in Nat
      BY <2>1, LadderIs
    <3> HIDE DEF ClockInv
    <3> QED
      BY <2>2, <3>1, SweepForIs
  <2> QED
    BY <2>1, <2>2, <2>3, LadderIs
<1>2. CASE Swept \/ SweepRaises
  <2>1. PICK d \in 0..Longest : clock' = clock + d
    BY <1>2 DEF Swept, SweepRaises
  <2>2. d \in Nat /\ clock + d <= Limit + 1
    BY <1>2, <2>1, LongestIs DEF Swept, SweepRaises
  <2> HIDE DEF ClockInv
  <2>3. /\ stage' \in {"swept", "over"} /\ UNCHANGED <<rung, timeout>>
        /\ clock \in Nat /\ timeout \in Nat /\ rung \in 0..Len(Ladder)
    BY <1>2 DEF Swept, SweepRaises, ClockInv
  <2> QED
    BY <2>1, <2>2, <2>3, LimitIs DEF ClockInv
<1>3. CASE Recorded \/ Leave
  BY <1>3, LimitIs DEF Recorded, Leave, Moment
<1>4. CASE Exits \/ UNCHANGED exploreVars
  BY <1>4, LimitIs DEF Exits, exploreVars
<1> QED
  BY <1>1, <1>2, <1>3, <1>4 DEF ExploreNext

\* Whatever the ladder, its budget and its waves: as each rung is sized by the time left,
\* the ladder overruns its budget by the later waves of one rung only, and what that rung
\* takes beside its timeouts.
THEOREM LadderIsBounded == ExploreSpec => []OverrunBounded
<1>1. ExploreInit => ClockInv
  BY LadderIs, LimitIs DEF ExploreInit, ClockInv
<1>2. ClockInv => OverrunBounded
  <2> SUFFICES ASSUME ClockInv PROVE OverrunBounded
    OBVIOUS
  <2>1. clock \in Nat /\ clock <= Limit + 3
    BY LimitIs, LadderIs DEF ClockInv
  <2>2. MaxOf(Waves) = Widest
    BY DEF Widest
  <2>3. Limit + 3 = (Budget + Grace) * Widest + Drained + SynthCap + 3
    <3> DEFINE all == (Budget + Grace) * Widest
    <3>1. all \in Int
      BY LadderIs, WidestIs
    <3> HIDE DEF all
    <3>2. Limit = all + Extra
      BY DEF Limit, all
    <3>3. Limit + 3 = all + Drained + SynthCap + 3
      BY <3>1, <3>2, LadderIs DEF Extra
    <3> QED
      BY <3>3 DEF all
  <2> QED
    BY <2>1, <2>2, <2>3, LadderIs DEF OverrunBounded, Waves
<1> QED
  BY <1>1, <1>2, ClockStep, PTL DEF ExploreSpec

\* Nothing but failures before the latest rung; that one failed too, unless time is up.
Failed(n) == \A i \in 1..n : reasons[i] = "failed"

Unfinished ==
  Failed(Len(reasons) - 1) /\ (clock < Budget => Failed(Len(reasons)))

ReasonsInv ==
  /\ reasons \in Seq({"passed", "budget", "failed"})
  /\ stage # "over" => code = 9
  /\ stage \in {"rung", "told"} => Len(reasons) = rung
  /\ stage \in {"sweep", "swept"} => Len(reasons) = rung - 1 /\ Failed(Len(reasons))
  /\ stage = "rung" => best = "none" /\ Unfinished
  /\ stage = "told" =>
       IF best = "none" THEN Unfinished /\ (rung = Len(Ladder) \/ clock >= Budget)
       ELSE /\ Len(reasons) > 0 /\ reasons[Len(reasons)] = "passed"
            /\ Failed(Len(reasons) - 1)
  /\ stage = "over" => ToldAsItWent

LEMMA ReasonsStep == ClockInv /\ ReasonsInv /\ [ExploreNext]_exploreVars => ReasonsInv'
<1> SUFFICES ASSUME ClockInv, ReasonsInv, [ExploreNext]_exploreVars PROVE ReasonsInv'
  OBVIOUS
<1>1. Len(reasons) \in Nat /\ clock \in Nat /\ rung \in 0..Len(Ladder) /\ Len(Ladder) \in Nat /\ Budget \in Nat
  BY LadderIs, LenProperties DEF ClockInv, ReasonsInv
<1>2. CASE Begin
  <2>1. stage = "rung" /\ ~(rung = Len(Ladder) \/ clock >= Budget) /\ rung' = rung + 1 /\ stage' = "sweep"
        /\ UNCHANGED <<best, printed, reasons, code>>
    BY <1>2 DEF Begin, EndsLadder
  <2> QED
    BY <1>1, <2>1 DEF ReasonsInv, Unfinished, Failed
<1>3. CASE Swept
  BY <1>1, <1>3 DEF Swept, ReasonsInv, Failed
<1>4. CASE SweepRaises
  <2>1. stage = "sweep" /\ stage' = "over" /\ code' = 1 /\ reasons' = reasons
    BY <1>4 DEF SweepRaises
  <2> QED
    BY <1>1, <2>1 DEF ReasonsInv, Failed, ToldAsItWent
<1>5. CASE Recorded
  <2> DEFINE n == Len(reasons)
  <2>1. /\ stage = "swept" /\ reasons' = Append(reasons, Why) /\ best' = best /\ rung' = rung /\ code' = code
        /\ stage' = IF best # "none" THEN "told" ELSE "rung"
        /\ clock' \in {clock, clock + 1}
    BY <1>5 DEF Recorded, Moment
  <2>2. Why \in {"passed", "budget", "failed"}
    BY DEF Why
  <2>3. /\ reasons' \in Seq({"passed", "budget", "failed"}) /\ Len(reasons') = n + 1
        /\ reasons'[n + 1] = Why /\ \A i \in 1..n : reasons'[i] = reasons[i]
    BY <2>1, <2>2, AppendProperties DEF ReasonsInv
  <2>4. \A i \in 1..n : reasons'[i] = "failed"
    BY <2>1, <2>3 DEF ReasonsInv, Failed
  <2>5. n = rung - 1 /\ code = 9
    BY <2>1 DEF ReasonsInv
  <2> HIDE DEF n
  <2>6. Failed(Len(reasons) - 1)'
    BY <1>1, <2>3, <2>4 DEF Failed, n
  <2>7. CASE best # "none"
    <3>1. Why = "passed"
      BY <2>7 DEF Why
    <3> QED
      BY <1>1, <2>1, <2>3, <2>5, <2>6, <2>7, <3>1 DEF ReasonsInv, n
  <2>8. CASE best = "none"
    <3>1. clock' < Budget => Why = "failed"
      BY <1>1, <2>1, <2>8 DEF Why
    <3>2. clock' < Budget => Failed(Len(reasons))'
      BY <1>1, <2>3, <2>4, <3>1 DEF Failed, n
    <3> QED
      BY <1>1, <2>1, <2>3, <2>5, <2>6, <2>8, <3>2 DEF ReasonsInv, Unfinished, n
  <2> QED
    BY <2>7, <2>8
<1>6. CASE Leave
  <2>1. /\ stage = "rung" /\ (rung = Len(Ladder) \/ clock >= Budget) /\ stage' = "told"
        /\ clock' \in {clock, clock + 1} /\ UNCHANGED <<rung, best, reasons, code>>
    BY <1>6 DEF Leave, EndsLadder, Moment
  <2> QED
    BY <1>1, <2>1 DEF ReasonsInv, Unfinished, Failed
<1>7. CASE Exits
  <2>1. stage = "told" /\ stage' = "over" /\ UNCHANGED <<clock, rung, best, reasons>>
    BY <1>7 DEF Exits
  <2>2. code' = IF best = "none" /\ clock >= Budget THEN 4
                ELSE IF best = "none" THEN 3 ELSE IF printed /\ best = "no_slack" THEN 1 ELSE 0
    BY <1>7 DEF Exits, timed_out
  <2>3. CASE best = "none"
    <3>1. Unfinished /\ (rung = Len(Ladder) \/ clock >= Budget) /\ Len(reasons) = rung
      BY <2>1, <2>3 DEF ReasonsInv
    <3>2. clock >= Budget \/ clock < Budget
      BY <1>1
    <3> QED
      BY <1>1, <2>1, <2>2, <2>3, <3>1, <3>2 DEF ReasonsInv, Unfinished, Failed, ToldAsItWent
  <2>4. CASE best # "none"
    <3>1. code' \in {0, 1}
      BY <2>2, <2>4
    <3>2. /\ Len(reasons) > 0 /\ reasons[Len(reasons)] = "passed"
          /\ \A i \in 1..(Len(reasons) - 1) : reasons[i] = "failed"
      BY <2>1, <2>4 DEF ReasonsInv, Failed
    <3>3. ToldAsItWent'
      BY <2>1, <3>1, <3>2 DEF ToldAsItWent
    <3> QED
      BY <2>1, <3>3 DEF ReasonsInv
  <2> QED
    BY <2>3, <2>4
<1>8. CASE UNCHANGED exploreVars
  BY <1>8 DEF exploreVars, ReasonsInv, Unfinished, Failed, ToldAsItWent
<1> QED
  BY <1>2, <1>3, <1>4, <1>5, <1>6, <1>7, <1>8 DEF ExploreNext

LEMMA LadderTells == ExploreSpec => []ToldAsItWent
<1>1. ExploreInit => ClockInv /\ ReasonsInv
  <2>1. ExploreInit => ClockInv
    BY LadderIs, LimitIs DEF ExploreInit, ClockInv
  <2>2. ExploreInit => ReasonsInv
    BY LadderIs DEF ExploreInit, ReasonsInv, Unfinished, Failed
  <2> QED
    BY <2>1, <2>2
<1>2. ClockInv /\ ReasonsInv => ToldAsItWent
  <2> SUFFICES ASSUME ClockInv, ReasonsInv PROVE ToldAsItWent
    OBVIOUS
  <2>1. Len(reasons) \in Nat
    BY LenProperties DEF ReasonsInv
  <2>2. CASE stage = "over"
    BY <2>2 DEF ReasonsInv
  <2>3. CASE stage # "over"
    BY <2>1, <2>3 DEF ClockInv, ReasonsInv, Unfinished, Failed, ToldAsItWent
  <2> QED
    BY <2>2, <2>3
<1> QED
  BY <1>1, <1>2, ClockStep, ReasonsStep, PTL DEF ExploreSpec

-----------------------------------------------------------------------------
(* gha trigger and gha watch.                                               *)

GhaSpec == GhaWatchInit /\ [][GhaWatchNext]_ghaWatchVars

Said == {"none"} \cup Listed

LEMMA ListedIs ==
  Listed = {"queued", "first_step", "second_step", "success", "failure", "cancelled"}
<1>1. {Stages[i] : i \in 1..3} = {"queued", "first_step", "second_step"}
  <2>1. 1..3 = {1, 2, 3}
    OBVIOUS
  <2>2. Stages[1] = "queued" /\ Stages[2] = "first_step" /\ Stages[3] = "second_step"
    BY DEF Stages
  <2> QED
    BY <2>1, <2>2
<1> QED
  BY <1>1 DEF Listed, Completed

LEMMA ProgressIs ==
  /\ Progress("none") = 0
  /\ Progress("queued") = 1 /\ Progress("first_step") = 2 /\ Progress("second_step") = 3
  /\ \A s \in Completed : Progress(s) = 4
<1>1. Stages[1] = "queued" /\ Stages[2] = "first_step" /\ Stages[3] = "second_step"
  BY DEF Stages
<1>2. \A i, k \in 1..3 : Stages[i] = Stages[k] => i = k
  <2>1. \A i \in 1..3 : i = 1 \/ i = 2 \/ i = 3
    OBVIOUS
  <2> QED
    BY <1>1, <2>1
<1> DEFINE Pos(s) == CHOOSE i \in 1..3 : Stages[i] = s
<1>3. \A k \in 1..3 : Pos(Stages[k]) \in 1..3 /\ Stages[Pos(Stages[k])] = Stages[k]
  OBVIOUS
<1>4. \A s : Progress(s) = IF s = "none" THEN 0 ELSE IF s \in Completed THEN 4 ELSE Pos(s)
  BY DEF Progress
<1> HIDE DEF Pos
<1>5. \A k \in 1..3 : Pos(Stages[k]) = k
  BY <1>2, <1>3
<1>6. Pos("queued") = 1 /\ Pos("first_step") = 2 /\ Pos("second_step") = 3
  <2>1. 1 \in 1..3 /\ 2 \in 1..3 /\ 3 \in 1..3
    OBVIOUS
  <2> QED
    BY <1>1, <1>5, <2>1
<1> QED
  BY <1>4, <1>6 DEF Completed

\* A newest run is one of those asked for.
LEMMA NewestIs == ASSUME NEW S \in SUBSET RunIds, S # {} PROVE Newest(S) \in S
<1> DEFINE HasMax(T) == \E x \in T : \A y \in T : y <= x
           Done == {n \in Nat : \A T \in SUBSET (0..n) : T # {} => HasMax(T)}
<1>1. 0 \in Done
  <2>1. ASSUME NEW T \in SUBSET (0..0), T # {} PROVE HasMax(T)
    <3>1. PICK x \in T : TRUE
      BY <2>1
    <3>2. \A y \in T : y = 0
      BY <2>1
    <3> QED
      BY <3>1, <3>2
  <2> HIDE DEF HasMax
  <2> QED
    BY <2>1
<1>2. \A n \in Done \cap Nat : n + 1 \in Done
  <2> HIDE DEF HasMax
  <2> SUFFICES ASSUME NEW n \in Nat, \A T \in SUBSET (0..n) : T # {} => HasMax(T),
                      NEW T \in SUBSET (0..(n + 1)), T # {}
               PROVE  HasMax(T)
    OBVIOUS
  <2>1. CASE n + 1 \in T
    <3>1. \A y \in T : y <= n + 1
      OBVIOUS
    <3> QED
      BY <2>1, <3>1 DEF HasMax
  <2>2. CASE n + 1 \notin T
    <3>1. T \in SUBSET (0..n)
      BY <2>2
    <3> QED
      BY <3>1
  <2> QED
    BY <2>1, <2>2
<1>3. Nat \subseteq Done
  <2> HIDE DEF Done
  <2> QED
    BY <1>1, <1>2, SetInduction
<1> DEFINE last == Retries + 1
<1>4. last \in Nat /\ RunIds = 0..last
  BY GhaWatchAssumption DEF RunIds
<1> HIDE DEF last
<1>5. HasMax(S)
  <2> HIDE DEF HasMax
  <2>1. last \in Done
    BY <1>3, <1>4
  <2> QED
    BY <1>4, <2>1
<1> QED
  BY <1>5 DEF Newest

Far(s, t) == Progress(s) <= Progress(t)

\* Where a run is known, and nothing is told of one before.
GhaShape ==
  /\ remote \in [RunIds -> {"absent", "hidden"} \cup Listed]
  /\ ghaAt \in {"post", "latest", "list", "run", "jobs", "told?", "over", "stopped"}
  /\ got \in Said \X Said /\ reported \in Said \X Said
  /\ ghaAt \in {"run", "jobs", "told?"} => target \in RunIds /\ remote[target] \in Listed
  /\ ghaAt \in {"post", "latest", "list"} => reported = Nothing
  /\ ghaAt = "over" /\ reported # Nothing => target \in RunIds

\* What was told is behind what was got, and that is behind the run.
GhaAhead ==
  /\ ghaAt \in {"run", "jobs", "told?"} =>
       /\ Far(reported[1], StatusOf(remote[target])) /\ Far(reported[2], remote[target])
       /\ reported[2] # "none" => remote[target] # "queued"
  /\ ghaAt \in {"jobs", "told?"} =>
       /\ Far(reported[1], got[1]) /\ Far(got[1], StatusOf(remote[target]))
       /\ got[1] \in Completed => remote[target] = got[1]
  /\ ghaAt = "jobs" => remote[target] # "queued"
  /\ ghaAt = "told?" =>
       /\ Far(reported[2], got[2]) /\ Far(got[2], remote[target])
       /\ got[2] # "none" => remote[target] # "queued"
       /\ got[1] \in Completed => got[2] = got[1]

GhaInv == GhaShape /\ GhaAhead /\ EndIsTold

LEMMA FarIs ==
  /\ \A s \in Said : Progress(s) \in Nat /\ StatusOf(s) \in Said
  /\ \A s \in Listed : s # "none" /\ Progress(s) >= 1
  /\ \A s \in Listed \ Completed : \A c \in Completed :
       Far(s, c) /\ Far(StatusOf(s), StatusOf(c)) /\ c # "queued" /\ c \in Listed
  /\ Far("queued", "first_step") /\ Far(StatusOf("queued"), StatusOf("first_step"))
  /\ Far("first_step", "second_step") /\ Far(StatusOf("first_step"), StatusOf("second_step"))
<1>1. \A s : /\ s = "none" => Progress(s) = 0
             /\ s = "queued" => Progress(s) = 1
             /\ s = "first_step" => Progress(s) = 2
             /\ s = "second_step" => Progress(s) = 3
             /\ s \in Completed => Progress(s) = 4
  BY ProgressIs, Zenon
<1>2. \A s : /\ s = "second_step" => StatusOf(s) = "first_step"
             /\ s # "second_step" => StatusOf(s) = s
  BY DEF StatusOf
<1>3. \A c \in Completed : c \in Listed /\ c \notin {"none", "queued", "first_step", "second_step"}
  BY ListedIs DEF Completed
<1>4. \A s \in Listed : s # "none" /\ (s \in Completed \/ s \in {"queued", "first_step", "second_step"})
  BY ListedIs DEF Completed
<1>5. "first_step" \in Listed
  BY ListedIs
<1> QED
  <2>1. \A s \in Said : Progress(s) \in Nat /\ StatusOf(s) \in Said
    <3>1. \A s \in Said : s = "none" \/ s \in Completed \/ s \in {"queued", "first_step", "second_step"}
      BY <1>4 DEF Said
    <3>2. \A s \in Said : StatusOf(s) \in Said
      BY <1>2, <1>5 DEF Said
    <3> QED
      BY <1>1, <3>1, <3>2
  <2>2. \A s \in Listed : s # "none" /\ Progress(s) >= 1
    BY <1>1, <1>4
  <2>3. \A s \in Listed \ Completed : \A c \in Completed :
          Far(s, c) /\ Far(StatusOf(s), StatusOf(c)) /\ c # "queued" /\ c \in Listed
    BY <1>1, <1>2, <1>3, <1>4 DEF Far
  <2>4. /\ Far("queued", "first_step") /\ Far(StatusOf("queued"), StatusOf("first_step"))
        /\ Far("first_step", "second_step") /\ Far(StatusOf("first_step"), StatusOf("second_step"))
    BY <1>1, <1>2 DEF Far
  <2> QED
    BY <2>1, <2>2, <2>3, <2>4

\* A run only moves on, and a completed one does not move.
LEMMA RunsMoveOn ==
  ASSUME GhaShape, GitHub
  PROVE  /\ remote' \in [RunIds -> {"absent", "hidden"} \cup Listed]
         /\ \A i \in RunIds : remote[i] \in Listed =>
              /\ remote'[i] \in Listed
              /\ Far(remote[i], remote'[i]) /\ Far(StatusOf(remote[i]), StatusOf(remote'[i]))
              /\ remote[i] \in Completed => remote'[i] = remote[i]
              /\ remote[i] # "queued" => remote'[i] # "queued"
<1>1. PICK i \in RunIds : Appears(i) \/ Advances(i)
  BY DEF GitHub
<1>2. remote \in [RunIds -> {"absent", "hidden"} \cup Listed]
  BY DEF GhaShape
<1>3. \A s : s \in Listed => s \in Said /\ Far(s, s) /\ Far(StatusOf(s), StatusOf(s))
  <2>1. \A s : s \in Listed => s \in Said
    BY DEF Said
  <2>2. \A s \in Said : Far(s, s)
    BY FarIs DEF Far
  <2> QED
    BY <2>1, <2>2, FarIs
<1>4. CASE Appears(i)
  <2>1. remote[i] = "hidden" /\ remote' = [remote EXCEPT ![i] = "queued"]
    BY <1>4 DEF Appears
  <2>2. "hidden" \notin Listed /\ "queued" \in Listed
    BY ListedIs
  <2> QED
    BY <1>2, <1>3, <2>1, <2>2
<1>5. ASSUME NEW t \in Listed, remote[i] \in Listed \ Completed, remote' = [remote EXCEPT ![i] = t],
             Far(remote[i], t), Far(StatusOf(remote[i]), StatusOf(t)), t # "queued"
      PROVE  /\ remote' \in [RunIds -> {"absent", "hidden"} \cup Listed]
             /\ \A j \in RunIds : remote[j] \in Listed =>
                  /\ remote'[j] \in Listed
                  /\ Far(remote[j], remote'[j]) /\ Far(StatusOf(remote[j]), StatusOf(remote'[j]))
                  /\ remote[j] \in Completed => remote'[j] = remote[j]
                  /\ remote[j] # "queued" => remote'[j] # "queued"
  BY <1>2, <1>3, <1>5
<1>6. CASE Advances(i)
  <2>1. CASE /\ remote[i] \in Listed \ Completed
             /\ \E c \in Completed : remote' = [remote EXCEPT ![i] = c]
    BY <1>5, <2>1, FarIs
  <2>2. CASE \E k \in 1..2 : remote[i] = Stages[k] /\ remote' = [remote EXCEPT ![i] = Stages[k + 1]]
    <3>1. Stages[1] = "queued" /\ Stages[2] = "first_step" /\ Stages[3] = "second_step"
      BY DEF Stages
    <3>2. \A k \in 1..2 : (k = 1 /\ k + 1 = 2) \/ (k = 2 /\ k + 1 = 3)
      OBVIOUS
    <3>3. \/ remote[i] = "queued" /\ remote' = [remote EXCEPT ![i] = "first_step"]
          \/ remote[i] = "first_step" /\ remote' = [remote EXCEPT ![i] = "second_step"]
      BY <2>2, <3>1, <3>2
    <3>4. {"queued", "first_step"} \subseteq Listed \ Completed /\ {"first_step", "second_step"} \subseteq Listed
      BY ListedIs DEF Completed
    <3>5. CASE remote[i] = "queued" /\ remote' = [remote EXCEPT ![i] = "first_step"]
      <4> DEFINE t == "first_step"
      <4>1. t \in Listed /\ remote[i] \in Listed \ Completed /\ t # "queued" /\ remote' = [remote EXCEPT ![i] = t]
        BY <3>4, <3>5
      <4>2. Far(remote[i], t) /\ Far(StatusOf(remote[i]), StatusOf(t))
        BY <3>5, FarIs
      <4> HIDE DEF t
      <4> QED
        BY <1>5, <4>1, <4>2
    <3>6. CASE remote[i] = "first_step" /\ remote' = [remote EXCEPT ![i] = "second_step"]
      <4> DEFINE t == "second_step"
      <4>1. t \in Listed /\ remote[i] \in Listed \ Completed /\ t # "queued" /\ remote' = [remote EXCEPT ![i] = t]
        BY <3>4, <3>6
      <4>2. Far(remote[i], t) /\ Far(StatusOf(remote[i]), StatusOf(t))
        BY <3>6, FarIs
      <4> HIDE DEF t
      <4> QED
        BY <1>5, <4>1, <4>2
    <3> QED
      BY <3>3, <3>5, <3>6
  <2> QED
    BY <1>6, <2>1, <2>2 DEF Advances
<1> QED
  BY <1>1, <1>4, <1>5, <1>6

LEMMA GhaInit == GhaWatchInit => GhaInv
<1> SUFFICES ASSUME GhaWatchInit PROVE GhaInv
  OBVIOUS
<1>1. remote \in [RunIds -> {"absent", "hidden"} \cup Listed]
  BY ListedIs DEF GhaWatchInit
<1> QED
  BY <1>1 DEF GhaWatchInit, GhaInv, GhaShape, GhaAhead, EndIsTold, Nothing, Said

LEMMA GitHubKeeps == ASSUME GhaInv, GitHub PROVE GhaInv'
<1>1. UNCHANGED <<ghaAt, thenWatch, json, tries, polls, target, got, reported, ghaCode>>
  BY DEF GitHub
<1>2. /\ remote' \in [RunIds -> {"absent", "hidden"} \cup Listed]
      /\ \A i \in RunIds : remote[i] \in Listed =>
           /\ remote'[i] \in Listed
           /\ Far(remote[i], remote'[i]) /\ Far(StatusOf(remote[i]), StatusOf(remote'[i]))
           /\ remote[i] \in Completed => remote'[i] = remote[i]
           /\ remote[i] # "queued" => remote'[i] # "queued"
  BY RunsMoveOn DEF GhaInv
<1>3. \A s \in Said : Progress(s) \in Nat /\ StatusOf(s) \in Said
  BY FarIs
<1>4. GhaShape'
  BY <1>1, <1>2 DEF GhaInv, GhaShape
<1>5. GhaAhead'
  <2>1. CASE ghaAt \in {"run", "jobs", "told?"}
    <3>1. /\ target \in RunIds /\ remote[target] \in Listed /\ remote'[target] \in Said /\ remote[target] \in Said
          /\ got[1] \in Said /\ got[2] \in Said /\ reported[1] \in Said /\ reported[2] \in Said
      BY <1>2, <2>1 DEF GhaInv, GhaShape, Said
    <3>2. \A s \in Said : Far(s, remote[target]) => Far(s, remote'[target])
      BY <1>2, <1>3, <3>1 DEF Far
    <3>3. \A s \in Said : Far(s, StatusOf(remote[target])) => Far(s, StatusOf(remote'[target]))
      BY <1>2, <1>3, <3>1 DEF Far
    <3> QED
      BY <1>1, <1>2, <2>1, <3>1, <3>2, <3>3 DEF GhaInv, GhaAhead
  <2>2. CASE ghaAt \notin {"run", "jobs", "told?"}
    BY <1>1, <2>2 DEF GhaAhead
  <2> QED
    BY <2>1, <2>2
<1>6. EndIsTold'
  BY <1>1, <1>2, ListedIs DEF GhaInv, GhaShape, EndIsTold, Completed
<1> QED
  BY <1>4, <1>5, <1>6 DEF GhaInv

\* What a step that leaves with 2 keeps.
LEMMA LeavesWithTwo ==
  ASSUME GhaInv, ghaAt \notin {"over", "stopped"}, Leaves(2) \/ UNCHANGED <<ghaAt, ghaCode>>,
         UNCHANGED <<target, got, reported>>,
         \/ UNCHANGED remote
         \/ ghaAt = "post" /\ remote' \in [RunIds -> {"absent", "hidden"} \cup Listed]
  PROVE  GhaInv'
<1>1. GhaShape'
  BY DEF GhaInv, GhaShape, Leaves
<1>2. GhaAhead'
  BY DEF GhaInv, GhaAhead, Leaves
<1>3. EndIsTold'
  BY DEF GhaInv, EndIsTold, Leaves
<1> QED
  BY <1>1, <1>2, <1>3 DEF GhaInv

LEMMA CallFails == ASSUME GhaInv, ReadFails \/ PostFails PROVE GhaInv'
<1>1. Leaves(2) \/ UNCHANGED <<ghaAt, ghaCode>>
  BY DEF ReadFails, PostFails, GivesUp, Raises
<1>2. UNCHANGED <<target, got, reported>>
  BY DEF ReadFails, PostFails
<1>3. CASE ReadFails
  BY <1>1, <1>2, <1>3, LeavesWithTwo DEF ReadFails
<1>4. CASE PostFails
  <2>1. ghaAt = "post" /\ (Accept \/ UNCHANGED remote)
    BY <1>4 DEF PostFails
  <2>2. remote' \in [RunIds -> {"absent", "hidden"} \cup Listed]
    BY <2>1 DEF Accept, GhaInv, GhaShape
  <2> QED
    BY <1>1, <1>2, <2>1, <2>2, LeavesWithTwo
<1> QED
  BY <1>3, <1>4

LEMMA PostKeeps == ASSUME GhaInv, Post PROVE GhaInv'
<1>1. ghaAt = "post" /\ ghaAt' = "list" /\ UNCHANGED <<target, got, reported, ghaCode>>
  BY DEF Post
<1>2. remote' \in [RunIds -> {"absent", "hidden"} \cup Listed]
  BY DEF Post, Accept, GhaInv, GhaShape
<1> QED
  BY <1>1, <1>2 DEF GhaInv, GhaShape, GhaAhead, EndIsTold

\* A run to watch is one that is listed.
LEMMA TargetKeeps ==
  ASSUME GhaInv, ghaAt \in {"list", "latest"}, target' \in RunIds, remote[target'] \in Listed,
         ghaAt' \in {"run", "over"}, UNCHANGED <<remote, got, reported>>
  PROVE  GhaInv'
<1>1. reported = Nothing
  BY DEF GhaInv, GhaShape
<1>2. GhaShape'
  BY DEF GhaInv, GhaShape
<1>3. \A s \in Said : Far("none", s)
  BY ProgressIs, FarIs DEF Far
<1>4. GhaAhead'
  <2>1. remote[target'] \in Said /\ StatusOf(remote[target']) \in Said
    BY FarIs DEF Said
  <2>2. reported[1] = "none" /\ reported[2] = "none"
    BY <1>1 DEF Nothing
  <2>3. Far("none", remote[target']) /\ Far("none", StatusOf(remote[target']))
    BY <1>3, <2>1
  <2> QED
    BY <2>2, <2>3 DEF GhaAhead
<1>5. EndIsTold'
  BY <1>1 DEF EndIsTold
<1> QED
  BY <1>2, <1>4, <1>5 DEF GhaInv

LEMMA FoundIs == ASSUME Found PROVE target' \in Matching
<1>1. Matching # {} /\ target' = Newest(Matching) /\ Matching \in SUBSET RunIds
  BY DEF Found, Matching
<1> QED
  BY <1>1, NewestIs

LEMMA ListKeeps == ASSUME GhaInv, Found \/ NotListed \/ Latest PROVE GhaInv'
<1>1. CASE Found
  <2>1. target' \in RunIds /\ remote[target'] \in Listed
    BY <1>1, FoundIs DEF Matching
  <2>2. ghaAt = "list" /\ ghaAt' \in {"run", "over"} /\ UNCHANGED <<remote, got, reported>>
    BY <1>1 DEF Found, Leaves
  <2> QED
    BY <2>1, <2>2, TargetKeeps
<1>2. CASE NotListed
  <2>1. /\ ghaAt = "list" /\ (Leaves(2) \/ UNCHANGED <<ghaAt, ghaCode>>)
        /\ UNCHANGED <<target, got, reported>> /\ UNCHANGED remote
    BY <1>2 DEF NotListed
  <2> QED
    BY <2>1, LeavesWithTwo
<1>3. CASE Latest
  <2> DEFINE listed == {i \in RunIds : remote[i] \in Listed}
  <2>1. CASE listed = {}
    <3>1. ghaAt = "latest" /\ Leaves(1) /\ UNCHANGED <<remote, target, got, reported>>
      BY <1>3, <2>1 DEF Latest
    <3> QED
      BY <3>1 DEF GhaInv, GhaShape, GhaAhead, EndIsTold, Leaves
  <2>2. CASE listed # {}
    <3>1. /\ ghaAt = "latest" /\ ghaAt' = "run" /\ target' = Newest(listed)
          /\ UNCHANGED <<remote, got, reported>>
      BY <1>3, <2>2 DEF Latest
    <3>2. listed \in SUBSET RunIds /\ (\A i \in listed : i \in RunIds /\ remote[i] \in Listed)
      OBVIOUS
    <3> HIDE DEF listed
    <3>3. target' \in listed
      BY <2>2, <3>1, <3>2, NewestIs
    <3> QED
      BY <3>1, <3>2, <3>3, TargetKeeps
  <2> QED
    BY <2>1, <2>2
<1> QED
  BY <1>1, <1>2, <1>3

LEMMA GetRunKeeps == ASSUME GhaInv, get_run PROVE GhaInv'
<1> DEFINE s == remote[target]
<1>1. /\ ghaAt = "run" /\ got' = <<StatusOf(s), "none">>
      /\ ghaAt' = IF s = "queued" THEN "told?" ELSE "jobs"
      /\ UNCHANGED <<remote, target, reported, ghaCode>>
  BY DEF get_run
<1>2. target \in RunIds /\ s \in Listed
  BY <1>1 DEF GhaInv, GhaShape
<1>3. s \in Said /\ StatusOf(s) \in Said /\ "none" \in Said
  BY <1>2, FarIs DEF Said
<1>4. got'[1] = StatusOf(s) /\ got'[2] = "none" /\ got' \in Said \X Said
  BY <1>1, <1>3
<1>5. GhaShape'
  BY <1>1, <1>2, <1>4 DEF GhaInv, GhaShape
<1>6. /\ Far(reported[1], StatusOf(s)) /\ Far(reported[2], s)
      /\ (reported[2] # "none" => s # "queued")
  BY <1>1 DEF GhaInv, GhaAhead
<1>7. StatusOf(s) \in Completed => s = StatusOf(s)
  <2>1. "first_step" \notin Completed
    BY DEF Completed
  <2> QED
    BY <2>1 DEF StatusOf
<1>8. StatusOf("queued") = "queued" /\ "queued" \notin Completed
  BY DEF StatusOf, Completed
<1>9. Far("none", s) /\ Far("none", "none") /\ Far(StatusOf(s), StatusOf(s))
  BY <1>3, ProgressIs, FarIs DEF Far
<1> HIDE DEF s
<1>10. remote'[target'] = s
  BY <1>1 DEF s
<1>11. CASE s = "queued"
  <2>1. ghaAt' = "told?" /\ reported' = reported /\ reported[2] = "none" /\ got'[1] \notin Completed
    BY <1>1, <1>4, <1>6, <1>8, <1>11
  <2> QED
    BY <1>4, <1>5, <1>6, <1>9, <1>10, <1>11, <2>1 DEF GhaInv, GhaAhead, EndIsTold
<1>12. CASE s # "queued"
  <2>1. ghaAt' = "jobs" /\ reported' = reported
    BY <1>1, <1>12
  <2> QED
    BY <1>4, <1>5, <1>6, <1>7, <1>9, <1>10, <1>12, <2>1 DEF GhaInv, GhaAhead, EndIsTold
<1> QED
  BY <1>11, <1>12

LEMMA GetJobsKeeps == ASSUME GhaInv, get_jobs PROVE GhaInv'
<1> DEFINE s == remote[target]
<1>1. /\ ghaAt = "jobs" /\ got' = <<got[1], s>> /\ ghaAt' = "told?"
      /\ UNCHANGED <<remote, target, reported, ghaCode>>
  BY DEF get_jobs
<1>2. target \in RunIds /\ s \in Listed /\ got \in Said \X Said
  BY <1>1 DEF GhaInv, GhaShape
<1>3. s \in Said /\ got[1] \in Said
  BY <1>2 DEF Said
<1>4. got'[1] = got[1] /\ got'[2] = s /\ got' \in Said \X Said
  BY <1>1, <1>3
<1>5. GhaShape'
  BY <1>1, <1>2, <1>4 DEF GhaInv, GhaShape
<1>6. /\ Far(reported[1], StatusOf(s)) /\ Far(reported[2], s)
      /\ (reported[2] # "none" => s # "queued")
      /\ Far(reported[1], got[1]) /\ Far(got[1], StatusOf(s))
      /\ (got[1] \in Completed => s = got[1])
      /\ s # "queued"
  BY <1>1 DEF GhaInv, GhaAhead
<1>7. Far(s, s)
  BY <1>3, FarIs DEF Far
<1>8. remote'[target'] = s /\ ghaAt' = "told?" /\ reported' = reported
  BY <1>1
<1> HIDE DEF s
<1> QED
  BY <1>4, <1>5, <1>6, <1>7, <1>8 DEF GhaInv, GhaAhead, EndIsTold

LEMMA CompareKeeps == ASSUME GhaInv, Compare PROVE GhaInv'
<1> DEFINE s == remote[target]
<1>1. ghaAt = "told?" /\ reported' = got /\ UNCHANGED <<remote, target, got>>
  BY DEF Compare
<1>2. target \in RunIds /\ s \in Listed /\ got \in Said \X Said
  BY <1>1 DEF GhaInv, GhaShape
<1>3. /\ Far(got[1], StatusOf(s)) /\ Far(got[2], s)
      /\ (got[2] # "none" => s # "queued")
      /\ (got[1] \in Completed => s = got[1] /\ got[2] = got[1])
  BY <1>1 DEF GhaInv, GhaAhead
<1>4. remote'[target'] = s /\ target' \in RunIds
  BY <1>1, <1>2
<1>5. CASE ghaAt' = "run" /\ UNCHANGED ghaCode
  <2> HIDE DEF s
  <2>1. GhaShape'
    BY <1>1, <1>2, <1>4, <1>5 DEF GhaInv, GhaShape
  <2>2. GhaAhead'
    BY <1>1, <1>3, <1>4, <1>5 DEF GhaAhead
  <2> QED
    BY <1>5, <2>1, <2>2 DEF GhaInv, EndIsTold
<1>6. CASE Leaves(CodeOf(got[1]))
  <2>1. ghaAt' = "over" /\ ghaCode' = CodeOf(got[1])
    BY <1>6 DEF Leaves
  <2> HIDE DEF s
  <2>2. GhaShape'
    BY <1>1, <1>2, <1>4, <2>1 DEF GhaInv, GhaShape
  <2>3. GhaAhead'
    BY <2>1 DEF GhaAhead
  <2>4. EndIsTold'
    <3>1. /\ (ghaCode' = 0 => got[1] = "success")
          /\ (ghaCode' = 3 => got[1] = "failure")
          /\ (ghaCode' = 4 => got[1] \notin {"success", "failure"})
      BY <2>1 DEF CodeOf, Completed
    <3> QED
      BY <1>1, <1>3, <1>4, <3>1 DEF EndIsTold, Completed
  <2> QED
    BY <2>2, <2>3, <2>4 DEF GhaInv
<1> QED
  BY <1>5, <1>6 DEF Compare

LEMMA GhaStep == ASSUME GhaInv, [GhaWatchNext]_ghaWatchVars PROVE GhaInv'
<1>1. CASE StopWatching
  <2>1. ghaAt' = "stopped" /\ UNCHANGED <<remote, target, got, reported>>
    BY <1>1 DEF StopWatching
  <2> QED
    BY <2>1 DEF GhaInv, GhaShape, GhaAhead, EndIsTold
<1>2. CASE UNCHANGED ghaWatchVars
  BY <1>2 DEF ghaWatchVars, GhaInv, GhaShape, GhaAhead, EndIsTold
<1>3. CASE GhaCommand
  BY <1>3, CallFails, PostKeeps, ListKeeps, GetRunKeeps, GetJobsKeeps, CompareKeeps, Zenon DEF GhaCommand
<1> QED
  BY <1>1, <1>2, <1>3, GitHubKeeps DEF GhaWatchNext

\* The last update of a watch is of the run as it ended (EndIsTold), whatever GitHub and
\* the two reads of a poll do meanwhile (gha.py:190-225).
THEOREM LastUpdateIsTrue == GhaSpec => []EndIsTold
<1>1. GhaInv => EndIsTold
  BY DEF GhaInv
<1> QED
  BY <1>1, GhaInit, GhaStep, PTL DEF GhaSpec

\* What a gha command tells only moves forward, and is of a run that it dispatched
\* (GhaTells), for any number of attempts, lists and polls (gha.py:190-263).
THEOREM UpdatesMoveForward == GhaSpec => GhaTells
<1> DEFINE Forward == reported' # reported =>
             /\ Progress(reported[1]) <= Progress(reported'[1])
             /\ Progress(reported[2]) <= Progress(reported'[2])
           Fresh == target' # target /\ ghaAt = "list" /\ remote[0] \notin Listed \ Completed
             => target' # 0
<1>1. ASSUME GhaInv, GhaWatchNext PROVE Forward
  <2>1. CASE Compare
    <3>1. ghaAt = "told?" /\ reported' = got
      BY <2>1 DEF Compare
    <3>2. Far(reported[1], got[1]) /\ Far(reported[2], got[2])
      BY <1>1, <3>1 DEF GhaInv, GhaAhead
    <3> QED
      BY <3>1, <3>2, Zenon DEF Far
  <2>2. CASE ~Compare
    <3>1. reported' = reported
      BY <1>1, <2>2 DEF GhaWatchNext, GitHub, GhaCommand, ReadFails, PostFails, Post, Found,
        NotListed, Latest, get_run, get_jobs, StopWatching
    <3> QED
      BY <3>1
  <2> QED
    BY <2>1, <2>2
<1>2. ASSUME GhaWatchNext PROVE Fresh
  <2>1. CASE Found
    BY <2>1, FoundIs DEF Matching
  <2>2. CASE ~Found
    <3>1. target' = target \/ ghaAt = "latest"
      BY <1>2, <2>2 DEF GhaWatchNext, GitHub, GhaCommand, ReadFails, PostFails, Post,
        NotListed, Latest, get_run, get_jobs, Compare, StopWatching
    <3> QED
      BY <3>1
  <2> QED
    BY <2>1, <2>2
<1>3. GhaInv /\ [GhaWatchNext]_ghaWatchVars => [Forward /\ Fresh]_ghaWatchVars
  <2> HIDE DEF Forward, Fresh
  <2> QED
    BY <1>1, <1>2
<1>4. GhaSpec => [][Forward /\ Fresh]_ghaWatchVars
  <2> HIDE DEF Forward, Fresh
  <2> QED
    BY <1>3, GhaInit, GhaStep, PTL DEF GhaSpec
<1>5. [][Forward /\ Fresh]_ghaWatchVars => [][Forward]_ghaWatchVars /\ [][Fresh]_ghaWatchVars
  <2> HIDE DEF Forward, Fresh
  <2> QED
    BY PTL
<1> QED
  BY <1>4, <1>5 DEF GhaTells, ToldForward, FreshIfAlone

-----------------------------------------------------------------------------
(* The commands that sweep.                                                 *)

CommandsSpec == CommandsInit /\ [][CommandsNext]_commandVars

Running == {c \in Asked : sweeping[c] = "running"}

CmdShape ==
  /\ command \in Single \cup Served \cup {"batch"}
  /\ sweeping \in [Asked -> {"queued", "running"} \cup Ended]
  /\ outcomes \in Seq(Asked)
  /\ outputs \in {"unset", "true", "false"}

CmdPool == IsFiniteSet(Running) /\ Cardinality(Running) <= ParallelCores

CmdOutcomes ==
  /\ IsFiniteSet(Reported) /\ Len(outcomes) = Cardinality(Reported)
  /\ \A c \in Reported : c \in Asked /\ sweeping[c] \in Ended \ {"raised"}

CmdOutputs ==
  outputs # "unset" =>
    \A c \in Asked : /\ sweeping[c] \in Ended \ {"raised"}
                     /\ outputs = "true" => Passed(c)
                     /\ outputs = "false" => ~Passed(c)

\* A command that is over knows how each of its sweeps ended.
CmdOver ==
  exit # 9 =>
    /\ \A c \in Asked : sweeping[c] \in Ended
    /\ command \in Many => \A c \in Asked : sweeping[c] = "raised" \/ c \in Reported
    /\ command = "batch" /\ exit = 0 /\ ~asJson => \A c \in Reported : Passed(c)
    /\ command \in Single /\ exit = 0 => \A c \in Asked : Passed(c)
    /\ command \in Single /\ exit = 3 => \A c \in Asked : sweeping[c] \in {"none", "empty"}
    /\ command = "ci_build" /\ exit \in {0, 3} => outputs # "unset"

CmdInv == CmdShape /\ CmdPool /\ CmdOutcomes /\ CmdOutputs /\ CmdOver

\* A command that is not of many cores has one.
LEMMA OneAsked == ASSUME command \notin Many PROVE \A c, d \in Asked : c = d
BY DEF Asked

LEMMA CmdInit == CommandsInit => CmdInv
<1> SUFFICES ASSUME CommandsInit PROVE CmdInv
  OBVIOUS
<1>1. /\ command \in Single \cup Served \cup {"batch"}
      /\ sweeping = [c \in Asked |-> "queued"] /\ outcomes = <<>> /\ outputs = "unset" /\ exit = 9
  BY DEF CommandsInit
<1>2. CmdShape
  BY <1>1 DEF CmdShape
<1>3. Running = {} /\ Reported = {}
  BY <1>1 DEF Running, Reported
<1>4. CmdPool /\ CmdOutcomes
  BY <1>1, <1>3, FS_EmptySet, CommandsAssumption DEF CmdPool, CmdOutcomes
<1> QED
  BY <1>1, <1>2, <1>4 DEF CmdInv, CmdOutputs, CmdOver

\* What a step never changes.
LEMMA CmdStays ==
  ASSUME CmdShape, CommandsNext
  PROVE  /\ UNCHANGED <<command, asJson>> /\ Asked' = Asked
         /\ \A c \in Asked : sweeping[c] \in Ended => sweeping'[c] = sweeping[c]
<1>1. UNCHANGED <<command, asJson>>
  BY DEF CommandsNext, Sweeps, SweepEnds, Collected, Tells, SingleExits, BatchExits, Answers
<1>2. "running" \notin Ended /\ "queued" \notin Ended
  BY DEF Ended
<1>3. ASSUME NEW d \in Asked, NEW c \in Asked, sweeping[c] \in Ended, Sweeps(d) \/ SweepEnds(d)
      PROVE  sweeping'[c] = sweeping[c]
  BY <1>2, <1>3 DEF Sweeps, SweepEnds, CmdShape
<1>4. UNCHANGED sweeping \/ \E d \in Asked : Sweeps(d) \/ SweepEnds(d)
  BY DEF CommandsNext, Collected, Tells, SingleExits, BatchExits, Answers
<1>5. Asked' = Asked
  BY <1>1 DEF Asked
<1> QED
  BY <1>1, <1>3, <1>4, <1>5

LEMMA SweepsKeeps == ASSUME CmdInv, NEW c \in Asked, Sweeps(c) PROVE CmdInv'
<1>1. /\ sweeping[c] = "queued" /\ Free /\ sweeping' = [sweeping EXCEPT ![c] = "running"]
      /\ UNCHANGED <<command, asJson, plan, outcomes, outputs, exit>>
  BY DEF Sweeps
<1>2. Asked' = Asked /\ Reported' = Reported
  BY <1>1 DEF Asked, Reported
<1>3. sweeping \in [Asked -> {"queued", "running"} \cup Ended] /\ "queued" \notin Ended
  BY DEF CmdInv, CmdShape, Ended
<1>4. \A d \in Asked : sweeping[d] \in Ended => sweeping'[d] = sweeping[d]
  BY <1>1, <1>3
<1>5. CmdShape'
  BY <1>1, <1>2, <1>3 DEF CmdInv, CmdShape
<1>6. CmdPool'
  <2>1. Running' = Running \cup {c} /\ c \notin Running
    BY <1>1, <1>2, <1>3 DEF Running
  <2>2. IsFiniteSet(Running) /\ Cardinality(Running) < ParallelCores
    BY <1>1 DEF CmdInv, CmdPool, Free, Running
  <2>3. IsFiniteSet(Running') /\ Cardinality(Running') = Cardinality(Running) + 1
    BY <2>1, <2>2, FS_AddElement
  <2> QED
    BY <2>2, <2>3, FS_CardinalityType, CommandsAssumption DEF CmdPool
<1>7. CmdOutcomes'
  BY <1>1, <1>2, <1>4 DEF CmdInv, CmdOutcomes
<1>8. ~ \A d \in Asked : sweeping[d] \in Ended
  BY <1>1, <1>3
<1>9. CmdOutputs'
  BY <1>1, <1>8 DEF CmdInv, CmdOutputs
<1>10. CmdOver'
  BY <1>1, <1>8 DEF CmdInv, CmdOver
<1> QED
  BY <1>5, <1>6, <1>7, <1>9, <1>10 DEF CmdInv

LEMMA SweepEndsKeeps == ASSUME CmdInv, NEW c \in Asked, SweepEnds(c) PROVE CmdInv'
<1>1. PICK how \in Ended : sweeping' = [sweeping EXCEPT ![c] = how]
  BY DEF SweepEnds, Ended
<1>2. sweeping[c] = "running" /\ UNCHANGED <<command, asJson, plan, outcomes, outputs, exit>>
  BY DEF SweepEnds
<1>3. Asked' = Asked /\ Reported' = Reported
  BY <1>2 DEF Asked, Reported
<1>4. sweeping \in [Asked -> {"queued", "running"} \cup Ended] /\ "running" \notin Ended
  BY DEF CmdInv, CmdShape, Ended
<1>5. \A d \in Asked : sweeping[d] \in Ended => sweeping'[d] = sweeping[d]
  BY <1>1, <1>2, <1>4
<1>6. CmdShape'
  BY <1>1, <1>2, <1>3, <1>4 DEF CmdInv, CmdShape
<1>7. CmdPool'
  <2>1. Running' \subseteq Running
    BY <1>1, <1>3, <1>4 DEF Running
  <2>2. IsFiniteSet(Running) /\ Cardinality(Running) <= ParallelCores
    BY DEF CmdInv, CmdPool
  <2>3. IsFiniteSet(Running') /\ Cardinality(Running') <= Cardinality(Running)
    BY <2>1, <2>2, FS_Subset
  <2> QED
    BY <2>2, <2>3, FS_CardinalityType, CommandsAssumption DEF CmdPool
<1>8. CmdOutcomes'
  BY <1>2, <1>3, <1>5 DEF CmdInv, CmdOutcomes
<1>9. ~ \A d \in Asked : sweeping[d] \in Ended
  BY <1>2, <1>4
<1>10. CmdOutputs'
  BY <1>2, <1>9 DEF CmdInv, CmdOutputs
<1>11. CmdOver'
  BY <1>2, <1>9 DEF CmdInv, CmdOver
<1> QED
  BY <1>6, <1>7, <1>8, <1>10, <1>11 DEF CmdInv

LEMMA CollectedKeeps == ASSUME CmdInv, NEW c \in Asked, Collected(c) PROVE CmdInv'
<1>1. /\ command \in Many /\ sweeping[c] \in Ended \ {"raised"} /\ c \notin Reported
      /\ outcomes' = Append(outcomes, c)
      /\ UNCHANGED <<command, asJson, plan, sweeping, outputs, exit>>
  BY DEF Collected
<1>2. Asked' = Asked /\ Running' = Running
  BY <1>1 DEF Asked, Running
<1>3. outcomes \in Seq(Asked)
  BY DEF CmdInv, CmdShape
<1>4. Reported' = Reported \cup {c} /\ Len(outcomes') = Len(outcomes) + 1
  BY <1>1, <1>3, AppendProperties DEF Reported
<1>5. CmdShape'
  BY <1>1, <1>2, <1>3, AppendProperties DEF CmdInv, CmdShape
<1>6. CmdPool'
  BY <1>2 DEF CmdInv, CmdPool
<1>7. CmdOutcomes'
  <2>1. IsFiniteSet(Reported) /\ Len(outcomes) = Cardinality(Reported)
    BY DEF CmdInv, CmdOutcomes
  <2>2. IsFiniteSet(Reported') /\ Cardinality(Reported') = Cardinality(Reported) + 1
    BY <1>1, <1>4, <2>1, FS_AddElement
  <2> QED
    BY <1>1, <1>2, <1>4, <2>1, <2>2 DEF CmdInv, CmdOutcomes
<1>8. exit = 9
  <2>1. ~ (sweeping[c] = "raised" \/ c \in Reported)
    BY <1>1
  <2> QED
    BY <1>1, <2>1 DEF CmdInv, CmdOver
<1>9. CmdOutputs'
  BY <1>1, <1>2 DEF CmdInv, CmdOutputs, Passed
<1> QED
  BY <1>1, <1>5, <1>6, <1>7, <1>8, <1>9 DEF CmdInv, CmdOver

LEMMA TellsKeeps == ASSUME CmdInv, NEW c \in Asked, Tells(c) PROVE CmdInv'
<1>1. /\ command = "ci_build" /\ sweeping[c] \in Ended \ {"raised"} /\ outputs = "unset"
      /\ outputs' = IF Passed(c) THEN "true" ELSE "false"
      /\ UNCHANGED <<command, asJson, plan, sweeping, outcomes, exit>>
  BY DEF Tells
<1>2. Asked' = Asked /\ Running' = Running /\ Reported' = Reported /\ (\A d : Passed(d)' <=> Passed(d))
  BY <1>1 DEF Asked, Running, Reported, Passed
<1>3. \A d \in Asked : d = c
  BY <1>1, OneAsked DEF Many
<1>4. CmdShape'
  BY <1>1, <1>2 DEF CmdInv, CmdShape
<1>5. CmdPool' /\ CmdOutcomes'
  BY <1>1, <1>2 DEF CmdInv, CmdPool, CmdOutcomes
<1>6. CmdOutputs'
  BY <1>1, <1>2, <1>3 DEF CmdOutputs
<1>7. CmdOver'
  BY <1>1, <1>2 DEF CmdInv, CmdOver
<1> QED
  BY <1>4, <1>5, <1>6, <1>7 DEF CmdInv

LEMMA ExitsKeep == ASSUME CmdInv, SingleExits \/ BatchExits \/ Answers PROVE CmdInv'
<1>1. exit = 9 /\ UNCHANGED <<command, asJson, plan, sweeping, outcomes, outputs>>
  BY DEF SingleExits, BatchExits, Answers
<1>2. Asked' = Asked /\ Running' = Running /\ Reported' = Reported /\ (\A d : Passed(d)' <=> Passed(d))
  BY <1>1 DEF Asked, Running, Reported, Passed
<1>3. CmdShape'
  BY <1>1, <1>2 DEF CmdInv, CmdShape
<1>4. CmdPool' /\ CmdOutcomes' /\ CmdOutputs'
  BY <1>1, <1>2 DEF CmdInv, CmdPool, CmdOutcomes, CmdOutputs
<1>5. /\ \A c \in Reported : sweeping[c] \in Ended
      /\ "raised" \in Ended
  BY DEF CmdInv, CmdOutcomes, Ended
<1>6. CmdOver'
  <2>1. CASE SingleExits
    <3>1. PICK c \in Asked :
            /\ command \in Single /\ sweeping[c] \in Ended
            /\ (command = "ci_build" /\ sweeping[c] # "raised" => outputs # "unset")
            /\ exit' = IF sweeping[c] = "raised" \/ Unprintable(c) THEN 1
                       ELSE IF command \in {"build", "sweep"} THEN _exit_for_outcome(c)
                       ELSE IF Passed(c) THEN 0 ELSE 3
      BY <2>1 DEF SingleExits
    <3>2. command \notin Many /\ command # "batch"
      BY <3>1 DEF Single, Many
    <3>3. \A d \in Asked : d = c
      BY <3>2, OneAsked
    <3>4. exit' = 0 => Passed(c)
      BY <3>1 DEF _exit_for_outcome
    <3>5. exit' = 3 => sweeping[c] \in {"none", "empty"}
      BY <3>1 DEF _exit_for_outcome, Passed, Ended
    <3>6. command = "ci_build" /\ exit' \in {0, 3} => outputs # "unset"
      BY <3>1
    <3> QED
      BY <1>1, <1>2, <3>1, <3>2, <3>3, <3>4, <3>5, <3>6 DEF CmdOver
  <2>2. CASE BatchExits
    <3>1. command = "batch" /\ (\A c \in Asked : sweeping[c] = "raised" \/ c \in Reported) /\ exit' = BatchCode
      BY <2>2 DEF BatchExits
    <3>2. command \notin Single /\ command # "ci_build"
      BY <3>1 DEF Single
    <3>3. exit' = 0 /\ ~asJson => \A c \in Reported : Passed(c)
      BY <3>1 DEF BatchCode
    <3> QED
      BY <1>1, <1>2, <1>5, <3>1, <3>2, <3>3 DEF CmdOver
  <2>3. CASE Answers
    <3>1. /\ command \in Served /\ (\A c \in Asked : sweeping[c] \in Ended)
          /\ \/ command # "batch_sweep"
             \/ \A c \in Asked : sweeping[c] = "raised" \/ c \in Reported
      BY <2>3 DEF Answers
    <3>2. command \notin Single /\ command # "ci_build" /\ command # "batch"
      BY <3>1 DEF Single, Served
    <3>3. command \in Many => command = "batch_sweep"
      BY <3>2 DEF Many
    <3> QED
      BY <1>1, <1>2, <3>1, <3>2, <3>3 DEF CmdOver
  <2> QED
    BY <2>1, <2>2, <2>3
<1> QED
  BY <1>3, <1>4, <1>6 DEF CmdInv

LEMMA CmdStep == ASSUME CmdInv, [CommandsNext]_commandVars PROVE CmdInv'
<1>1. CASE UNCHANGED commandVars
  <2>1. UNCHANGED <<command, asJson, plan, sweeping, outcomes, outputs, exit>>
    BY <1>1 DEF commandVars
  <2>2. Asked' = Asked /\ Running' = Running /\ Reported' = Reported /\ (\A d : Passed(d)' <=> Passed(d))
    BY <2>1 DEF Asked, Running, Reported, Passed
  <2>3. CmdShape' /\ CmdPool' /\ CmdOutcomes'
    BY <2>1, <2>2 DEF CmdInv, CmdShape, CmdPool, CmdOutcomes
  <2>4. CmdOutputs' /\ CmdOver'
    BY <2>1, <2>2 DEF CmdInv, CmdOutputs, CmdOver
  <2> QED
    BY <2>3, <2>4 DEF CmdInv
<1> QED
  BY <1>1, SweepsKeeps, SweepEndsKeeps, CollectedKeeps, TellsKeeps, ExitsKeep, Zenon DEF CommandsNext

\* A batch reports every sweep that returned and a code, and the outputs of a CI job, are
\* earned by the sweeps (BatchTellsAll, CodeIsEarned, OutputsAgree), for any cores, pool
\* of threads and plan (scheduler.py:363-374, cli.py:229-239, 1265-1282, 1436-1441).
LEMMA CommandsTell == CommandsSpec => [](BatchTellsAll /\ CodeIsEarned /\ OutputsAgree)
<1>1. ASSUME CmdInv PROVE BatchTellsAll
  <2>1. Cardinality({c \in Asked : sweeping[c] = "running"}) <= ParallelCores
    BY <1>1 DEF CmdInv, CmdPool, Running
  <2>2. Len(outcomes) = Cardinality(Reported)
    BY <1>1 DEF CmdInv, CmdOutcomes
  <2>3. ASSUME exit # 9, command \in Many PROVE Reported = {c \in Asked : sweeping[c] # "raised"}
    BY <1>1, <2>3 DEF CmdInv, CmdOutcomes, CmdOver
  <2>4. exit # 9 /\ exit = 0 /\ command = "batch" /\ ~asJson => \A c \in Reported : Passed(c)
    BY <1>1 DEF CmdInv, CmdOver
  <2> QED
    BY <2>1, <2>2, <2>3, <2>4 DEF BatchTellsAll
<1>2. ASSUME CmdInv PROVE CodeIsEarned
  BY <1>2 DEF CmdInv, CmdOver, CodeIsEarned
<1>3. ASSUME CmdInv PROVE OutputsAgree
  <2>1. outputs # "unset" => \A c \in Asked : sweeping[c] \in Ended \ {"raised"}
    BY <1>3 DEF CmdInv, CmdOutputs
  <2>2. "ci_build" \in Single
    BY DEF Single
  <2>3. ASSUME command = "ci_build" PROVE \E c : c \in Asked
    BY <2>3 DEF Asked, Many
  <2> QED
    BY <1>3, <2>1, <2>2, <2>3 DEF CmdInv, CmdShape, CmdOutputs, CmdOver, OutputsAgree, Passed
<1> QED
  BY <1>1, <1>2, <1>3, CmdInit, CmdStep, PTL DEF CommandsSpec

-----------------------------------------------------------------------------
(* The timing verdict.                                                      *)

TimingSpec == TimingInit /\ [][TimingNext]_timingVars

Least(S, m) == IF S = {} THEN m = NoSlack ELSE m \in S /\ \A u \in S : m <= u

SlacksOf(k) == {r[3] : r \in {q \in shown : q[1] = k}}

TimingShape ==
  /\ table \in {"none"} \cup Tables /\ section \in {"none"} \cup Tables
  /\ text \in [Kinds -> [Clocks -> Slacks \cup {NoSlack}]]
  /\ dump \in [passed : BOOLEAN, setup : Slacks \cup {NoSlack}, hold : Slacks \cup {NoSlack}]
  /\ shown \subseteq Kinds \X Clocks \X Slacks
  /\ again \in BOOLEAN /\ strayed \in BOOLEAN

\* The dump has the least of the slacks so far, and says whether one was negative.
DumpStands ==
  /\ dump.passed <=> Met
  /\ Least(SlacksOf("setup"), dump.setup) /\ Least(SlacksOf("hold"), dump.hold)

\* The text reader is in the section of the table, and has one slack for each clock.
TextStands ==
  /\ table \in Kinds => section = table
  /\ ~again /\ ~strayed =>
       /\ \A r \in shown : text[r[1]][r[2]] = r[3]
       /\ \A k \in Kinds, c \in Clocks : text[k][c] # NoSlack => <<k, c, text[k][c]>> \in shown

LEMMA LeastIsMin == ASSUME NEW S \in SUBSET Slacks, NEW m, Least(S, m) PROVE MinSlack(S) = m
<1>1. CASE S = {}
  BY <1>1 DEF Least, MinSlack
<1>2. CASE S # {}
  <2>1. m \in S /\ (\A u \in S : m <= u)
    BY <1>2 DEF Least
  <2>2. \A x \in S : (\A u \in S : x <= u) => x = m
    BY <2>1, TimingAssumption
  <2> DEFINE Low(x) == \A u \in S : x <= u
  <2>3. MinSlack(S) = CHOOSE x \in S : Low(x)
    BY <1>2 DEF MinSlack
  <2>4. m \in S /\ Low(m) /\ \A x \in S : Low(x) => x = m
    BY <2>1, <2>2
  <2> HIDE DEF Low
  <2> QED
    BY <2>3, <2>4
<1> QED
  BY <1>1, <1>2

LEMMA LeastOfOneMore ==
  ASSUME NEW S \in SUBSET Slacks, NEW m \in Slacks \cup {NoSlack}, Least(S, m), NEW s \in Slacks
  PROVE  /\ Least(S \cup {s}, MinSlack({s, m} \ {NoSlack}))
         /\ MinSlack({s, m} \ {NoSlack}) \in Slacks
<1>1. s # NoSlack /\ Slacks \subseteq Int
  BY TimingAssumption
<1>2. CASE S = {}
  <2>1. {s, m} \ {NoSlack} = {s}
    BY <1>1, <1>2 DEF Least
  <2>2. Least({s}, s)
    BY <1>1 DEF Least
  <2> QED
    BY <1>2, <2>1, <2>2, LeastIsMin
<1>3. CASE S # {}
  <2>1. m \in S /\ (\A u \in S : m <= u)
    BY <1>3 DEF Least
  <2>2. {s, m} \ {NoSlack} = {s, m}
    BY <1>1, <2>1, TimingAssumption
  <2> DEFINE n == IF s <= m THEN s ELSE m
  <2>3. Least({s, m}, n) /\ Least(S \cup {s}, n) /\ n \in Slacks
    BY <1>1, <2>1 DEF Least
  <2> HIDE DEF n
  <2> QED
    BY <2>1, <2>2, <2>3, LeastIsMin
<1> QED
  BY <1>2, <1>3

LEMMA TimingBegins == TimingInit => TimingShape /\ DumpStands /\ TextStands
<1> SUFFICES ASSUME TimingInit PROVE TimingShape /\ DumpStands /\ TextStands
  OBVIOUS
<1>1. TimingShape
  BY DEF TimingInit, TimingShape
<1>2. SlacksOf("setup") = {} /\ SlacksOf("hold") = {}
  BY DEF TimingInit, SlacksOf
<1>3. DumpStands
  BY <1>2 DEF TimingInit, DumpStands, Least, Met
<1>4. TextStands
  BY DEF TimingInit, TextStands, Kinds
<1> QED
  BY <1>1, <1>3, <1>4

LEMMA HeaderKeeps ==
  ASSUME TimingShape, DumpStands, TextStands, Header PROVE TimingShape' /\ DumpStands' /\ TextStands'
<1>1. PICK t \in Tables : table' = t /\ section' = SectionOf(t)
  BY DEF Header
<1>2. UNCHANGED <<text, dump, shown, again, strayed>>
  BY DEF Header
<1>3. section' \in {"none"} \cup Tables /\ (t \in Kinds => section' = t)
  BY <1>1 DEF SectionOf, TimingShape, Kinds
<1>4. TimingShape'
  BY <1>1, <1>2, <1>3 DEF TimingShape
<1>5. DumpStands'
  BY <1>2 DEF DumpStands, Met, SlacksOf
<1>6. TextStands'
  BY <1>1, <1>2, <1>3 DEF TextStands
<1> QED
  BY <1>4, <1>5, <1>6

LEMMA DumpKeeps ==
  ASSUME TimingShape, DumpStands, NEW c \in Clocks, NEW s \in Slacks, Row(c, s)
  PROVE  /\ dump' \in [passed : BOOLEAN, setup : Slacks \cup {NoSlack}, hold : Slacks \cup {NoSlack}]
         /\ shown' \subseteq Kinds \X Clocks \X Slacks
         /\ DumpStands'
<1>1. /\ dump \in [passed : BOOLEAN, setup : Slacks \cup {NoSlack}, hold : Slacks \cup {NoSlack}]
      /\ shown \subseteq Kinds \X Clocks \X Slacks
  BY DEF TimingShape
<1>2. CASE table \notin Kinds
  <2>1. dump' = dump /\ shown' = shown
    BY <1>2 DEF Row, DumpReads
  <2> QED
    BY <1>1, <2>1 DEF DumpStands, Met, SlacksOf
<1>3. CASE table \in Kinds
  <2> DEFINE row == <<table, c, s>>
             n == MinSlack({s, dump[table]} \ {NoSlack})
  <2>1. /\ shown' = shown \cup {row}
        /\ dump' = [dump EXCEPT ![table] = n, !.passed = dump.passed /\ s >= 0]
    BY <1>3 DEF Row, DumpReads
  <2>2. row \in Kinds \X Clocks \X Slacks /\ row[1] = table /\ row[3] = s
    BY <1>3
  <2> HIDE DEF row
  <2>3. shown' \subseteq Kinds \X Clocks \X Slacks
    BY <1>1, <2>1, <2>2
  <2>4. \A k \in Kinds : SlacksOf(k)' = IF k = table THEN SlacksOf(k) \cup {s} ELSE SlacksOf(k)
    BY <2>1, <2>2 DEF SlacksOf
  <2>5. \A k \in Kinds : SlacksOf(k) \in SUBSET Slacks
    BY <1>1 DEF SlacksOf
  <2>6. Met' <=> Met /\ s >= 0
    BY <2>1, <2>2 DEF Met
  <2>7. CASE table = "setup"
    <3>1. dump' = [dump EXCEPT !.setup = n, !.passed = dump.passed /\ s >= 0] /\ dump[table] = dump.setup
      BY <2>1, <2>7
    <3> HIDE DEF n
    <3>2. dump'.setup = n /\ dump'.hold = dump.hold /\ dump'.passed = (dump.passed /\ s >= 0)
      BY <1>1, <3>1
    <3>3. Least(SlacksOf("setup") \cup {s}, n) /\ n \in Slacks
      BY <1>1, <2>5, <3>1, LeastOfOneMore DEF n, DumpStands, Kinds
    <3>4. dump' \in [passed : BOOLEAN, setup : Slacks \cup {NoSlack}, hold : Slacks \cup {NoSlack}]
      BY <1>1, <3>1, <3>3
    <3>5. SlacksOf("setup")' = SlacksOf("setup") \cup {s} /\ SlacksOf("hold")' = SlacksOf("hold")
      BY <2>4, <2>7 DEF Kinds
    <3> QED
      BY <2>3, <2>6, <3>2, <3>3, <3>4, <3>5 DEF DumpStands
  <2>8. CASE table = "hold"
    <3>1. dump' = [dump EXCEPT !.hold = n, !.passed = dump.passed /\ s >= 0] /\ dump[table] = dump.hold
      BY <2>1, <2>8
    <3> HIDE DEF n
    <3>2. dump'.hold = n /\ dump'.setup = dump.setup /\ dump'.passed = (dump.passed /\ s >= 0)
      BY <1>1, <3>1
    <3>3. Least(SlacksOf("hold") \cup {s}, n) /\ n \in Slacks
      BY <1>1, <2>5, <3>1, LeastOfOneMore DEF n, DumpStands, Kinds
    <3>4. dump' \in [passed : BOOLEAN, setup : Slacks \cup {NoSlack}, hold : Slacks \cup {NoSlack}]
      BY <1>1, <3>1, <3>3
    <3>5. SlacksOf("hold")' = SlacksOf("hold") \cup {s} /\ SlacksOf("setup")' = SlacksOf("setup")
      BY <2>4, <2>8 DEF Kinds
    <3> QED
      BY <2>3, <2>6, <3>2, <3>3, <3>4, <3>5 DEF DumpStands
  <2> QED
    BY <1>3, <2>7, <2>8 DEF Kinds
<1> QED
  BY <1>2, <1>3

LEMMA TextKeeps ==
  ASSUME TimingShape, TextStands, NEW c \in Clocks, NEW s \in Slacks, Row(c, s)
  PROVE  text' \in [Kinds -> [Clocks -> Slacks \cup {NoSlack}]] /\ TextStands'
<1>1. text \in [Kinds -> [Clocks -> Slacks \cup {NoSlack}]] /\ shown \subseteq Kinds \X Clocks \X Slacks
  BY DEF TimingShape
<1>2. /\ UNCHANGED <<table, section>>
      /\ text' = IF section \in Kinds THEN [text EXCEPT ![section][c] = s] ELSE text
      /\ again' = (again \/ \E r \in shown : r[1] = table /\ r[2] = c /\ r[3] # s)
      /\ strayed' = (strayed \/ (table = "other" /\ section \in Kinds))
      /\ table \in Kinds \cup {"other"}
      /\ shown' = IF table \in Kinds THEN shown \cup {<<table, c, s>>} ELSE shown
  BY DEF Row, TextReads
<1>3. text' \in [Kinds -> [Clocks -> Slacks \cup {NoSlack}]]
  BY <1>1, <1>2
<1>4. table' \in Kinds => section' = table'
  BY <1>2 DEF TextStands
<1>5. ASSUME ~again', ~strayed'
      PROVE  /\ \A r \in shown' : text'[r[1]][r[2]] = r[3]
             /\ \A k \in Kinds, d \in Clocks : text'[k][d] # NoSlack => <<k, d, text'[k][d]>> \in shown'
  <2>1. ~again /\ ~strayed /\ ~(table = "other" /\ section \in Kinds)
        /\ ~(\E r \in shown : r[1] = table /\ r[2] = c /\ r[3] # s)
    BY <1>2, <1>5
  <2>2. /\ \A r \in shown : text[r[1]][r[2]] = r[3]
        /\ \A k \in Kinds, d \in Clocks : text[k][d] # NoSlack => <<k, d, text[k][d]>> \in shown
    BY <2>1 DEF TextStands
  <2>3. CASE table \notin Kinds
    BY <1>2, <2>1, <2>2, <2>3
  <2>4. CASE table \in Kinds
    <3>1. text' = [text EXCEPT ![table][c] = s] /\ shown' = shown \cup {<<table, c, s>>}
      BY <1>2, <2>4 DEF TextStands
    <3>2. text'[table][c] = s
      BY <1>1, <2>4, <3>1
    <3>3. \A k \in Kinds, d \in Clocks : ~(k = table /\ d = c) => text'[k][d] = text[k][d]
      BY <1>1, <2>4, <3>1
    <3>4. ASSUME NEW r \in shown PROVE text'[r[1]][r[2]] = r[3]
      <4>1. r[1] \in Kinds /\ r[2] \in Clocks
        BY <1>1
      <4> QED
        BY <2>1, <2>2, <3>2, <3>3, <4>1
    <3>5. \A k \in Kinds, d \in Clocks : text'[k][d] # NoSlack => <<k, d, text'[k][d]>> \in shown'
      BY <2>2, <3>1, <3>2, <3>3
    <3> QED
      BY <3>1, <3>2, <3>4, <3>5
  <2> QED
    BY <2>3, <2>4
<1> QED
  BY <1>3, <1>4, <1>5 DEF TextStands

LEMMA TimingStep ==
  ASSUME TimingShape, DumpStands, TextStands, [TimingNext]_timingVars
  PROVE  TimingShape' /\ DumpStands' /\ TextStands'
<1>1. CASE UNCHANGED timingVars
  BY <1>1 DEF timingVars, TimingShape, DumpStands, TextStands, Met, SlacksOf
<1>2. ASSUME NEW c \in Clocks, NEW s \in Slacks, Row(c, s)
      PROVE  TimingShape' /\ DumpStands' /\ TextStands'
  <2>1. /\ UNCHANGED <<table, section>> /\ again' \in BOOLEAN /\ strayed' \in BOOLEAN
    BY <1>2 DEF Row, TimingShape
  <2> QED
    BY <1>2, <2>1, DumpKeeps, TextKeeps DEF TimingShape
<1> QED
  BY <1>1, <1>2, HeaderKeeps DEF TimingNext

\* The dump and the text judge a report as the rows of it do (ReportsJudged), for any
\* clocks and slacks and a report of any length (common.tcl:72-122, timing.py:96-234).
THEOREM ReportsAreJudged == TimingSpec => []ReportsJudged
<1>1. ASSUME TimingShape, DumpStands PROVE \A k \in Kinds : WorstShown(k) = dump[k] /\ Least(SlacksOf(k), dump[k])
  <2>1. \A k \in Kinds : SlacksOf(k) \in SUBSET Slacks
    BY <1>1 DEF SlacksOf, TimingShape
  <2>2. Least(SlacksOf("setup"), dump["setup"]) /\ Least(SlacksOf("hold"), dump["hold"])
    BY <1>1 DEF DumpStands
  <2>3. \A k \in Kinds : Least(SlacksOf(k), dump[k])
    BY <2>2 DEF Kinds
  <2>4. \A k \in Kinds : WorstShown(k) = MinSlack(SlacksOf(k))
    BY DEF WorstShown, SlacksOf
  <2> QED
    BY <2>1, <2>3, <2>4, LeastIsMin
<1>2. ASSUME TimingShape, DumpStands PROVE \A k \in Kinds : dump[k] = NoSlack => \A r \in shown : r[1] # k
  <2> SUFFICES ASSUME NEW k \in Kinds, dump[k] = NoSlack, NEW r \in shown, r[1] = k PROVE FALSE
    OBVIOUS
  <2>1. r[3] \in SlacksOf(k)
    BY DEF SlacksOf
  <2>2. SlacksOf(k) \subseteq Slacks /\ dump[k] \in SlacksOf(k)
    BY <1>1, <1>2, <2>1 DEF SlacksOf, TimingShape, Least
  <2> QED
    BY <2>2, TimingAssumption
<1>3. ASSUME TimingShape, DumpStands PROVE DumpJudgesAll
  <2>1. DumpHasAnything
    <3> SUFFICES ASSUME dump.setup = NoSlack, dump.hold = NoSlack PROVE dump.passed
      BY DEF DumpHasAnything
    <3>1. \A r \in shown : r[1] \in Kinds
      BY <1>3 DEF TimingShape
    <3>2. shown = {}
      BY <1>2, <1>3, <3>1 DEF Kinds
    <3> QED
      BY <1>3, <3>2 DEF DumpStands, Met
  <2>2. Merged(TRUE) = dump
    BY <2>1 DEF Merged
  <2> QED
    BY <1>1, <1>3, <2>2 DEF DumpJudgesAll, DumpStands
<1>4. ASSUME TimingShape, DumpStands, TextStands, ~again, ~strayed
      PROVE  /\ Merged(FALSE).passed <=> Met /\ shown # {}
             /\ \A k \in Kinds : Merged(FALSE)[k] = WorstShown(k)
  <2>1. shown \subseteq Kinds \X Clocks \X Slacks
    BY <1>4 DEF TimingShape
  <2>2. /\ \A r \in shown : text[r[1]][r[2]] = r[3]
        /\ \A k \in Kinds, c \in Clocks : text[k][c] # NoSlack => <<k, c, text[k][c]>> \in shown
    BY <1>4 DEF TextStands
  <2>3. ASSUME NEW k \in Kinds PROVE Worst(k) = WorstShown(k)
    <3>1. {text[k][c] : c \in Clocks} \ {NoSlack} = SlacksOf(k)
      <4>1. ASSUME NEW c \in Clocks, text[k][c] # NoSlack PROVE text[k][c] \in SlacksOf(k)
        <5>1. <<k, c, text[k][c]>> \in shown
          BY <2>2, <4>1
        <5> QED
          BY <5>1 DEF SlacksOf
      <4>2. ASSUME NEW r \in shown, r[1] = k PROVE r[3] # NoSlack /\ \E c \in Clocks : r[3] = text[k][c]
        BY <2>1, <2>2, <4>2, TimingAssumption
      <4> QED
        BY <4>1, <4>2 DEF SlacksOf
    <3> QED
      BY <3>1 DEF Worst, WorstShown, SlacksOf
  <2>4. \A k \in Kinds : Worst(k) = dump[k] /\ Least(SlacksOf(k), dump[k])
    BY <1>1, <1>4, <2>3
  <2>5. Merged(FALSE) = FromText
    BY DEF Merged
  <2>6. FromText["setup"] = Worst("setup") /\ FromText["hold"] = Worst("hold")
    BY DEF FromText
  <2>7. \A k \in Kinds : FromText[k] = Worst(k)
    BY <2>6 DEF Kinds
  <2>8. FromText.passed <=> /\ \A k \in Kinds : Worst(k) # NoSlack => Worst(k) >= 0
                            /\ \E k \in Kinds : Worst(k) # NoSlack
    BY DEF FromText
  <2>9. (\A k \in Kinds : Worst(k) # NoSlack => Worst(k) >= 0) <=> Met
    <3>1. ASSUME Met, NEW k \in Kinds, Worst(k) # NoSlack PROVE Worst(k) >= 0
      <4>1. Worst(k) \in SlacksOf(k)
        BY <2>4, <3>1 DEF Least
      <4> QED
        BY <3>1, <4>1 DEF Met, SlacksOf
    <3>2. ASSUME \A k \in Kinds : Worst(k) # NoSlack => Worst(k) >= 0, NEW r \in shown PROVE r[3] >= 0
      <4>1. r[1] \in Kinds /\ r[3] \in Slacks /\ r[3] \in SlacksOf(r[1])
        BY <2>1 DEF SlacksOf
      <4>2. Worst(r[1]) # NoSlack
        BY <1>2, <1>4, <2>4, <4>1
      <4>3. Worst(r[1]) <= r[3] /\ Worst(r[1]) \in Slacks
        <5>1. SlacksOf(r[1]) \subseteq Slacks
          BY <2>1 DEF SlacksOf
        <5> QED
          BY <2>4, <4>1, <5>1 DEF Least
      <4>4. Worst(r[1]) >= 0
        BY <3>2, <4>1, <4>2
      <4>5. Slacks \subseteq Int
        BY TimingAssumption
      <4>6. \A x, y \in Int : x <= y /\ x >= 0 => y >= 0
        OBVIOUS
      <4> QED
        BY <4>1, <4>3, <4>4, <4>5, <4>6
    <3> QED
      BY <3>1, <3>2 DEF Met
  <2>10. (\E k \in Kinds : Worst(k) # NoSlack) <=> shown # {}
    <3>1. ASSUME NEW k \in Kinds, Worst(k) # NoSlack PROVE shown # {}
      <4>1. Worst(k) \in SlacksOf(k)
        BY <2>4, <3>1 DEF Least
      <4> QED
        BY <4>1 DEF SlacksOf
    <3>2. ASSUME NEW r \in shown PROVE r[1] \in Kinds /\ Worst(r[1]) # NoSlack
      BY <1>2, <1>4, <2>1, <2>4
    <3> QED
      BY <3>1, <3>2
  <2>11. FromText.passed <=> Met /\ shown # {}
    BY <2>8, <2>9, <2>10, Zenon
  <2> QED
    BY <2>3, <2>5, <2>7, <2>11
<1>5. TimingShape /\ DumpStands /\ TextStands => ReportsJudged
  BY <1>3, <1>4 DEF ReportsJudged, TextJudgesOneCorner
<1> QED
  BY <1>5, TimingBegins, TimingStep, PTL DEF TimingSpec

-----------------------------------------------------------------------------
(* The search for cores.                                                    *)

FindSpec == FindInit /\ [][FindNext]_findVars

\* The parts of a path; that a name written out is a string the provers do not know.
Words == STRING \cup {"src", "pocket", "fpga", "hw", "quartus"}

Dirs == Seq(Words)

CoreRecords == [root : Dirs, qpf : Places]

FindShape ==
  /\ projects \subseteq Places
  /\ detected \in [1..Len(Given) -> Places \cup {NoCore, Unasked}]
  /\ looked \in 0..Len(Given)
  /\ found \in Seq(CoreRecords)

\* A path has the project that the walk of it meets, or none where it meets none.
DetectedIsWalked ==
  \A i \in 1..Len(Given) : detected[i] # Unasked =>
    IF detected[i] = NoCore THEN Walked(Given[i]) = {} ELSE detected[i] \in Walked(Given[i])

FindInv == FindShape /\ FoundOnce /\ DetectedIsWalked

LEMMA PlacesAre ==
  /\ IsFiniteSet(Places) /\ Places \subseteq Dirs
  /\ Len(Given) \in Nat /\ \A i \in 1..Len(Given) : Given[i] \in Dirs
<1>1. Seq(STRING) \subseteq Dirs
  <2>1. STRING \subseteq Words
    BY DEF Words
  <2>2. ASSUME NEW d \in Seq(STRING) PROVE d \in Seq(Words)
    BY <2>1, SeqMonotonic
  <2> QED
    BY <2>2 DEF Dirs
<1> QED
  BY <1>1, FindAssumption, LenProperties

LEMMA SearchDirsAre ==
  /\ Len(SearchDirs) = 7
  /\ \A k \in 1..Len(SearchDirs) :
       /\ SearchDirs[k] \in Dirs /\ Len(SearchDirs[k]) <= 6
       /\ \A i \in 1..Len(SearchDirs[k]) : SearchDirs[k][i] \notin Skipped
<1> DEFINE Apart(s) == s \in Dirs /\ Len(s) <= 6 /\ \A i \in 1..Len(s) : s[i] \notin Skipped
<1>1. Len(SearchDirs) = 7
  BY DEF SearchDirs
<1>2. "src" \notin Skipped /\ "pocket" \notin Skipped /\ "fpga" \notin Skipped /\ "hw" \notin Skipped /\ "quartus" \notin Skipped
  BY DottedAssumption DEF Skipped
<1>3. \A a, b, c \in Words \ Skipped : Apart(<<a, b, c>>) /\ Apart(<<a, b>>) /\ Apart(<<a>>)
  BY DEF Dirs
<1>4. Apart(<<>>)
  BY DEF Dirs
<1>5. /\ "src" \in Words \ Skipped /\ "pocket" \in Words \ Skipped /\ "fpga" \in Words \ Skipped
      /\ "hw" \in Words \ Skipped /\ "quartus" \in Words \ Skipped
  BY <1>2 DEF Words
<1> HIDE DEF Apart
<1>6. /\ Apart(<<"src", "fpga">>) /\ Apart(<<"src", "pocket", "fpga">>) /\ Apart(<<"pocket", "fpga">>)
      /\ Apart(<<"fpga">>) /\ Apart(<<"hw", "quartus">>) /\ Apart(<<"quartus">>)
  BY <1>3, <1>5, Zenon
<1>7. \A k \in 1..7 : k = 1 \/ k = 2 \/ k = 3 \/ k = 4 \/ k = 5 \/ k = 6 \/ k = 7
  OBVIOUS
<1>8. /\ SearchDirs[1] = <<"src", "fpga">> /\ SearchDirs[2] = <<"src", "pocket", "fpga">>
      /\ SearchDirs[3] = <<"pocket", "fpga">> /\ SearchDirs[4] = <<"fpga">>
      /\ SearchDirs[5] = <<"hw", "quartus">> /\ SearchDirs[6] = <<"quartus">> /\ SearchDirs[7] = <<>>
  BY DEF SearchDirs
<1>9. \A k \in 1..Len(SearchDirs) : Apart(SearchDirs[k])
  BY <1>1, <1>4, <1>6, <1>7, <1>8, Zenon
<1> QED
  BY <1>1, <1>9 DEF Apart

\* A walk meets the project in a search directory.
LEMMA DirectIsWalked ==
  ASSUME NEW g \in Dirs, NEW k \in 1..Len(SearchDirs), g \o SearchDirs[k] \in projects
  PROVE  g \o SearchDirs[k] \in Walked(g)
<1> DEFINE s == SearchDirs[k]
<1>1. s \in Dirs /\ Len(s) <= 6 /\ \A i \in 1..Len(s) : s[i] \notin Skipped
  BY SearchDirsAre
<1> HIDE DEF s
<1>2. IsPrefix(g, g \o s) /\ SubSeq(g \o s, Len(g) + 1, Len(g \o s)) = s
  BY <1>1, SeqCutIs DEF Dirs
<1>3. Below(g, g \o s) = s
  BY <1>2 DEF Below
<1>4. g \o s \in projects
  BY DEF s
<1>5. g \o s \in Walked(g)
  BY <1>1, <1>2, <1>3, <1>4 DEF Walked
<1> QED
  BY <1>5 DEF s

\* A core's root is a directory that the project is below.
LEMMA RootIsAbove == ASSUME NEW d \in Dirs PROVE CoreRoot(d) \in Dirs /\ IsPrefix(CoreRoot(d), d)
<1> DEFINE up == {k \in 0..4 : k <= Len(d) /\ SubSeq(d, 1, Len(d) - k) \in marked}
           k == IF up = {} THEN 1 ELSE CHOOSE m \in up : \A n \in up : m <= n
           m == IF k <= Len(d) THEN Len(d) - k ELSE 0
<1>1. Len(d) \in Nat
  BY LenProperties DEF Dirs
<1>2. up \in SUBSET Nat
  OBVIOUS
<1>3. CoreRoot(d) = SubSeq(d, 1, m)
  BY DEF CoreRoot
<1> HIDE DEF up
<1>4. k \in Nat
  <2>1. CASE up = {}
    BY <2>1
  <2>2. CASE up # {}
    <3>1. \E x \in up : \A y \in up : x <= y
      BY <1>2, <2>2, LeastOfNats
    <3> QED
      BY <1>2, <2>2, <3>1
  <2> QED
    BY <2>1, <2>2
<1> HIDE DEF k
<1>5. m \in 0..Len(d)
  BY <1>1, <1>4
<1> HIDE DEF m
<1>6. /\ SubSeq(d, 1, m) \in Dirs /\ Len(SubSeq(d, 1, m)) = m
      /\ \A i \in 1..m : SubSeq(d, 1, m)[i] = d[i]
  BY <1>5, SeqFrontIs DEF Dirs
<1> DEFINE front == SubSeq(d, 1, m)
<1>7. IsPrefix(front, d)
  <2>1. /\ front \in Seq(Words) /\ d \in Seq(Words)
        /\ Len(front) <= Len(d) /\ \A i \in 1..Len(front) : front[i] = d[i]
    BY <1>1, <1>5, <1>6 DEF Dirs
  <2> HIDE DEF front
  <2> QED
    BY <2>1, SeqPrefixIs
<1> QED
  BY <1>3, <1>6, <1>7

LEMMA FindBegins == FindInit => FindInv
<1> SUFFICES ASSUME FindInit PROVE FindInv
  OBVIOUS
<1>1. FindShape
  BY PlacesAre DEF FindInit, FindShape
<1>2. FoundOnce
  BY DEF FindInit, FoundOnce
<1>3. DetectedIsWalked
  BY DEF FindInit, DetectedIsWalked
<1> QED
  BY <1>1, <1>2, <1>3 DEF FindInv

LEMMA DetectKeeps == ASSUME FindInv, NEW i \in 1..Len(Given), Detect(i) PROVE FindInv'
<1> DEFINE direct == {k \in 1..Len(SearchDirs) : Given[i] \o SearchDirs[k] \in projects}
<1>1. PICK d \in IF direct # {}
                   THEN {Given[i] \o SearchDirs[CHOOSE k \in direct : \A j \in direct : k <= j]}
                   ELSE IF Walked(Given[i]) = {} THEN {NoCore} ELSE Walked(Given[i]) :
             detected' = [detected EXCEPT ![i] = d]
  BY DEF Detect
<1>2. UNCHANGED <<projects, marked, looked, found>>
  BY DEF Detect
<1>3. Given[i] \in Dirs
  BY PlacesAre
<1>4. \A g : Walked(g) \subseteq projects
  BY DEF Walked
<1>5. NoCore \notin Places /\ Unasked \notin Places \cup {NoCore} /\ projects \subseteq Places
  BY FindAssumption DEF FindInv, FindShape
<1>6. \/ d \in Walked(Given[i])
      \/ d = NoCore /\ Walked(Given[i]) = {}
  <2>1. CASE direct # {}
    <3>1. direct \in SUBSET Nat /\ (\A k \in direct : k \in 1..Len(SearchDirs) /\ Given[i] \o SearchDirs[k] \in projects)
      OBVIOUS
    <3> HIDE DEF direct
    <3>2. \E k \in direct : \A j \in direct : k <= j
      BY <2>1, <3>1, LeastOfNats
    <3>3. PICK k \in direct : d = Given[i] \o SearchDirs[k]
      BY <1>1, <2>1, <3>2
    <3> QED
      BY <1>3, <3>1, <3>3, DirectIsWalked
  <2>2. CASE direct = {}
    BY <1>1, <2>2
  <2> QED
    BY <2>1, <2>2
<1>7. \A g : Walked(g)' = Walked(g)
  BY <1>2 DEF Walked
<1>8. detected \in [1..Len(Given) -> Places \cup {NoCore, Unasked}]
  BY DEF FindInv, FindShape
<1>9. FindShape'
  BY <1>1, <1>2, <1>4, <1>5, <1>6, <1>8 DEF FindInv, FindShape
<1>10. FoundOnce'
  BY <1>2, <1>7 DEF FindInv, FoundOnce
<1>11. DetectedIsWalked'
  <2>1. detected'[i] = d /\ \A j \in 1..Len(Given) : j # i => detected'[j] = detected[j]
    BY <1>1, <1>8
  <2>2. d # NoCore => d \in Walked(Given[i])
    BY <1>6
  <2>3. d = NoCore => Walked(Given[i]) = {}
    BY <1>4, <1>5, <1>6
  <2> QED
    BY <1>7, <2>1, <2>2, <2>3 DEF FindInv, DetectedIsWalked
<1> QED
  BY <1>9, <1>10, <1>11 DEF FindInv

LEMMA LookKeeps == ASSUME FindInv, Look PROVE FindInv'
<1> DEFINE g == Given[looked + 1]
           fresh == Walked(g) \ Seen
           new == SetToSeq(fresh)
           more == [i \in 1..Len(new) |-> [root |-> CoreRoot(new[i]), qpf |-> new[i]]]
<1>1. looked < Len(Given) /\ looked' = looked + 1 /\ found' = found \o more
  BY DEF Look
<1>2. UNCHANGED <<projects, marked, detected>>
  BY DEF Look
<1>3. /\ looked \in Nat /\ looked + 1 \in 1..Len(Given) /\ Len(Given) \in Nat
      /\ found \in Seq(CoreRecords) /\ projects \subseteq Places
  BY <1>1, PlacesAre DEF FindInv, FindShape
<1>4. fresh \subseteq Places /\ IsFiniteSet(fresh)
  <2>1. fresh \subseteq Places
    BY <1>3 DEF Walked
  <2> HIDE DEF fresh
  <2> QED
    BY <2>1, PlacesAre, FS_Subset
<1>5. fresh \cap Seen = {} /\ Seen \cup fresh = Seen \cup Walked(g)
  OBVIOUS
<1> HIDE DEF fresh, g
<1>6. /\ new \in Seq(fresh)
      /\ \A i, j \in 1..Len(new) : new[i] = new[j] => i = j
      /\ \A x \in fresh : \E i \in 1..Len(new) : new[i] = x
  BY <1>4, SetToSeqIs
<1> HIDE DEF new
<1>7. Len(new) \in Nat /\ \A i \in 1..Len(new) : new[i] \in fresh
  BY <1>6, LenProperties
<1>8. \A d \in fresh : d \in Places /\ CoreRoot(d) \in Dirs /\ IsPrefix(CoreRoot(d), d)
  BY <1>4, PlacesAre, RootIsAbove
<1>9. /\ more \in Seq(CoreRecords) /\ Len(more) = Len(new)
      /\ \A i \in 1..Len(new) : more[i].qpf = new[i] /\ IsPrefix(more[i].root, more[i].qpf)
  <2>1. \A i \in 1..Len(new) : /\ more[i].qpf = new[i] /\ more[i].root = CoreRoot(new[i])
                               /\ more[i] \in CoreRecords
    BY <1>7, <1>8 DEF CoreRecords
  <2>2. more \in [1..Len(new) -> CoreRecords]
    BY <2>1
  <2> HIDE DEF more
  <2>3. more \in Seq(CoreRecords) /\ Len(more) = Len(new)
    BY <1>7, <2>2
  <2> QED
    BY <1>7, <1>8, <2>1, <2>3
<1> HIDE DEF more
<1>10. /\ found' \in Seq(CoreRecords) /\ Len(found) \in Nat /\ Len(found') = Len(found) + Len(new)
       /\ \A i \in 1..Len(found) : found'[i] = found[i]
       /\ \A i \in 1..Len(new) : found'[Len(found) + i] = more[i]
  <2>1. /\ found \o more \in Seq(CoreRecords)
        /\ Len(found) \in Nat /\ Len(more) \in Nat /\ Len(found \o more) = Len(found) + Len(more)
        /\ \A i \in 1..Len(found) : (found \o more)[i] = found[i]
        /\ \A i \in 1..Len(more) : (found \o more)[Len(found) + i] = more[i]
    <3>1. found \in Seq(CoreRecords) /\ more \in Seq(CoreRecords)
      BY <1>3, <1>9
    <3> QED
      BY <3>1, SeqJoinIs
  <2> QED
    BY <1>1, <1>9, <2>1
<1>11. \A n \in 1..Len(found') : \/ n \in 1..Len(found)
                                 \/ \E i \in 1..Len(new) : n = Len(found) + i
  <2> SUFFICES ASSUME NEW n \in 1..Len(found'), n \notin 1..Len(found)
               PROVE  \E i \in 1..Len(new) : n = Len(found) + i
    OBVIOUS
  <2>1. n - Len(found) \in 1..Len(new) /\ n = Len(found) + (n - Len(found))
    BY <1>7, <1>10
  <2> QED
    BY <2>1
<1>12. /\ \A i \in 1..Len(found) : found'[i].qpf \in Seen /\ i \in 1..Len(found')
       /\ \A i \in 1..Len(new) : found'[Len(found) + i].qpf \in fresh /\ Len(found) + i \in 1..Len(found')
  <2>1. \A i \in 1..Len(found) : found'[i].qpf \in Seen /\ i \in 1..Len(found')
    BY <1>7, <1>10 DEF Seen
  <2>2. \A i \in 1..Len(new) : Len(found) + i \in 1..Len(found')
    BY <1>7, <1>10
  <2>3. \A i \in 1..Len(new) : found'[Len(found) + i].qpf = new[i]
    BY <1>9, <1>10
  <2> QED
    BY <1>7, <2>1, <2>2, <2>3
<1>13. Seen' = Seen \cup fresh
  <2>1. \A x \in Seen' : x \in Seen \cup fresh
    BY <1>11, <1>12 DEF Seen
  <2>2. \A x \in Seen : x \in Seen'
    BY <1>10, <1>12 DEF Seen
  <2>3. \A x \in fresh : x \in Seen'
    <3> SUFFICES ASSUME NEW x \in fresh PROVE x \in Seen'
      OBVIOUS
    <3>1. PICK i \in 1..Len(new) : new[i] = x
      BY <1>6
    <3>2. found'[Len(found) + i].qpf = x /\ Len(found) + i \in 1..Len(found')
      BY <1>9, <1>10, <1>12, <3>1
    <3> QED
      BY <3>2 DEF Seen
  <2> QED
    BY <2>1, <2>2, <2>3
<1>14. \A h : Walked(h)' = Walked(h)
  BY <1>2 DEF Walked
<1>15. FindShape'
  BY <1>1, <1>2, <1>3, <1>10 DEF FindInv, FindShape
<1>16. FoundOnce'
  <2>1. ASSUME NEW a \in 1..Len(found'), NEW b \in 1..Len(found'), found'[a].qpf = found'[b].qpf PROVE a = b
    <3>1. CASE a \in 1..Len(found) /\ b \in 1..Len(found)
      BY <1>10, <2>1, <3>1 DEF FindInv, FoundOnce
    <3>2. CASE a \in 1..Len(found) /\ \E j \in 1..Len(new) : b = Len(found) + j
      BY <1>5, <1>12, <2>1, <3>2
    <3>3. CASE b \in 1..Len(found) /\ \E i \in 1..Len(new) : a = Len(found) + i
      BY <1>5, <1>12, <2>1, <3>3
    <3>4. ASSUME NEW i \in 1..Len(new), NEW j \in 1..Len(new), a = Len(found) + i, b = Len(found) + j PROVE a = b
      <4>1. new[i] = new[j]
        BY <1>9, <1>10, <2>1, <3>4
      <4> QED
        BY <1>6, <3>4, <4>1
    <3> QED
      BY <1>11, <3>1, <3>2, <3>3, <3>4
  <2>2. ASSUME NEW a \in 1..Len(found') PROVE IsPrefix(found'[a].root, found'[a].qpf)
    <3>1. CASE a \in 1..Len(found)
      BY <1>10, <3>1 DEF FindInv, FoundOnce
    <3>2. ASSUME NEW i \in 1..Len(new), a = Len(found) + i PROVE IsPrefix(found'[a].root, found'[a].qpf)
      BY <1>9, <1>10, <3>2
    <3> QED
      BY <1>11, <3>1, <3>2
  <2>3. Seen' = UNION {Walked(Given[i])' : i \in 1..looked'}
    <3>1. Seen = UNION {Walked(Given[i]) : i \in 1..looked}
      BY DEF FindInv, FoundOnce, Seen
    <3>2. 1..looked' = 1..looked \cup {looked + 1}
      BY <1>1, <1>3
    <3>3. Seen' = Seen \cup Walked(Given[looked + 1])
      BY <1>5, <1>13 DEF g
    <3> QED
      BY <1>14, <3>1, <3>2, <3>3
  <2> QED
    BY <2>1, <2>2, <2>3 DEF FoundOnce, Seen
<1>17. DetectedIsWalked'
  BY <1>2, <1>14 DEF FindInv, DetectedIsWalked
<1> QED
  BY <1>15, <1>16, <1>17 DEF FindInv

LEMMA FindStep == ASSUME FindInv, [FindNext]_findVars PROVE FindInv'
<1>1. CASE UNCHANGED findVars
  <2>1. \A g : Walked(g)' = Walked(g)
    BY <1>1 DEF findVars, Walked
  <2> QED
    <3>1. UNCHANGED <<projects, marked, detected, looked, found>>
      BY <1>1 DEF findVars
    <3>2. FindShape' /\ DetectedIsWalked'
      BY <2>1, <3>1 DEF FindInv, FindShape, DetectedIsWalked
    <3>3. FoundOnce'
      BY <2>1, <3>1 DEF FindInv, FoundOnce
    <3> QED
      BY <3>2, <3>3 DEF FindInv
<1> QED
  BY <1>1, DetectKeeps, LookKeeps DEF FindNext

\* A batch has each project it can reach once, and what is found alone is among what is
\* found together (CoresFound), for any directories, marks and paths (project.py:85-147).
THEOREM CoresAreFound == FindSpec => []CoresFound
<1>1. ASSUME FindInv PROVE DetectedIsFound
  <2> SUFFICES ASSUME NEW i \in 1..looked, detected[i] # Unasked
               PROVE  IF detected[i] = NoCore THEN Walked(Given[i]) = {} ELSE detected[i] \in Seen
    BY Zenon DEF DetectedIsFound
  <2>1. i \in 1..Len(Given)
    BY <1>1, PlacesAre DEF FindInv, FindShape
  <2>2. IF detected[i] = NoCore THEN Walked(Given[i]) = {} ELSE detected[i] \in Walked(Given[i])
    BY <1>1, <2>1 DEF FindInv, DetectedIsWalked
  <2>3. Seen = UNION {Walked(Given[j]) : j \in 1..looked}
    BY <1>1 DEF FindInv, FoundOnce, Seen
  <2> QED
    BY <2>2, <2>3
<1>2. FindInv => CoresFound
  BY <1>1 DEF FindInv, CoresFound
<1> QED
  BY <1>2, FindBegins, FindStep, PTL DEF FindSpec

-----------------------------------------------------------------------------
(* All of the parts.                                                        *)

\* None of the parts takes a step of another's.
LEMMA EachIsItself ==
  MCSpec => /\ Spec /\ DaemonSpec /\ ExploreSpec /\ GhaSpec
            /\ CommandsSpec /\ TimingSpec /\ FindSpec
<1>1. MCInit => /\ Init /\ DaemonInit /\ ExploreInit /\ GhaWatchInit
                /\ CommandsInit /\ TimingInit /\ FindInit
  BY DEF MCInit
<1>2. [MCNext]_<<services, service>> =>
        /\ [Next]_vars /\ [DaemonNext]_<<daemonVars, clash>> /\ [ExploreNext]_exploreVars
        /\ [GhaWatchNext]_ghaWatchVars
  BY DEF MCNext, services
<1>3. [MCNext]_<<services, service>> =>
        /\ [CommandsNext]_commandVars /\ [TimingNext]_timingVars /\ [FindNext]_findVars
  BY DEF MCNext, services
<1> QED
  BY <1>1, <1>2, <1>3, PTL
     DEF MCSpec, Spec, DaemonSpec, ExploreSpec, GhaSpec, CommandsSpec, TimingSpec, FindSpec

\* The state of the watch loop and of the daemon has its type (ServicesTypeOK), for every
\* number of saves, servers and callers.
THEOREM ServicesTypesCorrect == MCSpec => []ServicesTypeOK
<1>1. TypeOK /\ DaemonTypeOK => ServicesTypeOK
  BY DEF ServicesTypeOK
<1> QED
  BY <1>1, EachIsItself, WatchTypeCorrect, DaemonTypeCorrect, PTL

\* Whichever command it is, the code it ends with, its outputs and its last report say what
\* its sweeps or its run did (CodesTell), for any ladder, cores, threads and polls
\* (src/super_q/cli.py:8-13).
THEOREM CodesAreEarned == MCSpec => []CodesTell
<1>1. ToldAsItWent /\ EndIsTold /\ BatchTellsAll /\ CodeIsEarned /\ OutputsAgree => CodesTell
  BY DEF CodesTell
<1> QED
  BY <1>1, EachIsItself, LadderTells, LastUpdateIsTrue, CommandsTell, PTL
=============================================================================

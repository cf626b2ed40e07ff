---------------------------- MODULE ClaimsProofs ----------------------------
(***************************************************************************)
(* A sweep implements WorkClaims, for every number of seeds, threads and   *)
(* worker daemons, with cancellations, faults and crashes; and how many    *)
(* builds a pool starts once it has been told to stop.                     *)
(***************************************************************************)
EXTENDS SweepProofs, FiniteSetTheorems

USE StoreAssumption DEF Tasks, Owners

\* Nobody begins a build; builds may end.
NoneBegins ==
  /\ UNCHANGED holder
  /\ \A u \in Tasks : Builders(u)' \subseteq Builders(u)

\* w becomes the owner of t and begins to build it; nothing else happens.
Begins(t, w) ==
  /\ holder[t] = Nobody
  /\ holder' = [holder EXCEPT ![t] = w]
  /\ Builders(t)' # {}
  /\ \A u \in Tasks \ {t} : Builders(u)' = Builders(u)

\* Every step of a sweep does one of the two.
LEMMA BeginsOrNot ==
  ClaimInv /\ [Next]_vars =>
    NoneBegins \/ \E t \in Tasks, w \in Owners : Begins(t, w)
<1> SUFFICES ASSUME ClaimInv, [Next]_vars
             PROVE  NoneBegins \/ \E t \in Tasks, w \in Owners : Begins(t, w)
  OBVIOUS
<1> USE DEF ClaimInv, SweepTypeOK, StoreTypeOK, NoneBegins, Builders
<1>1. CASE Create \/ Start
  BY <1>1
  DEF Create, Start, CreateJob, StartJob, AfterSubmit, store, sweepVars,
      daemonVars, vars
<1>2. CASE Dispatch \/ Submit
  BY <1>2
  DEF Dispatch, Submit, CreateTask, AfterSubmit, store, sweepVars, daemonVars,
      vars
<1>3. CASE CollectAny \/ CollectRaised
  BY <1>3
  DEF CollectAny, CollectRaised, Collect, FinishTask, Better, store,
      sweepVars, daemonVars, vars
<1>4. CASE CollectEnd \/ Signal
  BY <1>4
  DEF CollectEnd, Signal, store, sweepVars, daemonVars, vars
<1>5. CASE CancelFuture \/ CancelEnd
  BY <1>5
  DEF CancelFuture, CancelEnd, store, sweepVars, daemonVars, vars
<1>6. CASE Drain \/ Finish
  BY <1>6
  DEF Drain, Finish, FinishJob, store, sweepVars, daemonVars, vars
<1>7. CASE Announce \/ Error
  BY <1>7
  DEF Announce, Error, FinishJob, store, sweepVars, daemonVars, vars
<1>8. ASSUME NEW t \in Tasks, Check(t) \/ SkipCancelled(t)
      PROVE  NoneBegins
  BY <1>8
  DEF Check, SkipCancelled, FinishTask, store, sweepVars, daemonVars, vars
<1>9. ASSUME NEW t \in Tasks, ClaimLost(t) \/ StartBuild(t)
      PROVE  NoneBegins
  BY <1>9
  DEF ClaimLost, StartBuild, ClaimRefused, StartTask, store, sweepVars,
      daemonVars, vars
<1>10. ASSUME NEW t \in Tasks, EndBuild(t) \/ ThreadFault(t)
      PROVE  NoneBegins
  BY <1>10
  DEF EndBuild, ThreadFault, Fault, store, sweepVars, daemonVars, vars
<1>11. ASSUME NEW t \in Tasks, Take(t) PROVE NoneBegins
  BY <1>11
  DEF Take, store, sweepVars, daemonVars, vars, Waiting
<1>12. ASSUME NEW t \in Tasks, ClaimWon(t) PROVE Begins(t, Inline)
  <2>1. holder[t] = Nobody
    BY <1>12 DEF ClaimWon, ClaimTask, FreeRows
  <2>2. holder' = [holder EXCEPT ![t] = Inline]
    BY <1>12 DEF ClaimWon, ClaimTask
  <2>3. Inline \in Builders(t)'
    BY <1>12 DEF ClaimWon
  <2>4. ASSUME NEW u \in Tasks \ {t} PROVE Builders(u)' = Builders(u)
    <3>1. fut'[u] = fut[u] /\ dpc' = dpc /\ dtask' = dtask
      BY <1>12 DEF ClaimWon, daemonVars
    <3> QED
      BY <3>1 DEF Builders
  <2> QED
    BY <2>1, <2>2, <2>3, <2>4 DEF Begins
<1>13. ASSUME NEW d \in Daemons, Poll(d) \/ DaemonLost(d)
      PROVE  NoneBegins
  BY <1>13
  DEF Poll, DaemonLost, NextQueued, ClaimRefused, store, sweepVars,
      daemonVars, vars
<1>14. ASSUME NEW d \in Daemons, Materialise(d) \/ BadCore(d)
      PROVE  NoneBegins
  BY <1>14
  DEF Materialise, BadCore, FinishTask, store, sweepVars, daemonVars, vars
<1>15. ASSUME NEW d \in Daemons, DaemonBuild(d) \/ Quit(d)
      PROVE  NoneBegins
  BY <1>15
  DEF DaemonBuild, Quit, FinishTask, store, sweepVars, daemonVars, vars
<1>16. ASSUME NEW d \in Daemons, DaemonDies(d)
      PROVE  NoneBegins
  BY <1>16
  DEF DaemonDies, Fault, store, sweepVars, daemonVars, vars
<1>17. ASSUME NEW d \in Daemons, DaemonWon(d)
      PROVE  dtask[d] \in Tasks /\ Begins(dtask[d], d)
  <2> DEFINE t == dtask[d]
  <2>1. t \in Tasks
    BY <1>17 DEF DaemonWon, OwnersWork
  <2>2. holder[t] = Nobody
    BY <1>17, <2>1 DEF DaemonWon, ClaimTask, FreeRows
  <2>3. holder' = [holder EXCEPT ![t] = d]
    BY <1>17 DEF DaemonWon, ClaimTask
  <2>4. d \in Builders(t)'
    BY <1>17 DEF DaemonWon, sweepVars
  <2>5. ASSUME NEW u \in Tasks \ {t} PROVE Builders(u)' = Builders(u)
    <3>1. fut' = fut /\ dtask' = dtask
      BY <1>17 DEF DaemonWon, sweepVars
    <3>2. \A w \in Daemons : w # d => dpc'[w] = dpc[w]
      BY <1>17 DEF DaemonWon
    <3>3. dtask[d] # u
      OBVIOUS
    <3> QED
      BY <3>1, <3>2, <3>3 DEF Builders
  <2> QED
    BY <2>1, <2>2, <2>3, <2>4, <2>5 DEF Begins
<1>18. CASE Cancel \/ StoreFault
  BY <1>18
  DEF Cancel, StoreFault, CancelJob, Fault, store, sweepVars, daemonVars, vars
<1>19. CASE Crash \/ Over
  BY <1>19
  DEF Crash, Over, Fault, store, sweepVars, daemonVars, vars
<1>20. CASE UNCHANGED vars
  BY <1>20
  DEF vars, store, sweepVars, daemonVars
<1> HIDE DEF ClaimInv, SweepTypeOK, StoreTypeOK, NoneBegins, Builders
<1> QED
  BY <1>1, <1>2, <1>3, <1>4, <1>5, <1>6, <1>7, <1>8, <1>9, <1>10, <1>11,
     <1>12, <1>13, <1>14, <1>15, <1>16, <1>17, <1>18, <1>19, <1>20
  DEF Next, RunSweep, RunOne, WorkOn

\* Builds that end are released in WorkClaims.
LEMMA NoneBeginsRefines == NoneBegins => Work!Next
<1> SUFFICES ASSUME NoneBegins PROVE Work!Next
  OBVIOUS
<1> DEFINE S == {u \in Tasks : Builders(u) # {} /\ Builders(u)' = {}}
<1>1. S \in SUBSET Tasks
  OBVIOUS
<1>2. \A u \in Tasks : (Builders(u)' # {}) = (Builders(u) # {} /\ u \notin S)
  BY DEF NoneBegins
<1>3. Work!Release(S)
  BY <1>2 DEF NoneBegins, Work!Release
<1> QED
  BY <1>1, <1>3 DEF Work!Next

\* A build that begins is a claim in WorkClaims.
LEMMA BeginsRefines ==
  ASSUME NEW t \in Tasks, NEW w \in Owners, Begins(t, w)
  PROVE  Work!Next
<1>1. Work!Claim(t, w)
  BY DEF Begins, Work!Claim
<1> QED
  BY <1>1 DEF Work!Next

\* Seen through holder and Builders, a sweep is a run of WorkClaims: a seed has
\* one owner, only its owner builds it, and it is built at most once.
THEOREM ClaimsImplemented == Spec => ClaimsSpec
<1>1. Init => Work!Init
  BY DEF Init, StoreInit, Builders, Work!Init
<1>2. ClaimInv /\ [Next]_vars => [Work!Next]_(Work!claims)
  BY BeginsOrNot, NoneBeginsRefines, BeginsRefines
<1>3. Spec => []ClaimInv
  <2>1. Init => ClaimInv
    BY SweepInvInit DEF SweepInv
  <2> QED
    BY SweepInvInit, SweepInvStep, PTL DEF Spec, SweepInv
<1> QED
  BY <1>1, <1>2, <1>3, PTL DEF Spec, ClaimsSpec, Work!Spec

-----------------------------------------------------------------------------
(* Late starts.                                                             *)

HIDE DEF Owners
USE SweepAssumption

\* Nobody takes a task off the queue, and after the flag nobody gets closer to
\* a start than it was.
Calm ==
  /\ Active' \subseteq Active
  /\ flag => Coming' \subseteq Coming
  /\ UNCHANGED <<flag, lateStarts>>

LEMMA TasksFinite == IsFiniteSet(Tasks) /\ IsFiniteSet(Active) /\ IsFiniteSet(Coming)
<1>1. IsFiniteSet(Tasks)
  BY FS_Interval
<1>2. Active \subseteq Tasks /\ Coming \subseteq Tasks
  BY DEF Active, Coming
<1> QED
  BY <1>1, <1>2, FS_Subset

\* Most steps are calm.
LEMMA CalmStep ==
  SweepTypeOK /\ [Next]_vars =>
    Calm \/ Signal \/ \E t \in Tasks : Take(t) \/ StartBuild(t)
<1> SUFFICES ASSUME SweepTypeOK, [Next]_vars
             PROVE  Calm \/ Signal \/ \E t \in Tasks : Take(t) \/ StartBuild(t)
  OBVIOUS
<1> USE DEF SweepTypeOK, StoreTypeOK, Calm, Active, Coming, Stages
<1>1. CASE Create \/ Start
  BY <1>1
  DEF Create, Start, CreateJob, StartJob, AfterSubmit, store, sweepVars,
      daemonVars, vars
<1>2. CASE Dispatch \/ Submit
  BY <1>2
  DEF Dispatch, Submit, CreateTask, AfterSubmit, store, sweepVars, daemonVars,
      vars
<1>3. CASE CollectAny \/ CollectRaised
  BY <1>3
  DEF CollectAny, CollectRaised, Collect, FinishTask, Better, store,
      sweepVars, daemonVars, vars
<1>4. CASE CollectEnd \/ CancelFuture
  BY <1>4
  DEF CollectEnd, CancelFuture, store, sweepVars, daemonVars, vars
<1>5. CASE CancelEnd \/ Drain
  BY <1>5
  DEF CancelEnd, Drain, store, sweepVars, daemonVars, vars
<1>6. CASE Finish \/ Announce
  BY <1>6
  DEF Finish, Announce, FinishJob, store, sweepVars, daemonVars, vars
<1>7. CASE Error
  BY <1>7
  DEF Error, FinishJob, store, sweepVars, daemonVars, vars
<1>8. ASSUME NEW t \in Tasks, Check(t) \/ SkipCancelled(t)
      PROVE  Calm
  BY <1>8
  DEF Check, SkipCancelled, FinishTask, store, sweepVars, daemonVars, vars
<1>9. ASSUME NEW t \in Tasks, ClaimWon(t) \/ ClaimLost(t)
      PROVE  Calm
  BY <1>9
  DEF ClaimWon, ClaimLost, ClaimTask, ClaimRefused, store, sweepVars,
      daemonVars, vars
<1>10. ASSUME NEW t \in Tasks, EndBuild(t) \/ ThreadFault(t)
      PROVE  Calm
  BY <1>10
  DEF EndBuild, ThreadFault, Fault, store, sweepVars, daemonVars, vars
<1>11. ASSUME NEW d \in Daemons, Poll(d) \/ DaemonWon(d)
      PROVE  Calm
  BY <1>11
  DEF Poll, DaemonWon, NextQueued, ClaimTask, store, sweepVars, daemonVars,
      vars
<1>12. ASSUME NEW d \in Daemons, DaemonLost(d) \/ Materialise(d)
      PROVE  Calm
  BY <1>12
  DEF DaemonLost, Materialise, ClaimRefused, store, sweepVars, daemonVars,
      vars
<1>13. ASSUME NEW d \in Daemons, BadCore(d) \/ DaemonBuild(d)
      PROVE  Calm
  BY <1>13
  DEF BadCore, DaemonBuild, FinishTask, store, sweepVars, daemonVars, vars
<1>14. ASSUME NEW d \in Daemons, Quit(d) \/ DaemonDies(d)
      PROVE  Calm
  BY <1>14
  DEF Quit, DaemonDies, Fault, store, sweepVars, daemonVars, vars
<1>15. CASE Cancel \/ StoreFault
  BY <1>15
  DEF Cancel, StoreFault, CancelJob, Fault, store, sweepVars, daemonVars, vars
<1>16. CASE Crash \/ Over
  BY <1>16
  DEF Crash, Over, Fault, store, sweepVars, daemonVars, vars
<1>17. CASE UNCHANGED vars
  BY <1>17
  DEF vars, store, sweepVars, daemonVars
<1> HIDE DEF SweepTypeOK, StoreTypeOK, Calm, Active, Coming, Stages
<1> QED
  BY <1>1, <1>2, <1>3, <1>4, <1>5, <1>6, <1>7, <1>8, <1>9, <1>10, <1>11,
     <1>12, <1>13, <1>14, <1>15, <1>16, <1>17
  DEF Next, RunSweep, RunOne, WorkOn

LEMMA CalmKeeps ==
  ASSUME SweepTypeOK, LateInv, Calm
  PROVE  LateInv'
<1>1. Cardinality(Active) \in Nat /\ Cardinality(Coming) \in Nat
  BY TasksFinite, FS_CardinalityType
<1>2. Cardinality(Active') <= Cardinality(Active) /\ Cardinality(Active') \in Nat
  BY TasksFinite, FS_Subset, FS_CardinalityType DEF Calm
<1>3. flag => Cardinality(Coming') <= Cardinality(Coming) /\ Cardinality(Coming') \in Nat
  BY TasksFinite, FS_Subset, FS_CardinalityType DEF Calm
<1>4. lateStarts \in Nat
  BY DEF SweepTypeOK
<1> QED
  BY <1>1, <1>2, <1>3, <1>4 DEF LateInv, Calm

\* A thread that takes a task was free.
LEMMA TakeKeeps ==
  ASSUME SweepTypeOK, LateInv, NEW t \in Tasks, Take(t)
  PROVE  LateInv'
<1>1. UNCHANGED <<flag, lateStarts>>
  BY DEF Take
<1>2. Coming' = Coming
  BY DEF Take, Coming, SweepTypeOK, QueueHead, Waiting
<1>3. Active' \subseteq Active \cup {t}
  BY DEF Take, Active, SweepTypeOK, Stages
<1>4. Cardinality(Active) < MaxWorkers
  BY DEF Take
<1>5. Cardinality(Active) \in Nat
  BY TasksFinite, FS_CardinalityType
<1>6. /\ IsFiniteSet(Active \cup {t})
      /\ Cardinality(Active \cup {t}) \in Nat
      /\ Cardinality(Active \cup {t}) <= Cardinality(Active) + 1
  <2>1. /\ IsFiniteSet(Active \cup {t})
        /\ \/ Cardinality(Active \cup {t}) = Cardinality(Active)
           \/ Cardinality(Active \cup {t}) = Cardinality(Active) + 1
    BY TasksFinite, FS_AddElement, Zenon
  <2> QED
    BY <1>5, <2>1
<1>7. Cardinality(Active') <= MaxWorkers
  <2>1. Cardinality(Active') <= Cardinality(Active \cup {t}) /\ Cardinality(Active') \in Nat
    BY <1>3, <1>6, FS_Subset, FS_CardinalityType
  <2> QED
    BY <2>1, <1>4, <1>5, <1>6
<1> QED
  BY <1>1, <1>2, <1>7 DEF LateInv

\* A late start is one of those that were coming.
LEMMA StartKeeps ==
  ASSUME SweepTypeOK, LateInv, NEW t \in Tasks, StartBuild(t)
  PROVE  LateInv'
<1>1. UNCHANGED flag /\ lateStarts' = IF flag THEN lateStarts + 1 ELSE lateStarts
  BY DEF StartBuild
<1>2. t \in Coming /\ Coming' = Coming \ {t}
  BY DEF StartBuild, Coming, SweepTypeOK
<1>3. Active' = Active
  BY DEF StartBuild, Active, SweepTypeOK, Stages
<1>4. Cardinality(Coming) \in Nat /\ Cardinality(Coming') = Cardinality(Coming) - 1
  BY <1>2, TasksFinite, FS_RemoveElement, FS_CardinalityType
<1>5. lateStarts \in Nat
  BY DEF SweepTypeOK
<1> QED
  BY <1>1, <1>3, <1>4, <1>5 DEF LateInv

\* When the flag is set, those who are coming are threads of the pool.
LEMMA SignalKeeps ==
  ASSUME SweepTypeOK, LateInv, Signal
  PROVE  LateInv'
<1>1. flag' /\ UNCHANGED lateStarts /\ Active' = Active /\ Coming' = Coming
  BY DEF Signal, Active, Coming
<1>2. CASE flag
  BY <1>1, <1>2 DEF LateInv
<1>3. CASE ~ flag
  <2>1. Coming \subseteq Active
    BY DEF Coming, Active, Stages
  <2>2. /\ Cardinality(Coming) <= Cardinality(Active)
        /\ Cardinality(Coming) \in Nat
        /\ Cardinality(Active) \in Nat
    BY <2>1, TasksFinite, FS_Subset, FS_CardinalityType
  <2> QED
    BY <1>1, <1>3, <2>2 DEF LateInv
<1> QED
  BY <1>2, <1>3

\* The pool starts at most one build per thread after cancel_flag is set.
THEOREM LateStartsBounded == Spec => []FewLateStarts
<1>1. Init => LateInv
  <2> SUFFICES ASSUME Init PROVE LateInv
    OBVIOUS
  <2>1. Active = {} /\ Coming = {} /\ ~ flag /\ lateStarts = 0
    BY DEF Init, Active, Coming, Stages
  <2> QED
    BY <2>1, FS_EmptySet DEF LateInv
<1>2. SweepTypeOK /\ LateInv /\ [Next]_vars => LateInv'
  BY CalmStep, CalmKeeps, TakeKeeps, StartKeeps, SignalKeeps
<1>3. SweepTypeOK /\ LateInv => FewLateStarts
  <2> SUFFICES ASSUME SweepTypeOK, LateInv PROVE FewLateStarts
    OBVIOUS
  <2>1. lateStarts \in Nat /\ Cardinality(Coming) \in Nat
    BY TasksFinite, FS_CardinalityType DEF SweepTypeOK
  <2> QED
    BY <2>1 DEF LateInv, FewLateStarts
<1> QED
  BY <1>1, <1>2, <1>3, TypeCorrect, PTL DEF Spec
=============================================================================

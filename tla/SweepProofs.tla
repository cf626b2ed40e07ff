---------------------------- MODULE SweepProofs ----------------------------
(***************************************************************************)
(* Theorems about Sweep for every number of seeds, of pool threads and of  *)
(* worker daemons, every set of scores and every number of faults.         *)
(***************************************************************************)
EXTENDS Sweep, TLAPS

USE StoreAssumption, SweepAssumption DEF Tasks, Owners

\* The outcome of every future can be compared: it has a truth value and an
\* integer score.
LEMMA OutcomeFields ==
  /\ Failure \in Outcome
  /\ \A o \in Outcome : o.ok \in BOOLEAN /\ o.score \in Int
<1> DEFINE Good == [ok : {TRUE}, score : Scores \cup {NegInf}]
           Bad  == [ok : {FALSE}, score : {NegInf}]
<1>1. NegInf \in Int
  BY DEF NegInf
<1>2. Failure \in Bad
  BY DEF Failure
<1>3. \A o \in Good : o.ok \in BOOLEAN /\ o.score \in Int
  <2>1. \A o \in Good : o.ok = TRUE
    BY Zenon
  <2>2. \A o \in Good : o.score \in Scores \cup {NegInf}
    BY Zenon
  <2>3. Scores \cup {NegInf} \subseteq Int
    BY <1>1
  <2> QED
    BY <2>1, <2>2, <2>3
<1>4. \A o \in Bad : o.ok \in BOOLEAN /\ o.score \in Int
  <2>1. \A o \in Bad : o.ok = FALSE
    BY Zenon
  <2>2. \A o \in Bad : o.score \in Int
    BY <1>1
  <2> QED
    BY <2>1, <2>2
<1> QED
  BY <1>2, <1>3, <1>4 DEF Outcome

\* A failure has no score.
LEMMA ScoresAre ==
  \A o \in Outcome : o.score \in Int /\ o.score >= NegInf /\ (~ o.ok => o.score = NegInf)
<1>1. \A o \in [ok : {TRUE}, score : Scores \cup {NegInf}] :
        o.ok = TRUE /\ o.score \in Int /\ o.score >= NegInf
  <2>1. \A o \in [ok : {TRUE}, score : Scores \cup {NegInf}] :
          o.ok = TRUE /\ o.score \in Scores \cup {NegInf}
    BY Zenon
  <2>2. \A x \in Scores \cup {NegInf} : x \in Int /\ x >= NegInf
    BY SweepAssumption DEF NegInf
  <2> QED
    BY <2>1, <2>2
<1>2. \A o \in [ok : {FALSE}, score : {NegInf}] : o.score = NegInf
  OBVIOUS
<1>3. NegInf \in Int /\ NegInf >= NegInf
  BY DEF NegInf
<1> QED
  BY <1>1, <1>2, <1>3 DEF Outcome

\* One more result is one more recorded task.
LEMMA RecordedAppend ==
  ASSUME NEW s \in Seq(Tasks), NEW t \in Tasks
  PROVE  /\ Append(s, t) \in Seq(Tasks)
         /\ ToSet(Append(s, t)) = ToSet(s) \cup {t}
<1>1. Append(s, t) \in Seq(Tasks) /\ Len(Append(s, t)) = Len(s) + 1
  OBVIOUS
<1>2. DOMAIN s = 1..Len(s) /\ DOMAIN Append(s, t) = 1..(Len(s) + 1)
  BY <1>1
<1>3. \A i \in 1..Len(s) : Append(s, t)[i] = s[i]
  OBVIOUS
<1>4. Append(s, t)[Len(s) + 1] = t
  OBVIOUS
<1>5. Len(s) \in Nat
  OBVIOUS
<1>6. \A i : i \in 1..(Len(s) + 1) <=> i \in 1..Len(s) \/ i = Len(s) + 1
  BY <1>5
<1> QED
  BY <1>1, <1>2, <1>3, <1>4, <1>6 DEF ToSet

\* Only tasks are recorded.
LEMMA RecordedTasks == SweepTypeOK => Recorded \subseteq Tasks
BY DEF SweepTypeOK, Recorded, ToSet

LEMMA TypeInit == Init => SweepTypeOK
<1> SUFFICES ASSUME Init PROVE SweepTypeOK
  OBVIOUS
<1>1. StoreTypeOK
  BY DEF Init, StoreInit, StoreTypeOK, JobStatus, TaskStatus
<1>2. out \in [Tasks -> Outcome]
  BY OutcomeFields DEF Init
<1>3. results \in Seq(Tasks) /\ lateStarts \in Nat /\ faults \in 0..MaxFaults
  BY DEF Init
<1>4. pc \in Control /\ fut \in [Tasks -> FutureType]
  BY DEF Init, Control, FutureType
<1>5. next \in 1..(N + 1) /\ lead \in Tasks \cup {NoTask}
  BY DEF Init
<1>6. flag \in BOOLEAN
  BY DEF Init
<1>7. /\ dpc \in [Daemons -> {"poll", "claim", "spec", "build", "gone"}]
      /\ dtask \in [Daemons -> Tasks \cup {NoTask}]
  BY DEF Init
<1> QED
  BY <1>1, <1>2, <1>3, <1>4, <1>5, <1>6, <1>7 DEF SweepTypeOK

LEMMA TypeStep ==
  SweepTypeOK /\ RowsAhead /\ OwnersWork /\ [Next]_vars => SweepTypeOK'
<1> SUFFICES ASSUME SweepTypeOK, RowsAhead, OwnersWork, [Next]_vars
             PROVE  SweepTypeOK'
  OBVIOUS
<1> USE DEF SweepTypeOK, StoreTypeOK, JobStatus, TaskStatus, Control, FutureType,
            Stages, Waiting, Settled
<1>1. CASE Create
  BY <1>1
  DEF Create, CreateJob, store, sweepVars, daemonVars, vars
<1>2. CASE Start
  BY <1>2
  DEF Start, StartJob, AfterSubmit, store, sweepVars, daemonVars, vars
<1>3. CASE Dispatch
  BY <1>3
  DEF Dispatch, CreateTask, store, sweepVars, daemonVars, vars
<1>4. CASE CollectAny
  BY <1>4
  DEF CollectAny, Collect, FinishTask, Better, store, sweepVars, daemonVars,
      vars
<1>5. CASE CollectRaised
  BY <1>5
  DEF CollectRaised, store, sweepVars, daemonVars, vars
<1>6. CASE CollectEnd
  BY <1>6
  DEF CollectEnd, store, sweepVars, daemonVars, vars
<1>7. CASE Signal
  BY <1>7
  DEF Signal, store, sweepVars, daemonVars, vars
<1>8. CASE CancelFuture
  BY <1>8
  DEF CancelFuture, store, sweepVars, daemonVars, vars
<1>9. CASE CancelEnd
  BY <1>9
  DEF CancelEnd, store, sweepVars, daemonVars, vars
<1>10. CASE Drain
  BY <1>10
  DEF Drain, store, sweepVars, daemonVars, vars
<1>11. CASE Finish
  BY <1>11
  DEF Finish, FinishJob, store, sweepVars, daemonVars, vars
<1>12. CASE Announce
  BY <1>12
  DEF Announce, store, sweepVars, daemonVars, vars
<1>13. CASE Error
  BY <1>13
  DEF Error, FinishJob, store, sweepVars, daemonVars, vars
<1>14. CASE Submit
  BY <1>14
  DEF Submit, AfterSubmit, store, sweepVars, daemonVars, vars, RowsAhead
<1>15. ASSUME NEW t \in Tasks, Take(t)
      PROVE  SweepTypeOK'
  BY <1>15
  DEF Take, store, sweepVars, daemonVars, vars
<1>16. ASSUME NEW t \in Tasks, Check(t)
      PROVE  SweepTypeOK'
  BY <1>16
  DEF Check, store, sweepVars, daemonVars, vars
<1>17. ASSUME NEW t \in Tasks, SkipCancelled(t)
      PROVE  SweepTypeOK'
  BY <1>17
  DEF SkipCancelled, FinishTask, store, sweepVars, daemonVars, vars
<1>18. ASSUME NEW t \in Tasks, ClaimWon(t)
      PROVE  SweepTypeOK'
  BY <1>18
  DEF ClaimWon, ClaimTask, store, sweepVars, daemonVars, vars
<1>19. ASSUME NEW t \in Tasks, ClaimLost(t)
      PROVE  SweepTypeOK'
  BY <1>19
  DEF ClaimLost, ClaimRefused, store, sweepVars, daemonVars, vars
<1>20. ASSUME NEW t \in Tasks, StartBuild(t)
      PROVE  SweepTypeOK'
  BY <1>20
  DEF StartBuild, StartTask, store, sweepVars, daemonVars, vars
<1>21. ASSUME NEW t \in Tasks, EndBuild(t)
      PROVE  SweepTypeOK'
  BY <1>21
  DEF EndBuild, store, sweepVars, daemonVars, vars
<1>22. ASSUME NEW t \in Tasks, ThreadFault(t)
      PROVE  SweepTypeOK'
  BY <1>22
  DEF ThreadFault, Fault, store, sweepVars, daemonVars, vars
<1>23. ASSUME NEW d \in Daemons, Poll(d)
      PROVE  SweepTypeOK'
  BY <1>23
  DEF Poll, NextQueued, store, sweepVars, daemonVars, vars
<1>24. ASSUME NEW d \in Daemons, DaemonLost(d)
      PROVE  SweepTypeOK'
  BY <1>24
  DEF DaemonLost, ClaimRefused, store, sweepVars, daemonVars, vars
<1>25. ASSUME NEW d \in Daemons, Materialise(d)
      PROVE  SweepTypeOK'
  BY <1>25
  DEF Materialise, store, sweepVars, daemonVars, vars
<1>26. ASSUME NEW d \in Daemons, Quit(d)
      PROVE  SweepTypeOK'
  BY <1>26
  DEF Quit, store, sweepVars, daemonVars, vars
<1>27. ASSUME NEW d \in Daemons, DaemonDies(d)
      PROVE  SweepTypeOK'
  BY <1>27
  DEF DaemonDies, Fault, store, sweepVars, daemonVars, vars
<1>28. ASSUME NEW d \in Daemons, DaemonWon(d) PROVE SweepTypeOK'
  BY <1>28
  DEF DaemonWon, ClaimTask, store, sweepVars, daemonVars, vars, OwnersWork
<1>29. ASSUME NEW d \in Daemons, BadCore(d) PROVE SweepTypeOK'
  BY <1>29
  DEF BadCore, FinishTask, store, sweepVars, daemonVars, vars, OwnersWork
<1>30. ASSUME NEW d \in Daemons, DaemonBuild(d) PROVE SweepTypeOK'
  BY <1>30
  DEF DaemonBuild, FinishTask, store, sweepVars, daemonVars, vars, OwnersWork
<1>31. CASE Cancel
  BY <1>31
  DEF Cancel, CancelJob, store, sweepVars, daemonVars, vars
<1>32. CASE StoreFault
  BY <1>32
  DEF StoreFault, Fault, store, sweepVars, daemonVars, vars
<1>33. CASE Crash
  BY <1>33
  DEF Crash, Fault, store, sweepVars, daemonVars, vars
<1>34. CASE Over
  BY <1>34
  DEF Over, store, sweepVars, daemonVars, vars
<1>35. CASE UNCHANGED vars
  BY <1>35
  DEF vars, store, sweepVars, daemonVars
<1> QED
  BY <1>1, <1>2, <1>3, <1>4, <1>5, <1>6, <1>7, <1>8, <1>9, <1>10, <1>11,
     <1>12, <1>13, <1>14, <1>15, <1>16, <1>17, <1>18, <1>19, <1>20, <1>21,
     <1>22, <1>23, <1>24, <1>25, <1>26, <1>27, <1>28, <1>29, <1>30, <1>31,
     <1>32, <1>33, <1>34, <1>35
  DEF Next, RunSweep, RunOne, WorkOn

\* Every claim takes the row out of the free ones, and no statement puts it back.
LEMMA FreeStep ==
  SweepTypeOK /\ RowsAhead /\ OwnersWork /\ FreeRows /\ [Next]_vars => FreeRows'
<1> SUFFICES ASSUME SweepTypeOK, RowsAhead, OwnersWork, FreeRows, [Next]_vars
             PROVE  FreeRows'
  OBVIOUS
<1> USE DEF SweepTypeOK, StoreTypeOK, FreeRows
<1>1. CASE Create \/ Start \/ Submit
  BY <1>1
  DEF Create, Start, Submit, CreateJob, StartJob, AfterSubmit, store,
      sweepVars, daemonVars, vars
<1>2. CASE CollectAny \/ CollectRaised \/ CollectEnd
  BY <1>2
  DEF CollectAny, CollectRaised, CollectEnd, Collect, FinishTask, Better,
      store, sweepVars, daemonVars, vars
<1>3. CASE Signal \/ CancelFuture \/ CancelEnd
  BY <1>3
  DEF Signal, CancelFuture, CancelEnd, store, sweepVars, daemonVars, vars
<1>4. CASE Drain \/ Finish \/ Announce
  BY <1>4
  DEF Drain, Finish, Announce, FinishJob, store, sweepVars, daemonVars, vars
<1>5. CASE Error
  BY <1>5
  DEF Error, FinishJob, store, sweepVars, daemonVars, vars
<1>6. CASE Dispatch
  BY <1>6
  DEF Dispatch, CreateTask, store, sweepVars, daemonVars, vars, RowsAhead
<1>7. ASSUME NEW t \in Tasks, Take(t) \/ Check(t) \/ SkipCancelled(t)
      PROVE  FreeRows'
  BY <1>7
  DEF Take, Check, SkipCancelled, FinishTask, store, sweepVars, daemonVars,
      vars
<1>8. ASSUME NEW t \in Tasks, ClaimWon(t) \/ ClaimLost(t) \/ StartBuild(t)
      PROVE  FreeRows'
  BY <1>8
  DEF ClaimWon, ClaimLost, StartBuild, ClaimTask, ClaimRefused, StartTask,
      store, sweepVars, daemonVars, vars
<1>9. ASSUME NEW t \in Tasks, EndBuild(t) \/ ThreadFault(t)
      PROVE  FreeRows'
  BY <1>9
  DEF EndBuild, ThreadFault, Fault, store, sweepVars, daemonVars, vars
<1>10. ASSUME NEW d \in Daemons, Poll(d) \/ DaemonLost(d) \/ Materialise(d)
      PROVE  FreeRows'
  BY <1>10
  DEF Poll, DaemonLost, Materialise, NextQueued, ClaimRefused, store,
      sweepVars, daemonVars, vars
<1>11. ASSUME NEW d \in Daemons, Quit(d) \/ DaemonDies(d)
      PROVE  FreeRows'
  BY <1>11
  DEF Quit, DaemonDies, Fault, store, sweepVars, daemonVars, vars
<1>12. ASSUME NEW d \in Daemons, DaemonWon(d) PROVE FreeRows'
  BY <1>12
  DEF DaemonWon, ClaimTask, store, sweepVars, daemonVars, vars, OwnersWork
<1>13. ASSUME NEW d \in Daemons, BadCore(d) PROVE FreeRows'
  BY <1>13
  DEF BadCore, FinishTask, store, sweepVars, daemonVars, vars, OwnersWork
<1>14. ASSUME NEW d \in Daemons, DaemonBuild(d) PROVE FreeRows'
  BY <1>14
  DEF DaemonBuild, FinishTask, store, sweepVars, daemonVars, vars, OwnersWork
<1>15. CASE Cancel \/ StoreFault \/ Crash
  BY <1>15
  DEF Cancel, StoreFault, Crash, CancelJob, Fault, store, sweepVars,
      daemonVars, vars
<1>16. CASE Over
  BY <1>16
  DEF Over, store, sweepVars, daemonVars, vars
<1>17. CASE UNCHANGED vars
  BY <1>17
  DEF vars, store, sweepVars, daemonVars
<1> QED
  BY <1>1, <1>2, <1>3, <1>4, <1>5, <1>6, <1>7, <1>8, <1>9, <1>10, <1>11,
     <1>12, <1>13, <1>14, <1>15, <1>16, <1>17
  DEF Next, RunSweep, RunOne, WorkOn

\* Only run_sweep creates rows, and it does so in order.
LEMMA AheadStep ==
  SweepTypeOK /\ RowsAhead /\ RowsExist /\ OwnersWork /\ [Next]_vars => RowsAhead'
<1> SUFFICES ASSUME SweepTypeOK, RowsAhead, RowsExist, OwnersWork, [Next]_vars
             PROVE  RowsAhead'
  OBVIOUS
<1> USE DEF SweepTypeOK, StoreTypeOK, RowsAhead
<1>1. CASE Create \/ Start \/ Dispatch
  BY <1>1
  DEF Create, Start, Dispatch, CreateJob, StartJob, AfterSubmit, CreateTask,
      store, sweepVars, daemonVars, vars
<1>2. CASE Submit \/ CollectAny \/ CollectRaised
  BY <1>2
  DEF Submit, CollectAny, CollectRaised, AfterSubmit, Collect, FinishTask,
      Better, store, sweepVars, daemonVars, vars
<1>3. CASE CollectEnd \/ Signal \/ CancelFuture
  BY <1>3
  DEF CollectEnd, Signal, CancelFuture, store, sweepVars, daemonVars, vars
<1>4. CASE CancelEnd \/ Drain \/ Finish
  BY <1>4
  DEF CancelEnd, Drain, Finish, FinishJob, store, sweepVars, daemonVars, vars
<1>5. CASE Announce \/ Error
  BY <1>5
  DEF Announce, Error, FinishJob, store, sweepVars, daemonVars, vars
<1>6. ASSUME NEW t \in Tasks, Check(t) \/ ClaimWon(t) \/ ClaimLost(t)
      PROVE  RowsAhead'
  BY <1>6
  DEF Check, ClaimWon, ClaimLost, ClaimTask, ClaimRefused, store, sweepVars,
      daemonVars, vars
<1>7. ASSUME NEW t \in Tasks, EndBuild(t)
      PROVE  RowsAhead'
  BY <1>7
  DEF EndBuild, store, sweepVars, daemonVars, vars
<1>8. ASSUME NEW t \in Tasks, Take(t) PROVE RowsAhead'
  BY <1>8
  DEF Take, store, sweepVars, daemonVars, vars, QueueHead, Waiting
<1>9. ASSUME NEW t \in Tasks, SkipCancelled(t) PROVE RowsAhead'
  BY <1>9
  DEF SkipCancelled, FinishTask, store, sweepVars, daemonVars, vars,
      RowsExist, Waiting, Stages
<1>10. ASSUME NEW t \in Tasks, StartBuild(t) PROVE RowsAhead'
  BY <1>10
  DEF StartBuild, StartTask, store, sweepVars, daemonVars, vars, RowsExist,
      Waiting, Stages
<1>11. ASSUME NEW t \in Tasks, ThreadFault(t) PROVE RowsAhead'
  BY <1>11
  DEF ThreadFault, Fault, store, sweepVars, daemonVars, vars, Stages
<1>12. ASSUME NEW d \in Daemons, Poll(d) \/ DaemonLost(d) \/ Materialise(d)
      PROVE  RowsAhead'
  BY <1>12
  DEF Poll, DaemonLost, Materialise, NextQueued, ClaimRefused, store,
      sweepVars, daemonVars, vars
<1>13. ASSUME NEW d \in Daemons, Quit(d) \/ DaemonDies(d)
      PROVE  RowsAhead'
  BY <1>13
  DEF Quit, DaemonDies, Fault, store, sweepVars, daemonVars, vars
<1>14. ASSUME NEW d \in Daemons, DaemonWon(d) PROVE RowsAhead'
  BY <1>14
  DEF DaemonWon, ClaimTask, store, sweepVars, daemonVars, vars, OwnersWork
<1>15. ASSUME NEW d \in Daemons, BadCore(d) PROVE RowsAhead'
  BY <1>15
  DEF BadCore, FinishTask, store, sweepVars, daemonVars, vars, OwnersWork,
      RowsExist
<1>16. ASSUME NEW d \in Daemons, DaemonBuild(d) PROVE RowsAhead'
  BY <1>16
  DEF DaemonBuild, FinishTask, store, sweepVars, daemonVars, vars, OwnersWork,
      RowsExist
<1>17. CASE StoreFault \/ Crash \/ Over
  BY <1>17
  DEF StoreFault, Crash, Over, Fault, store, sweepVars, daemonVars, vars
<1>18. CASE Cancel
  BY <1>18
  DEF Cancel, CancelJob, store, sweepVars, daemonVars, vars, OpenTask
<1>19. CASE UNCHANGED vars
  BY <1>19
  DEF vars, store, sweepVars, daemonVars
<1> QED
  BY <1>1, <1>2, <1>3, <1>4, <1>5, <1>6, <1>7, <1>8, <1>9, <1>10, <1>11,
     <1>12, <1>13, <1>14, <1>15, <1>16, <1>17, <1>18, <1>19
  DEF Next, RunSweep, RunOne, WorkOn

\* A row, once created, stays; only created rows are submitted, polled and worked on.
LEMMA ExistStep ==
  SweepTypeOK /\ RowsAhead /\ RowsExist /\ OwnersWork /\ [Next]_vars => RowsExist'
<1> SUFFICES ASSUME SweepTypeOK, RowsAhead, RowsExist, OwnersWork, [Next]_vars
             PROVE  RowsExist'
  OBVIOUS
<1> USE DEF SweepTypeOK, StoreTypeOK, RowsExist, OwnersWork, Waiting, Stages
<1>1. CASE Create
  BY <1>1
  DEF Create, CreateJob, store, sweepVars, daemonVars, vars
<1>2. CASE Start
  BY <1>2
  DEF Start, StartJob, AfterSubmit, store, sweepVars, daemonVars, vars
<1>3. CASE CollectAny
  BY <1>3
  DEF CollectAny, Collect, FinishTask, Better, store, sweepVars, daemonVars,
      vars
<1>4. CASE CollectRaised
  BY <1>4
  DEF CollectRaised, store, sweepVars, daemonVars, vars
<1>5. CASE CollectEnd
  BY <1>5
  DEF CollectEnd, store, sweepVars, daemonVars, vars
<1>6. CASE Signal
  BY <1>6
  DEF Signal, store, sweepVars, daemonVars, vars
<1>7. CASE CancelFuture
  BY <1>7
  DEF CancelFuture, store, sweepVars, daemonVars, vars
<1>8. CASE CancelEnd
  BY <1>8
  DEF CancelEnd, store, sweepVars, daemonVars, vars
<1>9. CASE Drain
  BY <1>9
  DEF Drain, store, sweepVars, daemonVars, vars
<1>10. CASE Finish
  BY <1>10
  DEF Finish, FinishJob, store, sweepVars, daemonVars, vars
<1>11. CASE Announce
  BY <1>11
  DEF Announce, store, sweepVars, daemonVars, vars
<1>12. CASE Error
  BY <1>12
  DEF Error, FinishJob, store, sweepVars, daemonVars, vars
<1>13. CASE Dispatch
  BY <1>13
  DEF Dispatch, CreateTask, store, sweepVars, daemonVars, vars, RowsAhead
<1>14. CASE Submit
  BY <1>14
  DEF Submit, AfterSubmit, store, sweepVars, daemonVars, vars, RowsAhead
<1>15. ASSUME NEW t \in Tasks, Take(t)
      PROVE  RowsExist'
  BY <1>15
  DEF Take, store, sweepVars, daemonVars, vars
<1>16. ASSUME NEW t \in Tasks, Check(t)
      PROVE  RowsExist'
  BY <1>16
  DEF Check, store, sweepVars, daemonVars, vars
<1>17. ASSUME NEW t \in Tasks, SkipCancelled(t)
      PROVE  RowsExist'
  BY <1>17
  DEF SkipCancelled, FinishTask, store, sweepVars, daemonVars, vars
<1>18. ASSUME NEW t \in Tasks, ClaimWon(t)
      PROVE  RowsExist'
  BY <1>18
  DEF ClaimWon, ClaimTask, store, sweepVars, daemonVars, vars
<1>19. ASSUME NEW t \in Tasks, ClaimLost(t)
      PROVE  RowsExist'
  BY <1>19
  DEF ClaimLost, ClaimRefused, store, sweepVars, daemonVars, vars
<1>20. ASSUME NEW t \in Tasks, StartBuild(t)
      PROVE  RowsExist'
  BY <1>20
  DEF StartBuild, StartTask, store, sweepVars, daemonVars, vars
<1>21. ASSUME NEW t \in Tasks, EndBuild(t)
      PROVE  RowsExist'
  BY <1>21
  DEF EndBuild, store, sweepVars, daemonVars, vars
<1>22. ASSUME NEW t \in Tasks, ThreadFault(t)
      PROVE  RowsExist'
  BY <1>22
  DEF ThreadFault, Fault, store, sweepVars, daemonVars, vars
<1>23. ASSUME NEW d \in Daemons, Poll(d)
      PROVE  RowsExist'
  BY <1>23
  DEF Poll, NextQueued, store, sweepVars, daemonVars, vars
<1>24. ASSUME NEW d \in Daemons, DaemonWon(d)
      PROVE  RowsExist'
  BY <1>24
  DEF DaemonWon, ClaimTask, store, sweepVars, daemonVars, vars
<1>25. ASSUME NEW d \in Daemons, DaemonLost(d)
      PROVE  RowsExist'
  BY <1>25
  DEF DaemonLost, ClaimRefused, store, sweepVars, daemonVars, vars
<1>26. ASSUME NEW d \in Daemons, Materialise(d)
      PROVE  RowsExist'
  BY <1>26
  DEF Materialise, store, sweepVars, daemonVars, vars
<1>27. ASSUME NEW d \in Daemons, BadCore(d)
      PROVE  RowsExist'
  BY <1>27
  DEF BadCore, FinishTask, store, sweepVars, daemonVars, vars
<1>28. ASSUME NEW d \in Daemons, DaemonBuild(d)
      PROVE  RowsExist'
  BY <1>28
  DEF DaemonBuild, FinishTask, store, sweepVars, daemonVars, vars
<1>29. ASSUME NEW d \in Daemons, Quit(d)
      PROVE  RowsExist'
  BY <1>29
  DEF Quit, store, sweepVars, daemonVars, vars
<1>30. ASSUME NEW d \in Daemons, DaemonDies(d)
      PROVE  RowsExist'
  BY <1>30
  DEF DaemonDies, Fault, store, sweepVars, daemonVars, vars
<1>31. CASE StoreFault
  BY <1>31
  DEF StoreFault, Fault, store, sweepVars, daemonVars, vars
<1>32. CASE Crash
  BY <1>32
  DEF Crash, Fault, store, sweepVars, daemonVars, vars
<1>33. CASE Over
  BY <1>33
  DEF Over, store, sweepVars, daemonVars, vars
<1>34. CASE Cancel
  BY <1>34
  DEF Cancel, CancelJob, store, sweepVars, daemonVars, vars, OpenTask,
      RowsAhead
<1>35. CASE UNCHANGED vars
  BY <1>35
  DEF vars, store, sweepVars, daemonVars
<1> QED
  BY <1>1, <1>2, <1>3, <1>4, <1>5, <1>6, <1>7, <1>8, <1>9, <1>10, <1>11,
     <1>12, <1>13, <1>14, <1>15, <1>16, <1>17, <1>18, <1>19, <1>20, <1>21,
     <1>22, <1>23, <1>24, <1>25, <1>26, <1>27, <1>28, <1>29, <1>30, <1>31,
     <1>32, <1>33, <1>34, <1>35
  DEF Next, RunSweep, RunOne, WorkOn

\* A claim needs a free row, so nobody who works on a row loses it.
LEMMA OwnersStep ==
  SweepTypeOK /\ FreeRows /\ OwnersWork /\ [Next]_vars => OwnersWork'
<1> SUFFICES ASSUME SweepTypeOK, FreeRows, OwnersWork, [Next]_vars
             PROVE  OwnersWork'
  OBVIOUS
<1> USE DEF SweepTypeOK, StoreTypeOK, OwnersWork
<1>1. CASE Create \/ Start \/ Dispatch
  BY <1>1
  DEF Create, Start, Dispatch, CreateJob, StartJob, AfterSubmit, CreateTask,
      store, sweepVars, daemonVars, vars
<1>2. CASE Submit \/ CollectAny \/ CollectRaised
  BY <1>2
  DEF Submit, CollectAny, CollectRaised, AfterSubmit, Collect, FinishTask,
      Better, store, sweepVars, daemonVars, vars
<1>3. CASE CollectEnd \/ Signal \/ CancelFuture
  BY <1>3
  DEF CollectEnd, Signal, CancelFuture, store, sweepVars, daemonVars, vars
<1>4. CASE CancelEnd \/ Drain \/ Finish
  BY <1>4
  DEF CancelEnd, Drain, Finish, FinishJob, store, sweepVars, daemonVars, vars
<1>5. CASE Announce \/ Error
  BY <1>5
  DEF Announce, Error, FinishJob, store, sweepVars, daemonVars, vars
<1>6. ASSUME NEW t \in Tasks, Take(t) \/ Check(t) \/ SkipCancelled(t)
      PROVE  OwnersWork'
  BY <1>6
  DEF Take, Check, SkipCancelled, FinishTask, store, sweepVars, daemonVars,
      vars
<1>7. ASSUME NEW t \in Tasks, ClaimLost(t) \/ StartBuild(t) \/ EndBuild(t)
      PROVE  OwnersWork'
  BY <1>7
  DEF ClaimLost, StartBuild, EndBuild, ClaimRefused, StartTask, store,
      sweepVars, daemonVars, vars
<1>8. ASSUME NEW t \in Tasks, ThreadFault(t)
      PROVE  OwnersWork'
  BY <1>8
  DEF ThreadFault, Fault, store, sweepVars, daemonVars, vars
<1>9. ASSUME NEW t \in Tasks, ClaimWon(t) PROVE OwnersWork'
  BY <1>9
  DEF ClaimWon, ClaimTask, store, sweepVars, daemonVars, vars, FreeRows
<1>10. ASSUME NEW d \in Daemons, DaemonLost(d) \/ Materialise(d) \/ BadCore(d)
      PROVE  OwnersWork'
  BY <1>10
  DEF DaemonLost, Materialise, BadCore, ClaimRefused, FinishTask, store,
      sweepVars, daemonVars, vars
<1>11. ASSUME NEW d \in Daemons, DaemonBuild(d) \/ Quit(d) \/ DaemonDies(d)
      PROVE  OwnersWork'
  BY <1>11
  DEF DaemonBuild, Quit, DaemonDies, FinishTask, Fault, store, sweepVars,
      daemonVars, vars
<1>12. ASSUME NEW d \in Daemons, Poll(d) PROVE OwnersWork'
  BY <1>12
  DEF Poll, NextQueued, store, sweepVars, daemonVars, vars, FreeRows
<1>13. ASSUME NEW d \in Daemons, DaemonWon(d) PROVE OwnersWork'
  BY <1>13
  DEF DaemonWon, ClaimTask, store, sweepVars, daemonVars, vars, FreeRows
<1>14. CASE Cancel \/ StoreFault \/ Crash
  BY <1>14
  DEF Cancel, StoreFault, Crash, CancelJob, Fault, store, sweepVars,
      daemonVars, vars
<1>15. CASE Over
  BY <1>15
  DEF Over, store, sweepVars, daemonVars, vars
<1>16. CASE UNCHANGED vars
  BY <1>16
  DEF vars, store, sweepVars, daemonVars
<1> QED
  BY <1>1, <1>2, <1>3, <1>4, <1>5, <1>6, <1>7, <1>8, <1>9, <1>10, <1>11,
     <1>12, <1>13, <1>14, <1>15, <1>16
  DEF Next, RunSweep, RunOne, WorkOn

\* A collected future is never run again.
LEMMA RecordedStep ==
  SweepTypeOK /\ RowsAhead /\ RecordedSettled /\ [Next]_vars => RecordedSettled'
<1> SUFFICES ASSUME SweepTypeOK, RowsAhead, RecordedSettled, [Next]_vars
             PROVE  RecordedSettled'
  OBVIOUS
<1> USE DEF SweepTypeOK, StoreTypeOK, RecordedSettled, Recorded, Stages, Waiting, Settled
<1>1. CASE Create
  BY <1>1
  DEF Create, CreateJob, store, sweepVars, daemonVars, vars
<1>2. CASE Start
  BY <1>2
  DEF Start, StartJob, AfterSubmit, store, sweepVars, daemonVars, vars
<1>3. CASE Dispatch
  BY <1>3
  DEF Dispatch, CreateTask, store, sweepVars, daemonVars, vars
<1>4. CASE CollectRaised
  BY <1>4
  DEF CollectRaised, store, sweepVars, daemonVars, vars
<1>5. CASE CollectEnd
  BY <1>5
  DEF CollectEnd, store, sweepVars, daemonVars, vars
<1>6. CASE Signal
  BY <1>6
  DEF Signal, store, sweepVars, daemonVars, vars
<1>7. CASE CancelFuture
  BY <1>7
  DEF CancelFuture, store, sweepVars, daemonVars, vars
<1>8. CASE CancelEnd
  BY <1>8
  DEF CancelEnd, store, sweepVars, daemonVars, vars
<1>9. CASE Drain
  BY <1>9
  DEF Drain, store, sweepVars, daemonVars, vars
<1>10. CASE Finish
  BY <1>10
  DEF Finish, FinishJob, store, sweepVars, daemonVars, vars
<1>11. CASE Announce
  BY <1>11
  DEF Announce, store, sweepVars, daemonVars, vars
<1>12. CASE Error
  BY <1>12
  DEF Error, FinishJob, store, sweepVars, daemonVars, vars
<1>13. CASE Submit
  BY <1>13, RecordedTasks
  DEF Submit, AfterSubmit, store, sweepVars, daemonVars, vars, RowsAhead
<1>14. CASE CollectAny
  BY <1>14, RecordedAppend, RecordedTasks
  DEF CollectAny, Collect, FinishTask, Better, store, sweepVars, daemonVars,
      vars
<1>15. ASSUME NEW t \in Tasks, Check(t)
      PROVE  RecordedSettled'
  BY <1>15
  DEF Check, store, sweepVars, daemonVars, vars
<1>16. ASSUME NEW t \in Tasks, SkipCancelled(t)
      PROVE  RecordedSettled'
  BY <1>16
  DEF SkipCancelled, FinishTask, store, sweepVars, daemonVars, vars
<1>17. ASSUME NEW t \in Tasks, ClaimWon(t)
      PROVE  RecordedSettled'
  BY <1>17
  DEF ClaimWon, ClaimTask, store, sweepVars, daemonVars, vars
<1>18. ASSUME NEW t \in Tasks, ClaimLost(t)
      PROVE  RecordedSettled'
  BY <1>18
  DEF ClaimLost, ClaimRefused, store, sweepVars, daemonVars, vars
<1>19. ASSUME NEW t \in Tasks, StartBuild(t)
      PROVE  RecordedSettled'
  BY <1>19
  DEF StartBuild, StartTask, store, sweepVars, daemonVars, vars
<1>20. ASSUME NEW t \in Tasks, EndBuild(t)
      PROVE  RecordedSettled'
  BY <1>20
  DEF EndBuild, store, sweepVars, daemonVars, vars
<1>21. ASSUME NEW t \in Tasks, ThreadFault(t)
      PROVE  RecordedSettled'
  BY <1>21
  DEF ThreadFault, Fault, store, sweepVars, daemonVars, vars
<1>22. ASSUME NEW t \in Tasks, Take(t) PROVE RecordedSettled'
  BY <1>22, RecordedTasks
  DEF Take, store, sweepVars, daemonVars, vars, QueueHead
<1>23. ASSUME NEW d \in Daemons, Poll(d)
      PROVE  RecordedSettled'
  BY <1>23
  DEF Poll, NextQueued, store, sweepVars, daemonVars, vars
<1>24. ASSUME NEW d \in Daemons, DaemonWon(d)
      PROVE  RecordedSettled'
  BY <1>24
  DEF DaemonWon, ClaimTask, store, sweepVars, daemonVars, vars
<1>25. ASSUME NEW d \in Daemons, DaemonLost(d)
      PROVE  RecordedSettled'
  BY <1>25
  DEF DaemonLost, ClaimRefused, store, sweepVars, daemonVars, vars
<1>26. ASSUME NEW d \in Daemons, Materialise(d)
      PROVE  RecordedSettled'
  BY <1>26
  DEF Materialise, store, sweepVars, daemonVars, vars
<1>27. ASSUME NEW d \in Daemons, BadCore(d)
      PROVE  RecordedSettled'
  BY <1>27
  DEF BadCore, FinishTask, store, sweepVars, daemonVars, vars
<1>28. ASSUME NEW d \in Daemons, DaemonBuild(d)
      PROVE  RecordedSettled'
  BY <1>28
  DEF DaemonBuild, FinishTask, store, sweepVars, daemonVars, vars
<1>29. ASSUME NEW d \in Daemons, Quit(d)
      PROVE  RecordedSettled'
  BY <1>29
  DEF Quit, store, sweepVars, daemonVars, vars
<1>30. ASSUME NEW d \in Daemons, DaemonDies(d)
      PROVE  RecordedSettled'
  BY <1>30
  DEF DaemonDies, Fault, store, sweepVars, daemonVars, vars
<1>31. CASE Cancel
  BY <1>31
  DEF Cancel, CancelJob, store, sweepVars, daemonVars, vars
<1>32. CASE StoreFault
  BY <1>32
  DEF StoreFault, Fault, store, sweepVars, daemonVars, vars
<1>33. CASE Over
  BY <1>33
  DEF Over, store, sweepVars, daemonVars, vars
<1>34. CASE Crash
  BY <1>34, RecordedTasks
  DEF Crash, Fault, store, sweepVars, daemonVars, vars
<1>35. CASE UNCHANGED vars
  BY <1>35
  DEF vars, store, sweepVars, daemonVars
<1> QED
  BY <1>1, <1>2, <1>3, <1>4, <1>5, <1>6, <1>7, <1>8, <1>9, <1>10, <1>11,
     <1>12, <1>13, <1>14, <1>15, <1>16, <1>17, <1>18, <1>19, <1>20, <1>21,
     <1>22, <1>23, <1>24, <1>25, <1>26, <1>27, <1>28, <1>29, <1>30, <1>31,
     <1>32, <1>33, <1>34, <1>35
  DEF Next, RunSweep, RunOne, WorkOn

\* The row of a collected seed is written by nobody but its owner, and the owner is through with it.
LEMMA RowHoldsStep ==
  ClaimInv /\ RecordedSettled /\ RecordedRowHolds /\ [Next]_vars => RecordedRowHolds'
<1> SUFFICES ASSUME ClaimInv, RecordedSettled, RecordedRowHolds, [Next]_vars
             PROVE  RecordedRowHolds'
  OBVIOUS
<1> USE DEF ClaimInv, SweepTypeOK, StoreTypeOK, RecordedRowHolds, RecordedSettled, Recorded
<1>1. CASE Create \/ Start \/ CollectRaised
  BY <1>1
  DEF Create, Start, CollectRaised, CreateJob, StartJob, AfterSubmit, store,
      sweepVars, daemonVars, vars
<1>2. CASE CollectEnd \/ Signal \/ CancelFuture
  BY <1>2
  DEF CollectEnd, Signal, CancelFuture, store, sweepVars, daemonVars, vars
<1>3. CASE CancelEnd \/ Drain \/ Finish
  BY <1>3
  DEF CancelEnd, Drain, Finish, FinishJob, store, sweepVars, daemonVars, vars
<1>4. CASE Announce \/ Error
  BY <1>4
  DEF Announce, Error, FinishJob, store, sweepVars, daemonVars, vars
<1>5. CASE Dispatch
  BY <1>5, RecordedTasks
  DEF Dispatch, CreateTask, store, sweepVars, daemonVars, vars, RowsAhead
<1>6. CASE Submit
  BY <1>6, RecordedTasks
  DEF Submit, AfterSubmit, store, sweepVars, daemonVars, vars
<1>7. CASE CollectAny
  BY <1>7, RecordedAppend, RecordedTasks
  DEF CollectAny, Collect, FinishTask, Better, store, sweepVars, daemonVars,
      vars
<1>8. ASSUME NEW t \in Tasks, Check(t) \/ ClaimLost(t) \/ ThreadFault(t)
      PROVE  RecordedRowHolds'
  BY <1>8
  DEF Check, ClaimLost, ThreadFault, ClaimRefused, Fault, store, sweepVars,
      daemonVars, vars
<1>9. ASSUME NEW t \in Tasks, Take(t) PROVE RecordedRowHolds'
  BY <1>9, RecordedTasks
  DEF Take, store, sweepVars, daemonVars, vars
<1>10. ASSUME NEW t \in Tasks, SkipCancelled(t) PROVE RecordedRowHolds'
  BY <1>10, RecordedTasks
  DEF SkipCancelled, FinishTask, store, sweepVars, daemonVars, vars
<1>11. ASSUME NEW t \in Tasks, ClaimWon(t) PROVE RecordedRowHolds'
  BY <1>11, RecordedTasks
  DEF ClaimWon, ClaimTask, store, sweepVars, daemonVars, vars
<1>12. ASSUME NEW t \in Tasks, StartBuild(t) PROVE RecordedRowHolds'
  BY <1>12, RecordedTasks
  DEF StartBuild, StartTask, store, sweepVars, daemonVars, vars
<1>13. ASSUME NEW t \in Tasks, EndBuild(t) PROVE RecordedRowHolds'
  BY <1>13, RecordedTasks
  DEF EndBuild, store, sweepVars, daemonVars, vars
<1>14. ASSUME NEW d \in Daemons, Poll(d) \/ DaemonLost(d) \/ Materialise(d)
      PROVE  RecordedRowHolds'
  BY <1>14
  DEF Poll, DaemonLost, Materialise, NextQueued, ClaimRefused, store,
      sweepVars, daemonVars, vars
<1>15. ASSUME NEW d \in Daemons, Quit(d) \/ DaemonDies(d)
      PROVE  RecordedRowHolds'
  BY <1>15
  DEF Quit, DaemonDies, Fault, store, sweepVars, daemonVars, vars
<1>16. ASSUME NEW d \in Daemons, DaemonWon(d) PROVE RecordedRowHolds'
  BY <1>16, RecordedTasks
  DEF DaemonWon, ClaimTask, store, sweepVars, daemonVars, vars, OwnersWork
<1>17. ASSUME NEW d \in Daemons, BadCore(d) PROVE RecordedRowHolds'
  BY <1>17, RecordedTasks
  DEF BadCore, FinishTask, store, sweepVars, daemonVars, vars, OwnersWork
<1>18. ASSUME NEW d \in Daemons, DaemonBuild(d) PROVE RecordedRowHolds'
  BY <1>18, RecordedTasks
  DEF DaemonBuild, FinishTask, store, sweepVars, daemonVars, vars, OwnersWork
<1>19. CASE StoreFault \/ Over
  BY <1>19
  DEF StoreFault, Over, Fault, store, sweepVars, daemonVars, vars
<1>20. CASE Cancel
  BY <1>20, RecordedTasks
  DEF Cancel, CancelJob, store, sweepVars, daemonVars, vars, OpenTask
<1>21. CASE Crash
  BY <1>21, RecordedTasks
  DEF Crash, Fault, store, sweepVars, daemonVars, vars
<1>22. CASE UNCHANGED vars
  BY <1>22
  DEF vars, store, sweepVars, daemonVars
<1> QED
  BY <1>1, <1>2, <1>3, <1>4, <1>5, <1>6, <1>7, <1>8, <1>9, <1>10, <1>11,
     <1>12, <1>13, <1>14, <1>15, <1>16, <1>17, <1>18, <1>19, <1>20, <1>21,
     <1>22
  DEF Next, RunSweep, RunOne, WorkOn

\* The fold over the results keeps the best passing seed.
LEMMA LeadStep ==
  SweepTypeOK /\ RecordedSettled /\ LeadInv /\ [Next]_vars => LeadInv'
<1> SUFFICES ASSUME SweepTypeOK, RecordedSettled, LeadInv, [Next]_vars
             PROVE  LeadInv'
  OBVIOUS
<1> USE DEF SweepTypeOK, StoreTypeOK, RecordedSettled, LeadInv, PassedTasks, Recorded
<1>1. CASE Create \/ Start \/ Dispatch
  BY <1>1
  DEF Create, Start, Dispatch, CreateJob, StartJob, AfterSubmit, CreateTask,
      store, sweepVars, daemonVars, vars
<1>2. CASE Submit \/ CollectRaised \/ CollectEnd
  BY <1>2
  DEF Submit, CollectRaised, CollectEnd, AfterSubmit, store, sweepVars,
      daemonVars, vars
<1>3. CASE Signal \/ CancelFuture \/ CancelEnd
  BY <1>3
  DEF Signal, CancelFuture, CancelEnd, store, sweepVars, daemonVars, vars
<1>4. CASE Drain \/ Finish \/ Announce
  BY <1>4
  DEF Drain, Finish, Announce, FinishJob, store, sweepVars, daemonVars, vars
<1>5. CASE Error
  BY <1>5
  DEF Error, FinishJob, store, sweepVars, daemonVars, vars
<1>6. CASE CollectAny
  <2> USE DEF CollectAny, Collect, sweepVars
  <2>1. PICK t \in Tasks : Collect(t)
    BY <1>6
  <2>2. Recorded' = Recorded \cup {t} /\ out' = out
    BY <2>1, RecordedAppend
  <2>3. \A u \in Tasks : out[u].ok \in BOOLEAN /\ out[u].score \in Int
    BY OutcomeFields
  <2>4. Recorded \subseteq Tasks
    BY RecordedTasks
  <2>5. CASE ~ out[t].ok
    <3>1. PassedTasks' = PassedTasks /\ lead' = lead
      BY <2>1, <2>2, <2>5 DEF Better
    <3> QED
      BY <3>1, <2>2
  <2>6. CASE out[t].ok
    <3>1. PassedTasks' = PassedTasks \cup {t}
      BY <2>1, <2>2, <2>6
    <3>2. CASE PassedTasks = {}
      <4>1. lead' = t
        BY <2>1, <2>6, <3>2 DEF Better
      <4> QED
        BY <3>1, <3>2, <4>1, <2>2, <2>3
    <3>3. CASE PassedTasks # {}
      <4>1. lead \in PassedTasks /\ lead \in Tasks /\ lead # NoTask
        BY <3>3, <2>4
      <4>2. lead' = IF out[t].score > out[lead].score THEN t ELSE lead
        BY <2>1, <2>6, <4>1 DEF Better
      <4>3. \A u \in PassedTasks : out[u].score <= out[lead].score
        BY <3>3
      <4>4. ASSUME NEW u \in PassedTasks'
            PROVE  out[u].score <= out[lead'].score
        <5>1. u \in Tasks /\ (u \in PassedTasks \/ u = t)
          BY <3>1, <2>4
        <5>2. u \in PassedTasks => out[u].score <= out[lead].score
          BY <4>3
        <5>3. /\ out[u].score \in Int
              /\ out[t].score \in Int
              /\ out[lead].score \in Int
          BY <5>1, <4>1, <2>3
        <5> QED
          BY <5>1, <5>2, <5>3, <4>2
      <4> QED
        BY <3>1, <4>1, <4>2, <4>4, <2>2
    <3> QED
      BY <3>2, <3>3
  <2> QED
    BY <2>5, <2>6
<1>7. ASSUME NEW t \in Tasks, Take(t) \/ Check(t) \/ SkipCancelled(t)
      PROVE  LeadInv'
  BY <1>7
  DEF Take, Check, SkipCancelled, FinishTask, store, sweepVars, daemonVars,
      vars
<1>8. ASSUME NEW t \in Tasks, ClaimWon(t) \/ ClaimLost(t) \/ StartBuild(t)
      PROVE  LeadInv'
  BY <1>8
  DEF ClaimWon, ClaimLost, StartBuild, ClaimTask, ClaimRefused, StartTask,
      store, sweepVars, daemonVars, vars
<1>9. ASSUME NEW t \in Tasks, ThreadFault(t)
      PROVE  LeadInv'
  BY <1>9
  DEF ThreadFault, Fault, store, sweepVars, daemonVars, vars
<1>10. ASSUME NEW t \in Tasks, EndBuild(t) PROVE LeadInv'
  BY <1>10, RecordedTasks
  DEF EndBuild, store, sweepVars, daemonVars, vars
<1>11. ASSUME NEW d \in Daemons, Poll(d) \/ DaemonWon(d) \/ DaemonLost(d)
      PROVE  LeadInv'
  BY <1>11
  DEF Poll, DaemonWon, DaemonLost, NextQueued, ClaimTask, ClaimRefused, store,
      sweepVars, daemonVars, vars
<1>12. ASSUME NEW d \in Daemons, Materialise(d) \/ BadCore(d) \/ DaemonBuild(d)
      PROVE  LeadInv'
  BY <1>12
  DEF Materialise, BadCore, DaemonBuild, FinishTask, store, sweepVars,
      daemonVars, vars
<1>13. ASSUME NEW d \in Daemons, Quit(d) \/ DaemonDies(d)
      PROVE  LeadInv'
  BY <1>13
  DEF Quit, DaemonDies, Fault, store, sweepVars, daemonVars, vars
<1>14. CASE Cancel \/ StoreFault \/ Crash
  BY <1>14
  DEF Cancel, StoreFault, Crash, CancelJob, Fault, store, sweepVars,
      daemonVars, vars
<1>15. CASE Over
  BY <1>15
  DEF Over, store, sweepVars, daemonVars, vars
<1>16. CASE UNCHANGED vars
  BY <1>16
  DEF vars, store, sweepVars, daemonVars
<1> QED
  BY <1>1, <1>2, <1>3, <1>4, <1>5, <1>6, <1>7, <1>8, <1>9, <1>10, <1>11,
     <1>12, <1>13, <1>14, <1>15, <1>16
  DEF Next, RunSweep, RunOne, WorkOn

\* Nothing but the handler of an exception rewrites a verdict.
LEMMA VerdictStep ==
  SweepTypeOK /\ VerdictInv /\ [Next]_vars => VerdictInv'
<1> SUFFICES ASSUME SweepTypeOK, VerdictInv, [Next]_vars
             PROVE  VerdictInv'
  OBVIOUS
<1> USE DEF SweepTypeOK, StoreTypeOK, VerdictInv
<1>1. CASE Create \/ Start \/ Dispatch
  BY <1>1
  DEF Create, Start, Dispatch, CreateJob, StartJob, AfterSubmit, CreateTask,
      store, sweepVars, daemonVars, vars
<1>2. CASE Submit \/ CollectAny \/ CollectRaised
  BY <1>2
  DEF Submit, CollectAny, CollectRaised, AfterSubmit, Collect, FinishTask,
      Better, store, sweepVars, daemonVars, vars
<1>3. CASE CollectEnd \/ Signal \/ CancelFuture
  BY <1>3
  DEF CollectEnd, Signal, CancelFuture, store, sweepVars, daemonVars, vars
<1>4. CASE CancelEnd \/ Drain \/ Finish
  BY <1>4
  DEF CancelEnd, Drain, Finish, FinishJob, store, sweepVars, daemonVars, vars
<1>5. CASE Announce \/ Error
  BY <1>5
  DEF Announce, Error, FinishJob, store, sweepVars, daemonVars, vars
<1>6. ASSUME NEW t \in Tasks, Take(t) \/ Check(t) \/ SkipCancelled(t)
      PROVE  VerdictInv'
  BY <1>6
  DEF Take, Check, SkipCancelled, FinishTask, store, sweepVars, daemonVars,
      vars
<1>7. ASSUME NEW t \in Tasks, ClaimWon(t) \/ ClaimLost(t) \/ StartBuild(t)
      PROVE  VerdictInv'
  BY <1>7
  DEF ClaimWon, ClaimLost, StartBuild, ClaimTask, ClaimRefused, StartTask,
      store, sweepVars, daemonVars, vars
<1>8. ASSUME NEW t \in Tasks, EndBuild(t) \/ ThreadFault(t)
      PROVE  VerdictInv'
  BY <1>8
  DEF EndBuild, ThreadFault, Fault, store, sweepVars, daemonVars, vars
<1>9. ASSUME NEW d \in Daemons, Poll(d) \/ DaemonWon(d) \/ DaemonLost(d)
      PROVE  VerdictInv'
  BY <1>9
  DEF Poll, DaemonWon, DaemonLost, NextQueued, ClaimTask, ClaimRefused, store,
      sweepVars, daemonVars, vars
<1>10. ASSUME NEW d \in Daemons, Materialise(d) \/ BadCore(d) \/ DaemonBuild(d)
      PROVE  VerdictInv'
  BY <1>10
  DEF Materialise, BadCore, DaemonBuild, FinishTask, store, sweepVars,
      daemonVars, vars
<1>11. ASSUME NEW d \in Daemons, Quit(d) \/ DaemonDies(d)
      PROVE  VerdictInv'
  BY <1>11
  DEF Quit, DaemonDies, Fault, store, sweepVars, daemonVars, vars
<1>12. CASE StoreFault \/ Crash \/ Over
  BY <1>12
  DEF StoreFault, Crash, Over, Fault, store, sweepVars, daemonVars, vars
<1>13. CASE Cancel
  BY <1>13
  DEF Cancel, CancelJob, store, sweepVars, daemonVars, vars, OpenJob
<1>14. CASE UNCHANGED vars
  BY <1>14
  DEF vars, store, sweepVars, daemonVars
<1> QED
  BY <1>1, <1>2, <1>3, <1>4, <1>5, <1>6, <1>7, <1>8, <1>9, <1>10, <1>11,
     <1>12, <1>13, <1>14
  DEF Next, RunSweep, RunOne, WorkOn

LEMMA SweepInvInit == Init => SweepInv
<1> SUFFICES ASSUME Init PROVE SweepInv
  OBVIOUS
<1>1. SweepTypeOK
  BY TypeInit
<1>2. FreeRows /\ RowsAhead
  BY DEF Init, StoreInit, FreeRows, RowsAhead
<1>3. RowsExist /\ OwnersWork /\ VerdictInv
  BY DEF Init, StoreInit, RowsExist, OwnersWork, VerdictInv, Waiting, Stages
<1>4. Recorded = {} /\ lead = NoTask
  BY DEF Init, Recorded, ToSet
<1>5. RecordedSettled /\ RecordedRowHolds /\ LeadInv
  BY <1>4 DEF RecordedSettled, RecordedRowHolds, LeadInv, PassedTasks
<1> QED
  BY <1>1, <1>2, <1>3, <1>5 DEF SweepInv, ClaimInv

LEMMA SweepInvStep == SweepInv /\ [Next]_vars => SweepInv'
BY TypeStep, FreeStep, AheadStep, ExistStep, OwnersStep, RecordedStep,
   RowHoldsStep, LeadStep, VerdictStep
DEF SweepInv, ClaimInv

\* Type correctness of the store, the scheduler, its pool and the daemons.
THEOREM TypeCorrect == Spec => []SweepTypeOK
<1>1. SweepInv => SweepTypeOK
  BY DEF SweepInv, ClaimInv
<1> QED
  BY <1>1, SweepInvInit, SweepInvStep, PTL DEF Spec

\* No seed is built by two workers, and whoever builds it owns its row, with
\* any number of threads, daemons, cancellations, faults and crashes.
THEOREM BuildsExclusive == Spec => []OneBuilder
<1>1. SweepInv => OneBuilder
  BY DEF SweepInv, ClaimInv, OwnersWork, OneBuilder, Builders
<1> QED
  BY <1>1, SweepInvInit, SweepInvStep, PTL DEF Spec

\* The row of a collected seed keeps what its build said.
THEOREM RowsKeepOutcomes == Spec => []RecordedRowHolds
<1>1. SweepInv => RecordedRowHolds
  BY DEF SweepInv
<1> QED
  BY <1>1, SweepInvInit, SweepInvStep, PTL DEF Spec

\* The job row names a best passing seed, in every order of arrival.
THEOREM VerdictCorrect == Spec => []VerdictSound
<1>1. SweepInv => VerdictSound
  <2> SUFFICES ASSUME SweepInv, pc \in {"announce", "done"}
               PROVE  IF PassedTasks = {}
                      THEN job = "failed" /\ best = NoTask
                      ELSE /\ job = "passed"
                           /\ best \in PassedTasks
                           /\ \A t \in PassedTasks : out[t].score <= out[best].score
    BY DEF VerdictSound
  <2>1. PassedTasks \subseteq Tasks
    BY RecordedTasks DEF SweepInv, ClaimInv, PassedTasks
  <2>2. best = lead /\ job = IF lead = NoTask THEN "failed" ELSE "passed"
    BY DEF SweepInv, VerdictInv
  <2> QED
    BY <2>1, <2>2 DEF SweepInv, LeadInv
<1> QED
  BY <1>1, SweepInvInit, SweepInvStep, PTL DEF Spec

\* Only the collector adds to the results, and only a running build gets an outcome.
LEMMA ResultsStay ==
  ASSUME [Next]_vars, ~ CollectAny
  PROVE  /\ results' = results /\ lead' = lead
         /\ \/ out' = out
            \/ \E t \in Tasks, o \in Outcome : fut[t] = "building" /\ out' = [out EXCEPT ![t] = o]
<1> USE DEF sweepVars, vars
<1>1. CASE RunSweep
  BY <1>1
  DEF RunSweep, Create, Start, Dispatch, Submit, CollectRaised, CollectEnd, Signal, CancelFuture,
      CancelEnd, Drain, Finish, Announce, Error
<1>2. ASSUME NEW t \in Tasks, RunOne(t) \/ ThreadFault(t)
      PROVE  /\ results' = results /\ lead' = lead
             /\ \/ out' = out
                \/ \E u \in Tasks, o \in Outcome : fut[u] = "building" /\ out' = [out EXCEPT ![u] = o]
  <2>1. CASE EndBuild(t)
    BY <2>1 DEF EndBuild
  <2>2. CASE ~ EndBuild(t)
    BY <1>2, <2>2
    DEF RunOne, Take, Check, SkipCancelled, ClaimWon, ClaimLost, StartBuild, ThreadFault
  <2> QED
    BY <2>1, <2>2
<1>3. ASSUME NEW d \in Daemons, Poll(d) \/ WorkOn(d) \/ Quit(d) \/ DaemonDies(d)
      PROVE  results' = results /\ lead' = lead /\ out' = out
  BY <1>3 DEF Poll, WorkOn, DaemonWon, DaemonLost, Materialise, BadCore, DaemonBuild, Quit, DaemonDies
<1>4. CASE Cancel \/ StoreFault \/ Crash \/ Over
  BY <1>4 DEF Cancel, StoreFault, Crash, Over
<1>5. CASE UNCHANGED vars
  BY <1>5
<1> QED
  BY <1>1, <1>2, <1>3, <1>4, <1>5 DEF Next

\* Ties go to the seed that arrived first.
LEMMA FirstStep ==
  SweepTypeOK /\ RecordedSettled /\ LeadFirst /\ [Next]_vars => LeadFirst'
<1> SUFFICES ASSUME SweepTypeOK, RecordedSettled, LeadFirst, [Next]_vars PROVE LeadFirst'
  OBVIOUS
<1>1. /\ results \in Seq(Tasks) /\ DOMAIN results = 1..Len(results) /\ Len(results) \in Nat
      /\ (\A j \in DOMAIN results : results[j] \in Tasks) /\ out \in [Tasks -> Outcome]
      /\ lead \in Tasks \cup {NoTask}
  BY DEF SweepTypeOK
<1>2. \A t \in Tasks : out[t].ok \in BOOLEAN /\ out[t].score \in Int
  BY <1>1, OutcomeFields
<1>3. CASE CollectAny
  <2>1. PICK t \in Tasks : Collect(t)
    BY <1>3 DEF CollectAny
  <2> DEFINE n == Len(results) + 1
  <2>2. /\ results' = Append(results, t) /\ out' = out
        /\ lead' = IF out[t].ok /\ (lead = NoTask \/ out[t].score > out[lead].score) THEN t ELSE lead
    BY <2>1 DEF Collect, Better
  <2>3. /\ DOMAIN results' = 1..n /\ results'[n] = t /\ n \in 1..n
        /\ \A j \in DOMAIN results : results'[j] = results[j] /\ j \in 1..n /\ j <= n
        /\ \A j \in 1..n : j = n \/ j \in DOMAIN results
    BY <1>1, <2>2
  <2>4. t # NoTask
    OBVIOUS
  <2> HIDE DEF n
  <2>5. CASE lead = NoTask
    <3>1. \A j \in DOMAIN results : ~ out[results[j]].ok
      BY <2>5 DEF LeadFirst
    <3>2. CASE ~ out[t].ok
      BY <2>2, <2>3, <2>5, <3>1, <3>2 DEF LeadFirst
    <3>3. CASE out[t].ok
      <4>1. lead' = t /\ \A j \in 1..n : out'[results'[j]].ok => j = n
        BY <2>2, <2>3, <2>5, <3>1, <3>3
      <4>2. n <= n /\ out'[t].ok /\ n \in DOMAIN results' /\ results'[n] = t
        BY <1>1, <2>2, <2>3, <3>3 DEF n
      <4> QED
        BY <2>3, <2>4, <4>1, <4>2 DEF LeadFirst
    <3> QED
      BY <3>2, <3>3
  <2>6. CASE lead # NoTask
    <3>1. PICK i \in DOMAIN results :
            /\ results[i] = lead /\ out[lead].ok
            /\ \A j \in DOMAIN results : out[results[j]].ok =>
                 \/ out[results[j]].score < out[lead].score
                 \/ out[results[j]].score = out[lead].score /\ i <= j
      BY <2>6 DEF LeadFirst
    <3>2. out[lead].score \in Int /\ out[t].score \in Int
      BY <1>1, <1>2, <2>6
    <3>3. CASE out[t].ok /\ out[t].score > out[lead].score
      <4>1. lead' = t
        BY <2>2, <3>3
      <4>2. ASSUME NEW j \in DOMAIN results, out[results[j]].ok PROVE out[results[j]].score < out[t].score
        <5>1. out[results[j]].score \in Int
          BY <1>1, <1>2
        <5>2. out[results[j]].score <= out[lead].score
          BY <3>1, <3>2, <4>2, <5>1
        <5> QED
          BY <3>2, <3>3, <5>1, <5>2
      <4>3. /\ results'[n] = lead' /\ out'[lead'].ok /\ n \in DOMAIN results'
            /\ \A j \in DOMAIN results' : out'[results'[j]].ok =>
                 \/ out'[results'[j]].score < out'[lead'].score
                 \/ out'[results'[j]].score = out'[lead'].score /\ n <= j
        <5>1. n <= n
          BY <1>1 DEF n
        <5> QED
          BY <2>2, <2>3, <3>3, <4>1, <4>2, <5>1
      <4> QED
        BY <2>4, <4>1, <4>3 DEF LeadFirst
    <3>4. CASE ~ (out[t].ok /\ out[t].score > out[lead].score)
      <4>1. lead' = lead
        BY <2>2, <2>6, <3>4
      <4>2. out[t].ok => out[t].score < out[lead].score \/ out[t].score = out[lead].score
        BY <3>2, <3>4
      <4>3. /\ results'[i] = lead' /\ out'[lead'].ok /\ i \in DOMAIN results'
            /\ \A j \in DOMAIN results' : out'[results'[j]].ok =>
                 \/ out'[results'[j]].score < out'[lead'].score
                 \/ out'[results'[j]].score = out'[lead'].score /\ i <= j
        BY <2>2, <2>3, <3>1, <4>1, <4>2
      <4> QED
        BY <2>6, <4>1, <4>3 DEF LeadFirst
    <3> QED
      BY <3>3, <3>4
  <2> QED
    BY <2>5, <2>6
<1>4. CASE ~ CollectAny
  <2>1. results' = results /\ lead' = lead
    BY <1>4, ResultsStay
  <2>2. \A j \in DOMAIN results : out'[results[j]] = out[results[j]]
    <3>1. CASE out' = out
      BY <3>1
    <3>2. ASSUME NEW t \in Tasks, NEW o \in Outcome, fut[t] = "building", out' = [out EXCEPT ![t] = o]
          PROVE  \A j \in DOMAIN results : out'[results[j]] = out[results[j]]
      <4>1. \A j \in DOMAIN results : results[j] # t
        BY <3>2 DEF RecordedSettled, Recorded, ToSet
      <4> QED
        BY <1>1, <3>2, <4>1
    <3> QED
      BY <1>4, <3>1, <3>2, ResultsStay
  <2>3. CASE lead = NoTask
    BY <2>1, <2>2, <2>3 DEF LeadFirst
  <2>4. CASE lead # NoTask
    <3>1. PICK i \in DOMAIN results :
            /\ results[i] = lead /\ out[lead].ok
            /\ \A j \in DOMAIN results : out[results[j]].ok =>
                 \/ out[results[j]].score < out[lead].score
                 \/ out[results[j]].score = out[lead].score /\ i <= j
      BY <2>4 DEF LeadFirst
    <3>2. out'[lead] = out[lead]
      BY <2>2, <3>1
    <3> QED
      BY <2>1, <2>2, <2>4, <3>1, <3>2 DEF LeadFirst
  <2> QED
    BY <2>3, <2>4
<1> QED
  BY <1>3, <1>4

\* The summary printed to the user names the best seed of the job row, ties included.
THEOREM SummaryCorrect == Spec => []SummaryAgrees
<1>1. Init => LeadFirst
  BY DEF Init, LeadFirst
<1>2. ASSUME SweepTypeOK, LeadFirst PROVE SummaryAgrees
  <2>1. /\ DOMAIN results \subseteq Nat /\ (\A j \in DOMAIN results : results[j] \in Tasks)
        /\ out \in [Tasks -> Outcome] /\ lead \in Tasks \cup {NoTask}
    BY <1>2 DEF SweepTypeOK
  <2>2. \A j \in DOMAIN results :
          /\ out[results[j]].score \in Int /\ out[results[j]].score >= NegInf
          /\ ~ out[results[j]].ok => out[results[j]].score = NegInf
    BY <2>1, ScoresAre
  <2> DEFINE first(i) == \A j \in DOMAIN results :
                           \/ out[results[j]].score < out[results[i]].score
                           \/ out[results[j]].score = out[results[i]].score /\ i <= j
             top == {results[i] : i \in {k \in DOMAIN results : first(k)}}
  <2>3. SummaryBest = {t \in top : out[t].score # NegInf}
    BY DEF SummaryBest
  <2>4. CASE lead = NoTask
    <3>1. \A j \in DOMAIN results : ~ out[results[j]].ok
      BY <1>2, <2>4 DEF LeadFirst
    <3>2. \A j \in DOMAIN results : out[results[j]].score = NegInf
      BY <2>2, <3>1
    <3> QED
      BY <2>3, <2>4, <3>2 DEF SummaryAgrees
  <2>5. CASE lead # NoTask
    <3>1. PICK i \in DOMAIN results :
            /\ results[i] = lead /\ out[lead].ok
            /\ \A j \in DOMAIN results : out[results[j]].ok =>
                 \/ out[results[j]].score < out[lead].score
                 \/ out[results[j]].score = out[lead].score /\ i <= j
      BY <1>2, <2>5 DEF LeadFirst
    <3>2. CASE out[lead].score = NegInf
      <4>1. \A j \in DOMAIN results : out[results[j]].score = NegInf
        <5> SUFFICES ASSUME NEW j \in DOMAIN results PROVE out[results[j]].score = NegInf
          OBVIOUS
        <5>1. CASE ~ out[results[j]].ok
          BY <2>2, <5>1
        <5>2. CASE out[results[j]].ok
          <6>1. \/ out[results[j]].score < out[lead].score
                \/ out[results[j]].score = out[lead].score
            BY <3>1, <5>2
          <6>2. out[results[j]].score \in Int /\ out[results[j]].score >= NegInf
            BY <2>2
          <6> QED
            BY <3>2, <6>1, <6>2 DEF NegInf
        <5> QED
          BY <5>1, <5>2
      <4> QED
        BY <2>3, <3>2, <4>1 DEF SummaryAgrees
    <3>3. CASE out[lead].score # NegInf
      <4>1. first(i)
        <5> SUFFICES ASSUME NEW j \in DOMAIN results
                     PROVE  \/ out[results[j]].score < out[lead].score
                            \/ out[results[j]].score = out[lead].score /\ i <= j
          BY <3>1
        <5>1. CASE out[results[j]].ok
          BY <3>1, <5>1
        <5>2. CASE ~ out[results[j]].ok
          <6>1. out[results[j]].score = NegInf
            BY <2>2, <5>2
          <6>2. out[lead].score \in Int /\ out[lead].score >= NegInf
            BY <2>2, <3>1
          <6> QED
            BY <3>3, <6>1, <6>2 DEF NegInf
        <5> QED
          BY <5>1, <5>2
      <4>2. ASSUME NEW k \in DOMAIN results, first(k) PROVE k = i
        <5>1. \/ out[results[k]].score < out[results[i]].score
              \/ out[results[k]].score = out[results[i]].score /\ i <= k
          BY <4>1
        <5>2. \/ out[results[i]].score < out[results[k]].score
              \/ out[results[i]].score = out[results[k]].score /\ k <= i
          BY <4>2
        <5>3. i \in Nat /\ k \in Nat /\ out[results[i]].score \in Int /\ out[results[k]].score \in Int
          BY <2>1, <2>2
        <5> QED
          BY <5>1, <5>2, <5>3
      <4>3. {k \in DOMAIN results : first(k)} = {i}
        <5> HIDE DEF first
        <5> QED
          BY <4>1, <4>2
      <4>4. top = {lead}
        <5> HIDE DEF first
        <5> QED
          BY <3>1, <4>3
      <4> HIDE DEF top
      <4> QED
        BY <2>3, <2>5, <3>3, <4>4 DEF SummaryAgrees
    <3> QED
      BY <3>2, <3>3
  <2> QED
    BY <2>4, <2>5
<1>3. SweepInv => SweepTypeOK /\ RecordedSettled
  BY DEF SweepInv, ClaimInv
<1> QED
  BY <1>1, <1>2, <1>3, SweepInvInit, SweepInvStep, FirstStep, PTL DEF Spec

\* A recorded row is touched by FinishTask alone, and the collector is left early
\* only with the flag set.
LEMMA ClosedStep ==
  ClaimInv /\ RecordedSettled /\ RecordedClosed /\ [Next]_vars => RecordedClosed'
<1> SUFFICES ASSUME ClaimInv, RecordedSettled, RecordedClosed, [Next]_vars
             PROVE  RecordedClosed'
  OBVIOUS
<1> USE DEF ClaimInv, SweepTypeOK, StoreTypeOK, RecordedClosed, RecordedSettled, Recorded,
        ClosedTask
<1>1. CASE Create \/ Start
  BY <1>1, RecordedTasks
  DEF Create, Start, CreateJob, StartJob, AfterSubmit, store, sweepVars, daemonVars
<1>2. CASE CollectRaised \/ CollectEnd \/ Signal
  BY <1>2, RecordedTasks
  DEF CollectRaised, CollectEnd, Signal, store, sweepVars, daemonVars
<1>3. CASE CancelFuture \/ CancelEnd \/ Drain
  BY <1>3, RecordedTasks
  DEF CancelFuture, CancelEnd, Drain, store, sweepVars, daemonVars
<1>4. CASE Finish \/ Announce \/ Error
  BY <1>4, RecordedTasks
  DEF Finish, Announce, Error, FinishJob, store, sweepVars, daemonVars
<1>5. CASE Dispatch
  BY <1>5, RecordedTasks
  DEF Dispatch, CreateTask, RowsAhead, TaskStatus, store, sweepVars, daemonVars
<1>6. CASE Submit
  BY <1>6, RecordedTasks
  DEF Submit, AfterSubmit, RowsAhead, store, sweepVars, daemonVars
<1>7. CASE CollectAny
  BY <1>7, RecordedTasks, RecordedAppend
  DEF CollectAny, Collect, FinishTask, Better, store, sweepVars, daemonVars
<1>8. ASSUME NEW t \in Tasks, Take(t) PROVE RecordedClosed'
  BY <1>8, RecordedTasks, StoreAssumption
  DEF Take, QueueHead, store, sweepVars, daemonVars
<1>9. ASSUME NEW t \in Tasks, Check(t) \/ ThreadFault(t) PROVE RecordedClosed'
  BY <1>9, RecordedTasks, StoreAssumption
  DEF Check, ThreadFault, Fault, store, sweepVars, daemonVars
<1>10. ASSUME NEW t \in Tasks, SkipCancelled(t) PROVE RecordedClosed'
  BY <1>10, RecordedTasks, StoreAssumption
  DEF SkipCancelled, FinishTask, store, sweepVars, daemonVars
<1>11. ASSUME NEW t \in Tasks, ClaimWon(t) PROVE RecordedClosed'
  BY <1>11, RecordedTasks, StoreAssumption
  DEF ClaimWon, ClaimTask, store, sweepVars, daemonVars
<1>12. ASSUME NEW t \in Tasks, ClaimLost(t) PROVE RecordedClosed'
  BY <1>12, RecordedTasks, StoreAssumption
  DEF ClaimLost, ClaimRefused, RowsExist, TaskStatus, store, sweepVars, daemonVars
<1>13. ASSUME NEW t \in Tasks, StartBuild(t) \/ EndBuild(t) PROVE RecordedClosed'
  BY <1>13, RecordedTasks, StoreAssumption
  DEF StartBuild, EndBuild, StartTask, OwnersWork, store, sweepVars, daemonVars
<1>14. ASSUME NEW d \in Daemons, Poll(d) \/ DaemonLost(d) \/ Materialise(d) PROVE RecordedClosed'
  BY <1>14, RecordedTasks, StoreAssumption
  DEF Poll, DaemonLost, Materialise, ClaimRefused, store, sweepVars, daemonVars
<1>15. ASSUME NEW d \in Daemons, DaemonWon(d) PROVE RecordedClosed'
  BY <1>15, RecordedTasks, StoreAssumption
  DEF DaemonWon, ClaimTask, OwnersWork, store, sweepVars, daemonVars
<1>16. ASSUME NEW d \in Daemons, BadCore(d) \/ DaemonBuild(d) PROVE RecordedClosed'
  BY <1>16, RecordedTasks, StoreAssumption
  DEF BadCore, DaemonBuild, FinishTask, OwnersWork, store, sweepVars, daemonVars
<1>17. ASSUME NEW d \in Daemons, Quit(d) \/ DaemonDies(d) PROVE RecordedClosed'
  BY <1>17, RecordedTasks, StoreAssumption
  DEF Quit, DaemonDies, Fault, store, sweepVars, daemonVars
<1>18. CASE Cancel
  BY <1>18, RecordedTasks
  DEF Cancel, CancelJob, OpenTask, store, sweepVars, daemonVars
<1>19. CASE StoreFault \/ Over
  BY <1>19, RecordedTasks
  DEF StoreFault, Over, Fault, store, sweepVars, daemonVars, vars
<1>20. CASE Crash
  BY <1>20, RecordedTasks
  DEF Crash, Fault, store, sweepVars, daemonVars
<1>21. CASE UNCHANGED vars
  BY <1>21, RecordedTasks
  DEF vars, store, sweepVars, daemonVars
<1> QED
  BY <1>1, <1>2, <1>3, <1>4, <1>5, <1>6, <1>7, <1>8, <1>9, <1>10, <1>11, <1>12,
     <1>13, <1>14, <1>15, <1>16, <1>17, <1>18, <1>19, <1>20, <1>21
  DEF Next, RunSweep, RunOne, WorkOn

\* A row gets an owner when it is claimed and stays with it.
LEMMA OwnedStep ==
  ClaimInv /\ RecordedSettled /\ OpenOwned /\ [Next]_vars => OpenOwned'
<1> SUFFICES ASSUME ClaimInv, RecordedSettled, OpenOwned, [Next]_vars
             PROVE  OpenOwned'
  OBVIOUS
<1> USE DEF ClaimInv, SweepTypeOK, StoreTypeOK, OpenOwned, FreeRows, ClosedTask, Waiting, Stages
<1>1. CASE Create \/ Start
  BY <1>1, RecordedTasks
  DEF Create, Start, CreateJob, StartJob, AfterSubmit, store, sweepVars, daemonVars
<1>2. CASE CollectRaised \/ CollectEnd \/ Signal
  BY <1>2, RecordedTasks
  DEF CollectRaised, CollectEnd, Signal, store, sweepVars, daemonVars
<1>3. CASE CancelFuture \/ CancelEnd \/ Drain
  BY <1>3, RecordedTasks
  DEF CancelFuture, CancelEnd, Drain, store, sweepVars, daemonVars
<1>4. CASE Finish \/ Announce \/ Error
  BY <1>4, RecordedTasks
  DEF Finish, Announce, Error, FinishJob, store, sweepVars, daemonVars
<1>5. CASE Dispatch
  BY <1>5, RecordedTasks
  DEF Dispatch, CreateTask, RowsAhead, TaskStatus, store, sweepVars, daemonVars
<1>6. CASE Submit
  BY <1>6, RecordedTasks
  DEF Submit, AfterSubmit, RowsAhead, store, sweepVars, daemonVars
<1>7. CASE CollectAny
  BY <1>7, RecordedTasks, RecordedAppend
  DEF CollectAny, Collect, FinishTask, Better, store, sweepVars, daemonVars
<1>8. ASSUME NEW t \in Tasks, Take(t) PROVE OpenOwned'
  BY <1>8, RecordedTasks, StoreAssumption
  DEF Take, QueueHead, store, sweepVars, daemonVars
<1>9. ASSUME NEW t \in Tasks, Check(t) \/ ThreadFault(t) PROVE OpenOwned'
  BY <1>9, RecordedTasks, StoreAssumption
  DEF Check, ThreadFault, Fault, store, sweepVars, daemonVars
<1>10. ASSUME NEW t \in Tasks, SkipCancelled(t) PROVE OpenOwned'
  BY <1>10, RecordedTasks, StoreAssumption
  DEF SkipCancelled, FinishTask, store, sweepVars, daemonVars
<1>11. ASSUME NEW t \in Tasks, ClaimWon(t) PROVE OpenOwned'
  BY <1>11, RecordedTasks, StoreAssumption
  DEF ClaimWon, ClaimTask, store, sweepVars, daemonVars
<1>12. ASSUME NEW t \in Tasks, ClaimLost(t) PROVE OpenOwned'
  BY <1>12, RecordedTasks, StoreAssumption
  DEF ClaimLost, ClaimRefused, RowsExist, TaskStatus, store, sweepVars, daemonVars
<1>13. ASSUME NEW t \in Tasks, StartBuild(t) \/ EndBuild(t) PROVE OpenOwned'
  BY <1>13, RecordedTasks, StoreAssumption
  DEF StartBuild, EndBuild, StartTask, OwnersWork, store, sweepVars, daemonVars
<1>14. ASSUME NEW d \in Daemons, Poll(d) \/ DaemonLost(d) \/ Materialise(d) PROVE OpenOwned'
  BY <1>14, RecordedTasks, StoreAssumption
  DEF Poll, DaemonLost, Materialise, ClaimRefused, store, sweepVars, daemonVars
<1>15. ASSUME NEW d \in Daemons, DaemonWon(d) PROVE OpenOwned'
  BY <1>15, RecordedTasks, StoreAssumption
  DEF DaemonWon, ClaimTask, OwnersWork, store, sweepVars, daemonVars
<1>16. ASSUME NEW d \in Daemons, BadCore(d) \/ DaemonBuild(d) PROVE OpenOwned'
  BY <1>16, RecordedTasks, StoreAssumption
  DEF BadCore, DaemonBuild, FinishTask, OwnersWork, store, sweepVars, daemonVars
<1>17. ASSUME NEW d \in Daemons, Quit(d) \/ DaemonDies(d) PROVE OpenOwned'
  BY <1>17, RecordedTasks, StoreAssumption
  DEF Quit, DaemonDies, Fault, store, sweepVars, daemonVars
<1>18. CASE Cancel
  BY <1>18, RecordedTasks
  DEF Cancel, CancelJob, OpenTask, store, sweepVars, daemonVars
<1>19. CASE StoreFault \/ Over
  BY <1>19, RecordedTasks
  DEF StoreFault, Over, Fault, store, sweepVars, daemonVars, vars
<1>20. CASE Crash
  BY <1>20, RecordedTasks
  DEF Crash, Fault, store, sweepVars, daemonVars
<1>21. CASE UNCHANGED vars
  BY <1>21, RecordedTasks
  DEF vars, store, sweepVars, daemonVars
<1> QED
  BY <1>1, <1>2, <1>3, <1>4, <1>5, <1>6, <1>7, <1>8, <1>9, <1>10, <1>11, <1>12,
     <1>13, <1>14, <1>15, <1>16, <1>17, <1>18, <1>19, <1>20, <1>21
  DEF Next, RunSweep, RunOne, WorkOn

\* A sweep leaves no recorded row open, and no row at all without an early exit; what is
\* open besides belongs to a daemon, to a straggler of the pool, or to nobody yet.
THEOREM LeftOpenIsExplained == Spec => []LeftOpenExplained
<1>1. Init => SweepInv /\ LeftInv
  <2>1. Init => LeftInv
    BY StoreAssumption
    DEF Init, StoreInit, LeftInv, RecordedClosed, OpenOwned, Recorded, ToSet
  <2> QED
    BY <2>1, SweepInvInit
<1>2. SweepInv /\ LeftInv /\ [Next]_vars => SweepInv' /\ LeftInv'
  BY SweepInvStep, ClosedStep, OwnedStep DEF SweepInv, LeftInv
<1>3. SweepInv /\ LeftInv => LeftOpenExplained
  <2> SUFFICES ASSUME SweepInv, LeftInv PROVE LeftOpenExplained
    OBVIOUS
  <2>1. ASSUME NEW t \in LeftOpen
        PROVE  /\ t \notin Recorded
               /\ \/ holder[t] \in Daemons
                  \/ holder[t] = Inline /\ fut[t] \in {"done", "raised"}
                  \/ holder[t] = Nobody /\ fut[t] \in {"notified", "raised"}
    <3>1. t \in Tasks /\ fut[t] \in Settled /\ row[t] \notin ClosedTask
      BY <2>1 DEF LeftOpen
    <3>2. holder[t] \in Daemons \cup {Inline} \cup {Nobody}
      BY <3>1 DEF SweepInv, ClaimInv, SweepTypeOK, StoreTypeOK
    <3> QED
      BY <3>1, <3>2 DEF LeftInv, RecordedClosed, OpenOwned, Settled
  <2>2. ~ flag /\ pc \in {"finish", "announce", "done"} => LeftOpen = {}
    BY DEF LeftInv, RecordedClosed, LeftOpen
  <2> QED
    BY <2>1, <2>2 DEF LeftOpenExplained
<1> QED
  BY <1>1, <1>2, <1>3, PTL DEF Spec

\* Exceptions come from faults only.
LEMMA FaultFreeStep ==
  MaxFaults = 0 /\ SweepTypeOK /\ FaultFree /\ [Next]_vars => FaultFree'
<1> SUFFICES ASSUME MaxFaults = 0, SweepTypeOK, FaultFree, [Next]_vars
             PROVE  FaultFree'
  OBVIOUS
<1> USE DEF SweepTypeOK, StoreTypeOK, FaultFree
<1>1. CASE Create \/ Start \/ Dispatch
  BY <1>1
  DEF Create, Start, Dispatch, CreateJob, StartJob, AfterSubmit, CreateTask,
      store, sweepVars, daemonVars, vars
<1>2. CASE Submit \/ CollectAny \/ CollectRaised
  BY <1>2
  DEF Submit, CollectAny, CollectRaised, AfterSubmit, Collect, FinishTask,
      Better, store, sweepVars, daemonVars, vars
<1>3. CASE CollectEnd \/ Signal \/ CancelFuture
  BY <1>3
  DEF CollectEnd, Signal, CancelFuture, store, sweepVars, daemonVars, vars
<1>4. CASE CancelEnd \/ Drain \/ Finish
  BY <1>4
  DEF CancelEnd, Drain, Finish, FinishJob, store, sweepVars, daemonVars, vars
<1>5. CASE Announce \/ Error
  BY <1>5
  DEF Announce, Error, FinishJob, store, sweepVars, daemonVars, vars
<1>6. ASSUME NEW t \in Tasks, Check(t) \/ SkipCancelled(t) \/ ClaimWon(t)
      PROVE  FaultFree'
  BY <1>6
  DEF Check, SkipCancelled, ClaimWon, FinishTask, ClaimTask, store, sweepVars,
      daemonVars, vars
<1>7. ASSUME NEW t \in Tasks, ClaimLost(t) \/ StartBuild(t) \/ EndBuild(t)
      PROVE  FaultFree'
  BY <1>7
  DEF ClaimLost, StartBuild, EndBuild, ClaimRefused, StartTask, store,
      sweepVars, daemonVars, vars
<1>8. ASSUME NEW t \in Tasks, ThreadFault(t)
      PROVE  FaultFree'
  BY <1>8
  DEF ThreadFault, Fault, store, sweepVars, daemonVars, vars
<1>9. ASSUME NEW t \in Tasks, Take(t) PROVE FaultFree'
  BY <1>9
  DEF Take, store, sweepVars, daemonVars, vars, QueueHead, Waiting
<1>10. ASSUME NEW d \in Daemons, Poll(d) \/ DaemonWon(d) \/ DaemonLost(d)
      PROVE  FaultFree'
  BY <1>10
  DEF Poll, DaemonWon, DaemonLost, NextQueued, ClaimTask, ClaimRefused, store,
      sweepVars, daemonVars, vars
<1>11. ASSUME NEW d \in Daemons, Materialise(d) \/ BadCore(d) \/ DaemonBuild(d)
      PROVE  FaultFree'
  BY <1>11
  DEF Materialise, BadCore, DaemonBuild, FinishTask, store, sweepVars,
      daemonVars, vars
<1>12. ASSUME NEW d \in Daemons, Quit(d) \/ DaemonDies(d)
      PROVE  FaultFree'
  BY <1>12
  DEF Quit, DaemonDies, Fault, store, sweepVars, daemonVars, vars
<1>13. CASE StoreFault \/ Crash \/ Over
  BY <1>13
  DEF StoreFault, Crash, Over, Fault, store, sweepVars, daemonVars, vars
<1>14. CASE Cancel
  BY <1>14
  DEF Cancel, CancelJob, store, sweepVars, daemonVars, vars, OpenJob
<1>15. CASE UNCHANGED vars
  BY <1>15
  DEF vars, store, sweepVars, daemonVars
<1> QED
  BY <1>1, <1>2, <1>3, <1>4, <1>5, <1>6, <1>7, <1>8, <1>9, <1>10, <1>11,
     <1>12, <1>13, <1>14, <1>15
  DEF Next, RunSweep, RunOne, WorkOn

\* Without faults nothing undoes a verdict `passed`: cancellations and late
\* workers included.
THEOREM VerdictFinal ==
  ASSUME MaxFaults = 0
  PROVE  Spec => VerdictStays
<1>1. Init => SweepInv /\ FaultFree
  BY SweepInvInit DEF Init, StoreInit, FaultFree
<1>2. SweepInv /\ FaultFree /\ [Next]_vars => SweepInv' /\ FaultFree'
  BY SweepInvStep, FaultFreeStep DEF SweepInv, ClaimInv
<1>3. FaultFree /\ [Next]_vars => [job = "passed" => job' = "passed"]_vars
  <2> SUFFICES ASSUME FaultFree, [Next]_vars, job = "passed"
               PROVE  job' = "passed"
    OBVIOUS
  <2> USE DEF FaultFree
  <2>1. CASE Create \/ Start \/ Dispatch
    BY <2>1
    DEF Create, Start, Dispatch, CreateJob, StartJob, AfterSubmit, CreateTask,
        store, sweepVars, daemonVars, vars
  <2>2. CASE Submit \/ CollectAny \/ CollectRaised
    BY <2>2
    DEF Submit, CollectAny, CollectRaised, AfterSubmit, Collect, FinishTask,
        Better, store, sweepVars, daemonVars, vars
  <2>3. CASE CollectEnd \/ Signal \/ CancelFuture
    BY <2>3
    DEF CollectEnd, Signal, CancelFuture, store, sweepVars, daemonVars, vars
  <2>4. CASE CancelEnd \/ Drain \/ Finish
    BY <2>4
    DEF CancelEnd, Drain, Finish, FinishJob, store, sweepVars, daemonVars, vars
  <2>5. CASE Announce \/ Error
    BY <2>5
    DEF Announce, Error, FinishJob, store, sweepVars, daemonVars, vars
  <2>6. ASSUME NEW t \in Tasks, Take(t) \/ Check(t) \/ SkipCancelled(t)
        PROVE  job' = "passed"
    BY <2>6
    DEF Take, Check, SkipCancelled, FinishTask, store, sweepVars, daemonVars,
        vars
  <2>7. ASSUME NEW t \in Tasks, ClaimWon(t) \/ ClaimLost(t) \/ StartBuild(t)
        PROVE  job' = "passed"
    BY <2>7
    DEF ClaimWon, ClaimLost, StartBuild, ClaimTask, ClaimRefused, StartTask,
        store, sweepVars, daemonVars, vars
  <2>8. ASSUME NEW t \in Tasks, EndBuild(t) \/ ThreadFault(t)
        PROVE  job' = "passed"
    BY <2>8
    DEF EndBuild, ThreadFault, Fault, store, sweepVars, daemonVars, vars
  <2>9. ASSUME NEW d \in Daemons, Poll(d) \/ DaemonWon(d) \/ DaemonLost(d)
        PROVE  job' = "passed"
    BY <2>9
    DEF Poll, DaemonWon, DaemonLost, NextQueued, ClaimTask, ClaimRefused, store,
        sweepVars, daemonVars, vars
  <2>10. ASSUME NEW d \in Daemons, Materialise(d) \/ BadCore(d) \/ DaemonBuild(d)
        PROVE  job' = "passed"
    BY <2>10
    DEF Materialise, BadCore, DaemonBuild, FinishTask, store, sweepVars,
        daemonVars, vars
  <2>11. ASSUME NEW d \in Daemons, Quit(d) \/ DaemonDies(d)
        PROVE  job' = "passed"
    BY <2>11
    DEF Quit, DaemonDies, Fault, store, sweepVars, daemonVars, vars
  <2>12. CASE StoreFault \/ Crash \/ Over
    BY <2>12
    DEF StoreFault, Crash, Over, Fault, store, sweepVars, daemonVars, vars
  <2>13. CASE Cancel
    BY <2>13
    DEF Cancel, CancelJob, store, sweepVars, daemonVars, vars, OpenJob
  <2>14. CASE UNCHANGED vars
    BY <2>14
    DEF vars, store, sweepVars, daemonVars
  <2> QED
    BY <2>1, <2>2, <2>3, <2>4, <2>5, <2>6, <2>7, <2>8, <2>9, <2>10, <2>11,
       <2>12, <2>13, <2>14
    DEF Next, RunSweep, RunOne, WorkOn
<1> QED
  BY <1>1, <1>2, <1>3, PTL DEF Spec, VerdictStays

=============================================================================

----------------------------- MODULE LocalProofs ----------------------------
(***************************************************************************)
(* The seeds that compile on this machine, for every number of seeds and   *)
(* of slots: who holds a slot, whose outputs are called ok, and that the   *)
(* local backend is what the scheduler takes it for.                       *)
(***************************************************************************)
EXTENDS LocalBuild, FiniteSetTheorems, TLAPS

USE TasksAssumption, SlotsAssumption

LocalSpec == LocalInit /\ [][LocalNext]_vars

-----------------------------------------------------------------------------
(* The parts of the inductive invariant.                                    *)

\* Quartus runs for a task only while its thread waits for it.
UpIsAwaited == \A t \in Tasks : leader[t] = "up" => pc[t] = "wait"

\* Nothing of an earlier build is in a sandbox, and nothing at all before it is made.
BoxIsFresh ==
  \A t \in Tasks :
    /\ box[t] # "old"
    /\ pc[t] \in {"called", "slot", "start"} => box[t] = "none"

\* A verdict is given when Quartus is over, and ok is one on a fit sandbox.
VerdictIsEarned ==
  \A t \in Tasks :
    /\ verdict[t] \in IF pc[t] \in {"collect", "done"} THEN {"ok", "bad"} ELSE {"none"}
    /\ verdict[t] = "ok" => box[t] = "met"

\* The slots that are lent.
Lent == {t \in Tasks : pc[t] \in Holding}

SlotsAddUp == sem = Slots - Cardinality(Lent)

-----------------------------------------------------------------------------
(* What a step does to a task, and to the slots.                            *)

\* Types, but for the bound on the free slots.
Shape ==
  /\ cancel \in BOOLEAN
  /\ host \in Hosts
  /\ mode \in Asked \cup {"full", "split"}
  /\ pc \in [Tasks -> Steps]
  /\ leader \in [Tasks -> {"none", "up", "stuck"} \cup Codes]
  /\ seen \in [Tasks -> {Ambient, NoTask}]
  /\ box \in [Tasks -> Contents]
  /\ verdict \in [Tasks -> {"none", "ok", "bad"}]

LEMMA ShapeStep == Shape /\ [LocalNext]_vars => Shape'
<1> SUFFICES ASSUME Shape, [LocalNext]_vars PROVE Shape'
  OBVIOUS
<1> USE DEF Shape, Goto, Raise, Steps
<1>1. CASE Settle
  BY <1>1 DEF Settle, Asked
<1>2. CASE SetCancel
  BY <1>2 DEF SetCancel
<1>3. ASSUME NEW t \in Tasks, Run(t) \/ Acquire(t) PROVE Shape'
  BY <1>3 DEF Run, Acquire
<1>4. ASSUME NEW t \in Tasks, Start(t) PROVE Shape'
  BY <1>4 DEF Start, Copied, Contents
<1>5. ASSUME NEW t \in Tasks, StartFails(t) PROVE Shape'
  BY <1>5 DEF StartFails
<1>6. ASSUME NEW t \in Tasks, Exited(t) PROVE Shape'
  BY <1>6 DEF Exited, RunReturns
<1>7. ASSUME NEW t \in Tasks, Cancelled(t) \/ TimedOut(t) PROVE Shape'
  BY <1>7 DEF Cancelled, TimedOut, RunReturns, Terminated
<1>8. ASSUME NEW t \in Tasks, KeyboardInterrupt(t) PROVE Shape'
  BY <1>8 DEF KeyboardInterrupt, Terminated
<1>9. ASSUME NEW t \in Tasks, Collect(t) \/ CollectFails(t) PROVE Shape'
  BY <1>9 DEF Collect, CollectFails
<1>10. ASSUME NEW t \in Tasks, SplitGivesUp(t) \/ FlowEnds(t) PROVE Shape'
  BY <1>10 DEF SplitGivesUp, FlowEnds, Ends, Codes
<1>11. ASSUME NEW t \in Tasks, Writes(t) PROVE Shape'
  BY <1>11 DEF Writes, Contents
<1>12. CASE UNCHANGED vars
  BY <1>12 DEF vars
<1> QED
  BY <1>1, <1>2, <1>3, <1>4, <1>5, <1>6, <1>7, <1>8, <1>9, <1>10, <1>11, <1>12
  DEF LocalNext, Thread, Quartus

Idle == Lent' = Lent /\ sem' = sem

Takes(t) == t \notin Lent /\ Lent' = Lent \cup {t} /\ sem > 0 /\ sem' = sem - 1

Gives(t) == t \in Lent /\ Lent' = Lent \ {t} /\ sem' = sem + 1

LEMMA SlotStep ==
  Shape /\ [LocalNext]_vars => Idle \/ \E t \in Tasks : Takes(t) \/ Gives(t)
<1> SUFFICES ASSUME Shape, [LocalNext]_vars
             PROVE  Idle \/ \E t \in Tasks : Takes(t) \/ Gives(t)
  OBVIOUS
<1> USE DEF Shape, Idle, Takes, Gives, Lent, Holding, Goto, Raise
<1>1. CASE Settle \/ SetCancel
  BY <1>1 DEF Settle, SetCancel
<1>2. ASSUME NEW t \in Tasks, Run(t) \/ Start(t) PROVE Idle
  BY <1>2 DEF Run, Start
<1>3. ASSUME NEW t \in Tasks, Acquire(t) PROVE Takes(t)
  BY <1>3 DEF Acquire
<1>4. ASSUME NEW t \in Tasks, StartFails(t) \/ KeyboardInterrupt(t) PROVE Gives(t)
  BY <1>4 DEF StartFails, KeyboardInterrupt
<1>5. ASSUME NEW t \in Tasks, Exited(t) \/ Cancelled(t) \/ TimedOut(t) PROVE Idle
  BY <1>5 DEF Exited, Cancelled, TimedOut, RunReturns
<1>6. ASSUME NEW t \in Tasks, Collect(t) \/ CollectFails(t) PROVE Gives(t)
  BY <1>6 DEF Collect, CollectFails
<1>7. ASSUME NEW t \in Tasks, Quartus(t) PROVE Idle
  BY <1>7 DEF Quartus, SplitGivesUp, FlowEnds, Writes, Ends
<1>8. CASE UNCHANGED vars
  BY <1>8 DEF vars
<1> QED
  BY <1>1, <1>2, <1>3, <1>4, <1>5, <1>6, <1>7, <1>8, Zenon DEF LocalNext, Thread

LEMMA LentIsFinite == IsFiniteSet(Lent) /\ Cardinality(Lent) \in Nat
<1>1. Lent \subseteq Tasks
  BY DEF Lent
<1> QED
  BY <1>1, FS_Subset, FS_CardinalityType

LEMMA SlotsStep ==
  Shape /\ sem \in Nat /\ SlotsAddUp /\ [LocalNext]_vars => sem' \in Nat /\ SlotsAddUp'
<1> SUFFICES ASSUME Shape, sem \in Nat, SlotsAddUp, [LocalNext]_vars
             PROVE  sem' \in Nat /\ SlotsAddUp'
  OBVIOUS
<1> USE DEF SlotsAddUp
<1>1. CASE Idle
  BY <1>1 DEF Idle
<1>2. ASSUME NEW t \in Tasks, Takes(t) PROVE sem' \in Nat /\ SlotsAddUp'
  <2>1. Cardinality(Lent') = Cardinality(Lent) + 1
    BY <1>2, LentIsFinite, FS_AddElement DEF Takes
  <2> QED
    BY <1>2, <2>1, LentIsFinite DEF Takes
<1>3. ASSUME NEW t \in Tasks, Gives(t) PROVE sem' \in Nat /\ SlotsAddUp'
  <2>1. Cardinality(Lent') = Cardinality(Lent) - 1
    BY <1>3, LentIsFinite, FS_RemoveElement DEF Gives
  <2> QED
    BY <1>3, <2>1, LentIsFinite DEF Gives
<1> QED
  BY <1>1, <1>2, <1>3, SlotStep

\* What Quartus has made, and what is said of it.
Honest == UpIsAwaited /\ BoxIsFresh /\ VerdictIsEarned

LEMMA HonestStep == Shape /\ Honest /\ [LocalNext]_vars => Honest'
<1> SUFFICES ASSUME Shape, Honest, [LocalNext]_vars PROVE Honest'
  OBVIOUS
<1> USE DEF Shape, Honest, UpIsAwaited, BoxIsFresh, VerdictIsEarned, Goto, Raise
<1>1. CASE Settle \/ SetCancel
  BY <1>1 DEF Settle, SetCancel
<1>2. ASSUME NEW t \in Tasks, Run(t) \/ Acquire(t) PROVE Honest'
  BY <1>2 DEF Run, Acquire
<1>3. ASSUME NEW t \in Tasks, Start(t) PROVE Honest'
  BY <1>3 DEF Start, Copied
<1>4. ASSUME NEW t \in Tasks, StartFails(t) PROVE Honest'
  BY <1>4 DEF StartFails
<1>5. ASSUME NEW t \in Tasks, Exited(t) PROVE Honest'
  BY <1>5 DEF Exited, RunReturns, Passes
<1>6. ASSUME NEW t \in Tasks, Cancelled(t) \/ TimedOut(t) PROVE Honest'
  BY <1>6 DEF Cancelled, TimedOut, RunReturns, Terminated, Passes
<1>7. ASSUME NEW t \in Tasks, KeyboardInterrupt(t) PROVE Honest'
  BY <1>7 DEF KeyboardInterrupt, Terminated
<1>8. ASSUME NEW t \in Tasks, Collect(t) \/ CollectFails(t) PROVE Honest'
  BY <1>8 DEF Collect, CollectFails
<1>9. ASSUME NEW t \in Tasks, SplitGivesUp(t) \/ FlowEnds(t) PROVE Honest'
  BY <1>9 DEF SplitGivesUp, FlowEnds, Ends, Codes
<1>10. ASSUME NEW t \in Tasks, Writes(t) PROVE Honest'
  BY <1>10 DEF Writes
<1>11. CASE UNCHANGED vars
  BY <1>11 DEF vars
<1> QED
  BY <1>1, <1>2, <1>3, <1>4, <1>5, <1>6, <1>7, <1>8, <1>9, <1>10, <1>11, Zenon
  DEF LocalNext, Thread, Quartus

-----------------------------------------------------------------------------
(* The theorems.                                                            *)

LocalInv == Shape /\ sem \in Nat /\ SlotsAddUp /\ Honest

LEMMA LocalInvInit == LocalInit => LocalInv
<1> SUFFICES ASSUME LocalInit PROVE LocalInv
  OBVIOUS
<1> USE DEF LocalInit
<1>1. Shape
  BY DEF Shape, Steps, Contents, Codes
<1>2. Honest
  BY DEF Honest, UpIsAwaited, BoxIsFresh, VerdictIsEarned
<1>3. SlotsAddUp
  <2>1. Lent = {}
    BY DEF Lent, Holding
  <2>2. Cardinality({}) = 0
    BY FS_EmptySet
  <2> QED
    BY <2>1, <2>2 DEF SlotsAddUp
<1> QED
  BY <1>1, <1>2, <1>3 DEF LocalInv

\* The invariant holds from beginning to end.
THEOREM LocalInvariant == LocalSpec => []LocalInv
<1>1. LocalInv /\ [LocalNext]_vars => LocalInv'
  BY ShapeStep, SlotsStep, HonestStep DEF LocalInv
<1> QED
  BY LocalInvInit, <1>1, PTL DEF LocalSpec

\* The types of what local.py and quartus.py keep, the bound on free slots included.
THEOREM LocalTypeCorrect == LocalSpec => []LocalTypeOK
<1>1. LocalInv => LocalTypeOK
  <2> SUFFICES ASSUME LocalInv PROVE LocalTypeOK
    OBVIOUS
  <2>1. sem \in 0..Slots
    BY LentIsFinite DEF LocalInv, SlotsAddUp
  <2> QED
    BY <2>1, Zenon DEF LocalInv, Shape, LocalTypeOK
<1> QED
  BY LocalInvariant, <1>1, PTL

\* No more Quartus runs at a time than slots, for any number of seeds and slots.
THEOREM SlotsExclusive == LocalSpec => []SlotsHold
<1>1. LocalInv => SlotsHold
  <2> SUFFICES ASSUME LocalInv PROVE SlotsHold
    OBVIOUS
  <2> DEFINE up == {t \in Tasks : leader[t] = "up"}
  <2>1. up \subseteq Lent
    BY DEF LocalInv, Honest, UpIsAwaited, Lent, Holding
  <2>2. Cardinality(up) <= Cardinality(Lent) /\ Cardinality(up) \in Nat
    BY <2>1, LentIsFinite, FS_Subset, FS_CardinalityType
  <2> QED
    BY <2>2, LentIsFinite DEF LocalInv, SlotsAddUp, SlotsHold
<1> QED
  BY LocalInvariant, <1>1, PTL

\* A verdict ok is earned by the compile of the seed itself, which ended well and left a
\* bitstream and a report that meets timing.
THEOREM OkIsEarned == LocalSpec => OkIsOwn
<1> DEFINE Own == \A t \in Tasks : verdict'[t] = "ok" /\ verdict[t] # "ok" =>
                    leader[t] = "exit0" /\ box[t] = "met"
<1>1. LocalInv /\ [LocalNext]_vars => [Own]_vars
  <2> SUFFICES ASSUME LocalInv, LocalNext PROVE Own
    BY DEF vars
  <2> USE DEF LocalInv, Shape, Honest, BoxIsFresh, Goto, Raise
  <2>1. CASE Settle \/ SetCancel
    BY <2>1 DEF Settle, SetCancel
  <2>2. ASSUME NEW t \in Tasks, Run(t) \/ Acquire(t) \/ Start(t) \/ StartFails(t) PROVE Own
    BY <2>2 DEF Run, Acquire, Start, StartFails
  <2>3. ASSUME NEW t \in Tasks, Exited(t) \/ Cancelled(t) \/ TimedOut(t) PROVE Own
    BY <2>3 DEF Exited, Cancelled, TimedOut, RunReturns, Passes
  <2>4. ASSUME NEW t \in Tasks, KeyboardInterrupt(t) \/ Collect(t) \/ CollectFails(t)
        PROVE  Own
    BY <2>4 DEF KeyboardInterrupt, Collect, CollectFails
  <2>5. ASSUME NEW t \in Tasks, Quartus(t) PROVE Own
    BY <2>5 DEF Quartus, SplitGivesUp, FlowEnds, Writes, Ends
  <2> QED
    BY <2>1, <2>2, <2>3, <2>4, <2>5, Zenon DEF LocalNext, Thread
<1> QED
  BY LocalInvariant, <1>1, PTL DEF LocalSpec, OkIsOwn

-----------------------------------------------------------------------------
(* The local backend implements Backend.                                    *)

\* A fit sandbox stays fit: nobody empties it, as it belongs to one task.
LEMMA StepOfBackend == LocalInv /\ LocalNext => [LocalPromise!Next]_LocalPromise!promised
<1> SUFFICES ASSUME LocalInv, LocalNext
             PROVE  LocalPromise!Next \/ UNCHANGED <<LocalCall, sem, LocalFit>>
  BY DEF LocalPromise!promised
<1> USE DEF LocalInv, Shape, Honest, BoxIsFresh, VerdictIsEarned, LocalCall, LocalFit, Holding,
            Goto, Raise, Steps
<1> DEFINE Stays == UNCHANGED <<LocalCall, sem, LocalFit>>
<1>1. CASE Settle \/ SetCancel
  BY <1>1 DEF Settle, SetCancel
<1>2. ASSUME NEW t \in Tasks, Run(t) PROVE Stays \/ LocalPromise!Refuse(t)
  BY <1>2 DEF Run, LocalPromise!Refuse
<1>3. ASSUME NEW t \in Tasks, Acquire(t) PROVE LocalPromise!Enter(t)
  BY <1>3 DEF Acquire, LocalPromise!Enter
<1>4. ASSUME NEW t \in Tasks, Start(t) PROVE Stays
  BY <1>4 DEF Start, Copied
<1>5. ASSUME NEW t \in Tasks, StartFails(t) PROVE LocalPromise!Leave(t, "raised")
  BY <1>5 DEF StartFails, LocalPromise!Leave
<1>6. ASSUME NEW t \in Tasks, Exited(t) \/ Cancelled(t) \/ TimedOut(t) PROVE Stays
  BY <1>6 DEF Exited, Cancelled, TimedOut, RunReturns
<1>7. ASSUME NEW t \in Tasks, KeyboardInterrupt(t) PROVE LocalPromise!Leave(t, "raised")
  BY <1>7 DEF KeyboardInterrupt, LocalPromise!Leave
<1>8. ASSUME NEW t \in Tasks, Collect(t) PROVE LocalPromise!Leave(t, verdict[t])
  BY <1>8 DEF Collect, LocalPromise!Leave
<1>9. ASSUME NEW t \in Tasks, CollectFails(t) PROVE LocalPromise!Leave(t, "raised")
  BY <1>9 DEF CollectFails, LocalPromise!Leave
<1>10. ASSUME NEW t \in Tasks, SplitGivesUp(t) \/ FlowEnds(t) PROVE Stays
  BY <1>10 DEF SplitGivesUp, FlowEnds, Ends
<1>11. ASSUME NEW t \in Tasks, Writes(t) PROVE Stays \/ LocalPromise!Fits(t)
  BY <1>11 DEF Writes, UpIsAwaited, LocalPromise!Fits
<1>12. ASSUME NEW t \in Tasks, Collect(t) PROVE verdict[t] \in {"ok", "bad"}
  BY <1>12 DEF Collect
<1> HIDE DEF LocalInv, Shape, Honest, BoxIsFresh, VerdictIsEarned, LocalCall, LocalFit, Holding,
             Goto, Raise, Steps
<1> QED
  BY <1>1, <1>2, <1>3, <1>4, <1>5, <1>6, <1>7, <1>8, <1>9, <1>10, <1>11, <1>12, Zenon
  DEF LocalNext, Thread, Quartus, LocalPromise!Next

\* Whatever the scheduler concludes from Backend it may conclude from the local backend.
THEOREM LocalImplementsBackend == LocalSpec => LocalIsBackend
<1>1. LocalInit => LocalPromise!Init
  <2> SUFFICES ASSUME LocalInit PROVE LocalPromise!Init
    OBVIOUS
  <2>1. LocalCall = [t \in Tasks |-> "asked"]
    <3>1. \A t \in Tasks : pc[t] = "called"
      BY DEF LocalInit
    <3> QED
      BY <3>1 DEF LocalCall, Holding
  <2>2. LocalFit = {} /\ sem \in Nat
    BY DEF LocalInit, LocalFit
  <2> QED
    BY <2>1, <2>2 DEF LocalPromise!Init
<1>2. LocalInv /\ [LocalNext]_vars => [LocalPromise!Next]_LocalPromise!promised
  <2>1. UNCHANGED vars => UNCHANGED LocalPromise!promised
    BY DEF vars, LocalPromise!promised, LocalCall, LocalFit
  <2> QED
    BY <2>1, StepOfBackend
<1> QED
  BY LocalInvariant, <1>1, <1>2, PTL DEF LocalSpec, LocalIsBackend, LocalPromise!Spec
=============================================================================

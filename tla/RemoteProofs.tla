---------------------------- MODULE RemoteProofs ----------------------------
(***************************************************************************)
(* The backends that run elsewhere, for every number of tasks, hosts and   *)
(* slots: their slots add up, and each of them implements Backend.         *)
(***************************************************************************)
EXTENDS MCRemotePools, DataFacts

USE SshAssumption, GhaAssumption, CloudAssumption

-----------------------------------------------------------------------------
(* Sums.                                                                    *)

Counters(n) == [0..(n - 1) -> Int]

\* The function that SumTo chooses is the one its equation tells of.
LEMMA SumIsDefined ==
  ASSUME NEW n \in Nat, NEW f \in Counters(n)
  PROVE  SumTo(f, n) = [i \in 0..n |-> IF i = 0 THEN 0 ELSE SumTo(f, n)[i - 1] + f[i - 1]]
<1> USE DEF Counters
<1> DEFINE Sums(s, k) == s = [i \in 0..k |-> IF i = 0 THEN 0 ELSE s[i - 1] + f[i - 1]]
           Summed == {k \in Nat : \E s : Sums(s, k)}
<1>1. 0 \in Summed
  <2>1. Sums([i \in {0} |-> 0], 0)
    OBVIOUS
  <2> QED
    BY <2>1
<1>2. ASSUME NEW k \in Summed \cap Nat PROVE k + 1 \in Summed
  <2>1. PICK s : Sums(s, k)
    OBVIOUS
  <2> DEFINE longer == [i \in 0..(k + 1) |-> IF i = k + 1 THEN s[k] + f[k] ELSE s[i]]
  <2>2. \A i \in 0..(k + 1) : longer[i] = IF i = 0 THEN 0 ELSE longer[i - 1] + f[i - 1]
    BY <2>1
  <2>3. Sums(longer, k + 1)
    BY <2>2
  <2> HIDE DEF longer
  <2> HIDE DEF Sums
  <2> QED
    BY <2>3
<1>3. n \in Summed
  <2> HIDE DEF Summed
  <2> QED
    BY <1>1, <1>2, SetInduction
<1>4. Sums(CHOOSE s : Sums(s, n), n)
  BY <1>3
<1>5. SumTo(f, n) = CHOOSE s : Sums(s, n)
  BY DEF SumTo
<1> QED
  BY <1>4, <1>5

LEMMA SumStep ==
  ASSUME NEW n \in Nat, NEW f \in Counters(n)
  PROVE  /\ SumTo(f, n)[0] = 0
         /\ \A i \in 0..(n - 1) : SumTo(f, n)[i + 1] = SumTo(f, n)[i] + f[i]
<1> DEFINE sum == SumTo(f, n)
<1>1. sum = [i \in 0..n |-> IF i = 0 THEN 0 ELSE sum[i - 1] + f[i - 1]]
  BY SumIsDefined
<1> HIDE DEF sum
<1>2. sum[0] = 0 /\ \A i \in 0..(n - 1) : sum[i + 1] = sum[i] + f[i]
  BY <1>1
<1> QED
  BY <1>2 DEF sum

\* The sum of counters none of which is negative is no less than any of them.
LEMMA SumIsNatural ==
  ASSUME NEW n \in Nat, NEW f \in Counters(n), \A i \in 0..(n - 1) : f[i] >= 0
  PROVE  /\ \A i \in 0..n : SumTo(f, n)[i] \in Nat
         /\ \A h \in 0..(n - 1) : SumTo(f, n)[n] >= f[h]
<1> DEFINE sum == SumTo(f, n)
           Good == {k \in Nat : k <= n => sum[k] \in Nat /\ \A h \in 0..(k - 1) : sum[k] >= f[h]}
<1>1. sum[0] = 0 /\ \A i \in 0..(n - 1) : sum[i + 1] = sum[i] + f[i]
  BY SumStep
<1>2. \A i \in 0..(n - 1) : f[i] \in Nat
  BY DEF Counters
<1> HIDE DEF sum
<1>3. 0 \in Good
  BY <1>1
<1>4. ASSUME NEW k \in Good \cap Nat PROVE k + 1 \in Good
  <2> SUFFICES ASSUME k + 1 <= n
               PROVE  sum[k + 1] \in Nat /\ \A h \in 0..k : sum[k + 1] >= f[h]
    OBVIOUS
  <2>1. sum[k + 1] = sum[k] + f[k] /\ f[k] \in Nat /\ sum[k] \in Nat
    BY <1>1, <1>2
  <2>2. \A h \in 0..(k - 1) : sum[k] >= f[h] /\ f[h] \in Nat
    BY <1>2
  <2> QED
    BY <2>1, <2>2
<1>5. Nat \subseteq Good
  <2> HIDE DEF Good
  <2> QED
    BY <1>3, <1>4, SetInduction
<1> QED
  BY <1>5 DEF sum

\* Changing one counter changes the sum by as much.
LEMMA SumShifts ==
  ASSUME NEW n \in Nat, NEW f \in Counters(n), NEW g \in Counters(n),
         NEW h \in 0..(n - 1), NEW d \in Int,
         g[h] = f[h] + d, \A i \in 0..(n - 1) : i # h => g[i] = f[i]
  PROVE  SumTo(g, n)[n] = SumTo(f, n)[n] + d
<1> DEFINE F == SumTo(f, n)
           G == SumTo(g, n)
           Good == {k \in Nat : k <= n => F[k] \in Int /\ G[k] = F[k] + (IF k > h THEN d ELSE 0)}
<1>1. F[0] = 0 /\ \A i \in 0..(n - 1) : F[i + 1] = F[i] + f[i]
  BY SumStep
<1>2. G[0] = 0 /\ \A i \in 0..(n - 1) : G[i + 1] = G[i] + g[i]
  BY SumStep
<1>3. \A i \in 0..(n - 1) : f[i] \in Int /\ g[i] \in Int
  BY DEF Counters
<1> HIDE DEF F, G
<1>4. 0 \in Good
  BY <1>1, <1>2
<1>5. ASSUME NEW k \in Good \cap Nat PROVE k + 1 \in Good
  <2> SUFFICES ASSUME k + 1 <= n
               PROVE  F[k + 1] \in Int /\ G[k + 1] = F[k + 1] + (IF k + 1 > h THEN d ELSE 0)
    OBVIOUS
  <2>1. F[k + 1] = F[k] + f[k] /\ G[k + 1] = G[k] + g[k]
    BY <1>1, <1>2
  <2>2. f[k] \in Int /\ g[k] \in Int /\ F[k] \in Int /\ G[k] = F[k] + (IF k > h THEN d ELSE 0)
    BY <1>3
  <2>3. g[k] = f[k] + (IF k = h THEN d ELSE 0)
    BY <1>3
  <2> QED
    BY <2>1, <2>2, <2>3
<1>6. Nat \subseteq Good
  <2> HIDE DEF Good
  <2> QED
    BY <1>4, <1>5, SetInduction
<1> QED
  BY <1>6 DEF F, G

-----------------------------------------------------------------------------
(* SSH: the parts of the inductive invariant.                               *)

\* Types, but for the bounds on the counters.
SshShape ==
  /\ rr \in Nat
  /\ free \in [SshHosts -> Int]
  /\ sAt \in [Tasks -> {"call", "blocked", "done", "raised"} \cup InSlot]
  /\ on \in [Tasks -> SshHosts \cup {None}]
  /\ remote \in [Tasks -> {"none", "running"} \cup Ends]
  /\ back \subseteq Tasks
  /\ sRc \in [Tasks -> {"none", "ok", "bad", "raise"}]
  /\ sOut \in [Tasks -> {"none", "ok", "bad"}]

\* Whoever has gone past the choice has chosen.
HasChosen == \A t \in Tasks : sAt[t] # "call" => on[t] \in SshHosts

\* A worker is started once, after the core has been copied to it, and what the client
\* returned is what it saw then: a worker that has ended stays as it ended.
WorkerIsHeard ==
  \A t \in Tasks :
    /\ sAt[t] \in {"call", "blocked", "push", "ssh"} => remote[t] = "none"
    /\ sRc[t] = "ok" => remote[t] = "passed"

\* The rotation counts on without a modulus only when a task picks a busy host.
RotationHolds == rr <= NHosts + Cardinality({t \in Tasks : sAt[t] # "call"})

\* The tasks at work on a host.
Working(h) == {t \in Tasks : on[t] = h /\ sAt[t] \in InSlot}

SlotsLent == \A h \in SshHosts : free[h] >= 0 /\ free[h] + Cardinality(Working(h)) = HostSlots

-----------------------------------------------------------------------------
(* What a step does to a task, and to a host.                               *)

LEMMA HostInRange == \A n \in Nat : n % NHosts \in SshHosts
  BY DEF SshHosts

LEMMA IdleInRange ==
  SshShape => \A i \in Idle : (rr + i) % NHosts \in SshHosts /\ (rr + i + 1) % NHosts \in SshHosts
<1> SUFFICES ASSUME SshShape, NEW i \in Idle
             PROVE  (rr + i) % NHosts \in SshHosts /\ (rr + i + 1) % NHosts \in SshHosts
  OBVIOUS
<1>1. rr + i \in Nat /\ rr + i + 1 \in Nat
  BY DEF SshShape, Idle, SshHosts
<1> QED
  BY <1>1, HostInRange

LEMMA SshShapeStep ==
  SshShape /\ HasChosen /\ [SshNext]_sshVars => SshShape' /\ HasChosen'
<1> SUFFICES ASSUME SshShape, HasChosen, [SshNext]_sshVars
             PROVE  SshShape' /\ HasChosen'
  OBVIOUS
<1> USE DEF SshShape, HasChosen, SshGoto, InSlot, Ends
<1>1. ASSUME NEW t \in Tasks, _pick_host(t) PROVE SshShape' /\ HasChosen'
  <2>1. CASE Idle = {}
    BY <1>1, <2>1, HostInRange DEF _pick_host
  <2>2. CASE Idle # {}
    <3>1. PICK i \in Idle : on' = [on EXCEPT ![t] = (rr + i) % NHosts] /\ rr' = (rr + i + 1) % NHosts
      BY <1>1, <2>2 DEF _pick_host
    <3>2. (rr + i) % NHosts \in SshHosts /\ (rr + i + 1) % NHosts \in SshHosts
      BY IdleInRange
    <3>3. SshHosts \subseteq Nat
      BY DEF SshHosts
    <3> QED
      BY <1>1, <3>1, <3>2, <3>3 DEF _pick_host
  <2> QED
    BY <2>1, <2>2
<1>2. ASSUME NEW t \in Tasks, Enter(t) \/ Clean(t) PROVE SshShape' /\ HasChosen'
  BY <1>2 DEF Enter, Clean, Reports
<1>3. ASSUME NEW t \in Tasks,
             _rsync_to(t) \/ PushFails(t) \/ _ssh_run(t) \/ SshReturns(t) \/ _rsync_back(t)
      PROVE  SshShape' /\ HasChosen'
  BY <1>3 DEF _rsync_to, PushFails, _ssh_run, SshReturns, _rsync_back
<1>4. ASSUME NEW t \in Tasks, WorkerEnds(t) \/ SshGivesUp(t) PROVE SshShape' /\ HasChosen'
  BY <1>4 DEF WorkerEnds, SshGivesUp
<1>5. CASE UNCHANGED sshVars
  BY <1>5 DEF sshVars
<1> QED
  BY <1>1, <1>2, <1>3, <1>4, <1>5 DEF SshNext, SshThread, Rsync

Idles == free' = free /\ \A h \in SshHosts : Working(h)' = Working(h)

\* A slot is counted as one unit where the task begins or ends its work, and there alone.
Takes(h) ==
  /\ free[h] > 0 /\ free' = [free EXCEPT ![h] = @ - 1]
  /\ \E t \in Tasks : t \notin Working(h) /\ Working(h)' = Working(h) \cup {t}
  /\ \A g \in SshHosts \ {h} : Working(g)' = Working(g)

Gives(h) ==
  /\ free' = [free EXCEPT ![h] = @ + 1]
  /\ \E t \in Working(h) : Working(h)' = Working(h) \ {t}
  /\ \A g \in SshHosts \ {h} : Working(g)' = Working(g)

LEMMA HostStep ==
  SshShape /\ HasChosen /\ [SshNext]_sshVars =>
    Idles \/ \E h \in SshHosts : Takes(h) \/ Gives(h)
<1> SUFFICES ASSUME SshShape, HasChosen, [SshNext]_sshVars
             PROVE  Idles \/ \E h \in SshHosts : Takes(h) \/ Gives(h)
  OBVIOUS
<1> USE DEF SshShape, HasChosen, SshGoto, InSlot, Working
<1>1. ASSUME NEW t \in Tasks, _pick_host(t) PROVE Idles
  <2>1. free' = free
    BY <1>1 DEF _pick_host
  <2>2. \A u \in Tasks : u # t => on'[u] = on[u] /\ sAt'[u] = sAt[u]
    BY <1>1 DEF _pick_host
  <2>3. sAt[t] = "call" /\ sAt'[t] = "blocked"
    BY <1>1 DEF _pick_host
  <2> QED
    BY <2>1, <2>2, <2>3 DEF Idles
<1>2. ASSUME NEW t \in Tasks, Enter(t) PROVE \E h \in SshHosts : Takes(h)
  <2>1. PICK h \in SshHosts : h = on[t]
    BY <1>2 DEF Enter
  <2>2. Takes(h)
    BY <1>2, <2>1 DEF Enter, Takes
  <2> QED
    BY <2>2
<1>3. ASSUME NEW t \in Tasks, Clean(t) PROVE \E h \in SshHosts : Gives(h)
  <2>1. PICK h \in SshHosts : h = on[t]
    BY <1>3 DEF Clean
  <2>2. Gives(h)
    BY <1>3, <2>1 DEF Clean, Gives
  <2> QED
    BY <2>2
<1>4. ASSUME NEW t \in Tasks,
             _rsync_to(t) \/ PushFails(t) \/ _ssh_run(t) \/ SshReturns(t) \/ _rsync_back(t)
      PROVE  Idles
  BY <1>4 DEF _rsync_to, PushFails, _ssh_run, SshReturns, _rsync_back, Idles
<1>5. ASSUME NEW t \in Tasks, WorkerEnds(t) \/ SshGivesUp(t) PROVE Idles
  BY <1>5 DEF WorkerEnds, SshGivesUp, Idles
<1>6. CASE UNCHANGED sshVars
  BY <1>6 DEF sshVars, Idles
<1> QED
  BY <1>1, <1>2, <1>3, <1>4, <1>5, <1>6, Zenon DEF SshNext, SshThread, Rsync

LEMMA WorkingIsFinite ==
  \A h \in SshHosts : IsFiniteSet(Working(h)) /\ Cardinality(Working(h)) \in Nat
<1>1. \A h \in SshHosts : Working(h) \subseteq Tasks
  BY DEF Working
<1> QED
  BY <1>1, FS_Subset, FS_CardinalityType

LEMMA SlotsLentStep ==
  SshShape /\ HasChosen /\ SlotsLent /\ [SshNext]_sshVars => SlotsLent'
<1> SUFFICES ASSUME SshShape, HasChosen, SlotsLent, [SshNext]_sshVars,
                    NEW h \in SshHosts
             PROVE  free'[h] >= 0 /\ free'[h] + Cardinality(Working(h)') = HostSlots
  BY DEF SlotsLent, SshHosts
<1>1. CASE Idles
  BY <1>1 DEF Idles, SlotsLent
<1>2. ASSUME NEW g \in SshHosts, Takes(g) \/ Gives(g), h # g
      PROVE  free'[h] = free[h] /\ Working(h)' = Working(h)
  BY <1>2 DEF Takes, Gives, SshShape
<1>3. ASSUME Takes(h)
      PROVE  free'[h] >= 0 /\ free'[h] + Cardinality(Working(h)') = HostSlots
  <2>1. Cardinality(Working(h)') = Cardinality(Working(h)) + 1
    <3>1. PICK t \in Tasks : t \notin Working(h) /\ Working(h)' = Working(h) \cup {t}
      BY <1>3 DEF Takes
    <3>2. Cardinality(Working(h) \cup {t}) = Cardinality(Working(h)) + 1
      BY <3>1, WorkingIsFinite, FS_AddElement
    <3> QED
      BY <3>1, <3>2
  <2>2. free[h] \in Int /\ free[h] > 0 /\ free'[h] = free[h] - 1
    BY <1>3 DEF Takes, SshShape
  <2> QED
    BY <2>1, <2>2, WorkingIsFinite DEF SlotsLent
<1>4. ASSUME Gives(h)
      PROVE  free'[h] >= 0 /\ free'[h] + Cardinality(Working(h)') = HostSlots
  <2>1. Cardinality(Working(h)') = Cardinality(Working(h)) - 1
    <3>1. PICK t \in Working(h) : Working(h)' = Working(h) \ {t}
      BY <1>4 DEF Gives
    <3>2. Cardinality(Working(h) \ {t}) = Cardinality(Working(h)) - 1
      BY <3>1, WorkingIsFinite, FS_RemoveElement
    <3> QED
      BY <3>1, <3>2
  <2>2. free[h] \in Int /\ free'[h] = free[h] + 1
    BY <1>4 DEF Gives, SshShape
  <2> QED
    BY <2>1, <2>2, WorkingIsFinite DEF SlotsLent
<1> QED
  BY <1>1, <1>2, <1>3, <1>4, HostStep DEF SlotsLent

LEMMA WorkerIsHeardStep ==
  SshShape /\ WorkerIsHeard /\ [SshNext]_sshVars => WorkerIsHeard'
<1> SUFFICES ASSUME SshShape, WorkerIsHeard, [SshNext]_sshVars PROVE WorkerIsHeard'
  OBVIOUS
<1> USE DEF SshShape, WorkerIsHeard, SshGoto
<1>1. ASSUME NEW t \in Tasks, _pick_host(t) \/ Enter(t) \/ Clean(t) PROVE WorkerIsHeard'
  BY <1>1 DEF _pick_host, Enter, Clean
<1>2. ASSUME NEW t \in Tasks,
             _rsync_to(t) \/ PushFails(t) \/ _ssh_run(t) \/ SshReturns(t) \/ _rsync_back(t)
      PROVE  WorkerIsHeard'
  BY <1>2 DEF _rsync_to, PushFails, _ssh_run, SshReturns, _rsync_back
<1>3. ASSUME NEW t \in Tasks, WorkerEnds(t) \/ SshGivesUp(t) PROVE WorkerIsHeard'
  BY <1>3 DEF WorkerEnds, SshGivesUp
<1>4. CASE UNCHANGED sshVars
  BY <1>4 DEF sshVars
<1> QED
  BY <1>1, <1>2, <1>3, <1>4 DEF SshNext, SshThread, Rsync

LEMMA RotationHoldsStep ==
  SshShape /\ SshShape' /\ RotationHolds /\ [SshNext]_sshVars => RotationHolds'
<1> SUFFICES ASSUME SshShape, SshShape', RotationHolds, [SshNext]_sshVars PROVE RotationHolds'
  OBVIOUS
<1> DEFINE Chosen == {t \in Tasks : sAt[t] # "call"}
<1> USE DEF SshShape, SshGoto
<1>1. IsFiniteSet(Chosen) /\ Cardinality(Chosen) \in Nat
  <2>1. Chosen \subseteq Tasks
    OBVIOUS
  <2> HIDE DEF Chosen
  <2> QED
    BY <2>1, FS_Subset, FS_CardinalityType
<1>2. ASSUME NEW t \in Tasks, _pick_host(t) PROVE RotationHolds'
  <2>1. t \notin Chosen /\ Chosen' = Chosen \cup {t}
    BY <1>2 DEF _pick_host
  <2>2. Cardinality(Chosen \cup {t}) = Cardinality(Chosen) + 1
    <3> HIDE DEF Chosen
    <3> QED
      BY <1>1, <2>1, FS_AddElement
  <2>3. rr' <= rr + 1 \/ rr' \in SshHosts
    BY <1>2, IdleInRange DEF _pick_host
  <2>4. rr' \in Nat
    OBVIOUS
  <2>5. rr <= NHosts + Cardinality(Chosen)
    BY DEF RotationHolds
  <2> HIDE DEF Chosen
  <2>6. rr' <= NHosts + Cardinality(Chosen')
    BY <1>1, <2>1, <2>2, <2>3, <2>4, <2>5 DEF SshHosts
  <2> QED
    BY <2>6 DEF RotationHolds, Chosen
<1>3. ASSUME rr' = rr, \A t \in Tasks : sAt'[t] = "call" <=> sAt[t] = "call"
      PROVE  RotationHolds'
  <2>1. Chosen' = Chosen
    BY <1>3
  <2> QED
    BY <1>3, <2>1 DEF RotationHolds
<1>4. ASSUME NEW t \in Tasks, Enter(t) \/ Clean(t) PROVE RotationHolds'
  BY <1>3, <1>4 DEF Enter, Clean
<1>5. ASSUME NEW t \in Tasks,
             _rsync_to(t) \/ PushFails(t) \/ _ssh_run(t) \/ SshReturns(t) \/ _rsync_back(t)
      PROVE  RotationHolds'
  BY <1>3, <1>5 DEF _rsync_to, PushFails, _ssh_run, SshReturns, _rsync_back
<1>6. ASSUME NEW t \in Tasks, WorkerEnds(t) \/ SshGivesUp(t) PROVE RotationHolds'
  BY <1>3, <1>6 DEF WorkerEnds, SshGivesUp
<1>7. CASE UNCHANGED sshVars
  BY <1>3, <1>7 DEF sshVars
<1> QED
  BY <1>2, <1>4, <1>5, <1>6, <1>7 DEF SshNext, SshThread, Rsync

SshInv == SshShape /\ HasChosen /\ SlotsLent /\ WorkerIsHeard /\ RotationHolds

LEMMA SshInvInit == SshInit => SshInv
<1> SUFFICES ASSUME SshInit PROVE SshInv
  OBVIOUS
<1> USE DEF SshInit
<1>1. SshShape /\ HasChosen /\ WorkerIsHeard
  BY DEF SshShape, HasChosen, WorkerIsHeard
<1>2. SlotsLent
  <2>1. \A h \in SshHosts : Working(h) = {}
    BY DEF Working, InSlot
  <2> QED
    BY <2>1, FS_EmptySet DEF SlotsLent
<1>3. RotationHolds
  <2>1. {t \in Tasks : sAt[t] # "call"} = {}
    OBVIOUS
  <2> QED
    BY <2>1, FS_EmptySet DEF RotationHolds
<1> QED
  BY <1>1, <1>2, <1>3 DEF SshInv

LEMMA SshInvStep == SshInv /\ [SshNext]_sshVars => SshInv'
  BY SshShapeStep, SlotsLentStep, WorkerIsHeardStep, RotationHoldsStep DEF SshInv

LEMMA SshInvIsTyped == SshInv => SshTypeOK
<1> SUFFICES ASSUME SshInv PROVE SshTypeOK
  OBVIOUS
<1> USE DEF SshInv, SshShape
<1>1. rr \in 0..(NHosts + Cardinality(Tasks))
  <2> DEFINE Chosen == {t \in Tasks : sAt[t] # "call"}
  <2>1. Cardinality(Chosen) <= Cardinality(Tasks)
    <3>1. Chosen \subseteq Tasks
      OBVIOUS
    <3> HIDE DEF Chosen
    <3> QED
      BY <3>1, FS_Subset
  <2>2. Cardinality(Tasks) \in Nat /\ Cardinality(Chosen) \in Nat
    <3>1. Chosen \subseteq Tasks
      OBVIOUS
    <3> HIDE DEF Chosen
    <3> QED
      BY <3>1, FS_Subset, FS_CardinalityType
  <2>3. rr <= NHosts + Cardinality(Chosen)
    BY DEF RotationHolds
  <2> HIDE DEF Chosen
  <2> QED
    BY <2>1, <2>2, <2>3
<1>2. free \in [SshHosts -> 0..HostSlots]
  <2>1. \A h \in SshHosts : free[h] \in 0..HostSlots
    BY WorkingIsFinite DEF SlotsLent
  <2> QED
    BY <2>1
<1> QED
  BY <1>1, <1>2 DEF SshTypeOK

-----------------------------------------------------------------------------
(* SSH implements Backend.                                                  *)

LEMMA FreeIsCounted == SshInv => SshFree \in Nat /\ \A h \in SshHosts : SshFree >= free[h]
<1> SUFFICES ASSUME SshInv PROVE SshFree \in Nat /\ \A h \in SshHosts : SshFree >= free[h]
  OBVIOUS
<1>1. free \in Counters(NHosts) /\ \A i \in 0..(NHosts - 1) : free[i] >= 0
  BY DEF SshInv, SshShape, SlotsLent, SshHosts, Counters
<1> QED
  BY <1>1, SumIsNatural DEF SshFree, SshHosts

LEMMA FreeShifts ==
  ASSUME SshShape, NEW h \in SshHosts, NEW d \in {-1, 1},
         free' = [free EXCEPT ![h] = @ + d]
  PROVE  SshFree' = SshFree + d
<1> DEFINE after == [free EXCEPT ![h] = @ + d]
<1>1. free \in Counters(NHosts) /\ after \in Counters(NHosts)
  BY DEF SshShape, SshHosts, Counters
<1>2. h \in 0..(NHosts - 1) /\ d \in Int /\ NHosts \in Nat
  BY DEF SshHosts
<1>3. after[h] = free[h] + d /\ \A i \in 0..(NHosts - 1) : i # h => after[i] = free[i]
  BY <1>1 DEF Counters, SshHosts
<1> HIDE DEF after
<1>4. SumTo(after, NHosts)[NHosts] = SumTo(free, NHosts)[NHosts] + d
  BY <1>1, <1>2, <1>3, SumShifts
<1>5. free' = after
  BY DEF after
<1> QED
  BY <1>4, <1>5 DEF SshFree

LEMMA StepOfSsh == SshInv /\ SshNext => [SshPromise!Next]_SshPromise!promised
<1> SUFFICES ASSUME SshInv, SshNext
             PROVE  SshPromise!Next \/ UNCHANGED <<SshCall, SshFree, SshFit>>
  BY DEF SshPromise!promised
<1> DEFINE Stays == UNCHANGED <<SshCall, SshFree, SshFit>>
<1> USE DEF SshInv, SshShape, HasChosen, WorkerIsHeard, SshCall, SshFit, InSlot, SshGoto
<1>1. ASSUME NEW t \in Tasks, _pick_host(t) PROVE Stays
  <2>1. UNCHANGED <<SshCall, SshFit>>
    BY <1>1 DEF _pick_host
  <2>2. UNCHANGED SshFree
    BY <1>1 DEF _pick_host, SshFree
  <2> QED
    BY <2>1, <2>2
<1>2. ASSUME NEW t \in Tasks, Enter(t) PROVE SshPromise!Enter(t)
  <2>1. on[t] \in SshHosts /\ free[on[t]] > 0 /\ free' = [free EXCEPT ![on[t]] = @ + -1]
    BY <1>2 DEF Enter
  <2>2. SshFree' = SshFree + -1
    BY <2>1, FreeShifts
  <2>3. SshFree > 0 /\ SshFree \in Nat
    BY <2>1, FreeIsCounted
  <2> QED
    BY <1>2, <2>2, <2>3 DEF Enter, SshPromise!Enter
<1>3. ASSUME NEW t \in Tasks, Clean(t)
      PROVE  \E how \in {"ok", "bad", "raised"} : SshPromise!Leave(t, how)
  <2>1. on[t] \in SshHosts /\ free' = [free EXCEPT ![on[t]] = @ + 1]
    BY <1>3 DEF Clean
  <2>2. SshFree' = SshFree + 1
    BY <2>1, FreeShifts
  <2>3. CASE sRc[t] = "raise"
    <3>1. SshPromise!Leave(t, "raised")
      BY <1>3, <2>2, <2>3 DEF Clean, SshPromise!Leave
    <3> QED
      BY <3>1
  <2>4. CASE sRc[t] # "raise"
    <3>1. PICK how \in {"ok", "bad"} : how = Reports(t, sRc[t])
      BY DEF Reports
    <3>2. how = "ok" => t \in SshFit
      BY <3>1 DEF Reports, Found
    <3>3. SshPromise!Leave(t, how)
      BY <1>3, <2>2, <2>4, <3>1, <3>2 DEF Clean, SshPromise!Leave
    <3> QED
      BY <3>3
  <2> QED
    BY <2>3, <2>4
<1>4. ASSUME NEW t \in Tasks,
             _rsync_to(t) \/ PushFails(t) \/ _ssh_run(t) \/ SshReturns(t) \/ SshGivesUp(t)
      PROVE  Stays
  BY <1>4 DEF _rsync_to, PushFails, _ssh_run, SshReturns, SshGivesUp, SshFree
<1>5. ASSUME NEW t \in Tasks, _rsync_back(t) \/ WorkerEnds(t)
      PROVE  Stays \/ SshPromise!Fits(t)
  BY <1>5 DEF _rsync_back, WorkerEnds, SshFree, SshPromise!Fits
<1> HIDE DEF SshInv, SshShape, HasChosen, WorkerIsHeard, SshCall, SshFit, InSlot, SshGoto, Stays
<1> QED
  BY <1>1, <1>2, <1>3, <1>4, <1>5, Zenon DEF SshNext, SshThread, Rsync, SshPromise!Next, Stays

LEMMA SshStartsAsBackend == SshInit => SshPromise!Init
<1> SUFFICES ASSUME SshInit PROVE SshPromise!Init
  OBVIOUS
<1>1. SshFree \in Nat
  BY SshInvInit, FreeIsCounted
<1>2. SshFit = {}
  BY DEF SshInit, SshFit
<1>3. \A t \in Tasks : sAt[t] = "call"
  BY DEF SshInit
<1>4. SshCall = [t \in Tasks |-> "asked"]
  BY <1>3 DEF SshCall, InSlot
<1> QED
  BY <1>1, <1>2, <1>4 DEF SshPromise!Init

-----------------------------------------------------------------------------
(* GitHub: the parts of the inductive invariant.                            *)

\* Types, but for the bounds of what is counted.
GhaShape ==
  /\ titled \in BOOLEAN /\ littered \in BOOLEAN
  /\ gFree \in Int
  /\ gAt \in [Seeds -> {"call", "done", "raised"} \cup InGha]
  /\ polls \in [Seeds -> 0..MaxPolls]
  /\ runs \in Seq(Seeds)
  /\ hidden \subseteq Seeds
  /\ state \in [Seeds -> {"none", "active", "success", "failure"}]
  /\ chosen \in [Seeds -> Seeds \cup {None}]
  /\ got \in [Seeds -> Seeds \cup {None, Earlier}]
  /\ gOut \in [Seeds -> {"none", "ok", "bad"}]

Before == {"call", "publish", "dispatch"}

\* A seed is dispatched once: until then there is no run of it, and from then on its
\* run is shown at most once.
RunsAreOnce ==
  /\ \A t \in Seeds : gAt[t] \in Before =>
       /\ state[t] = "none" /\ t \notin hidden
       /\ \A i \in 1..Len(runs) : runs[i] # t
  /\ \A i, j \in 1..Len(runs) : runs[i] = runs[j] => i = j
  /\ \A i \in 1..Len(runs) : runs[i] \notin hidden

\* A task waits for a run it has found, and takes the artifact of one that succeeded:
\* a run that has ended stays as it ended.  A task that has a bitstream then waited for
\* its own run, if no other is mentioned by its name.
RunsAreHeard ==
  \A t \in Seeds :
    /\ gAt[t] \in {"await", "download"} => chosen[t] \in Seeds
    /\ gAt[t] = "download" => state[chosen[t]] = "success"
    /\ Within \subseteq Same /\ got[t] # None => state[t] = "success"

GhaInside == {t \in Seeds : gAt[t] \in InGha}

GhaSlotsLent == gFree >= 0 /\ gFree + Cardinality(GhaInside) = Parallel

LEMMA GhaShapeStep ==
  GhaShape /\ RunsAreHeard /\ [GhaNext]_ghaVars => GhaShape'
<1> SUFFICES ASSUME GhaShape, RunsAreHeard, [GhaNext]_ghaVars PROVE GhaShape'
  OBVIOUS
<1> USE DEF GhaShape, GhaGoto, GhaLeave, InGha
<1>1. ASSUME NEW t \in Seeds, GhaEnter(t) PROVE GhaShape'
  BY <1>1 DEF GhaEnter
<1>2. ASSUME NEW t \in Seeds, _publish_sandbox(t) PROVE GhaShape'
  BY <1>2 DEF _publish_sandbox
<1>3. ASSUME NEW t \in Seeds, _dispatch_workflow(t) PROVE GhaShape'
  BY <1>3 DEF _dispatch_workflow
<1>4. ASSUME NEW t \in Seeds, GhaRaises(t) PROVE GhaShape'
  BY <1>4 DEF GhaRaises
<1>5. ASSUME NEW t \in Seeds, Find(t) PROVE GhaShape'
  <2>1. CASE titled /\ runs # <<>>
    <3>1. PICK u \in Seeds : u = runs[Len(runs)]
      BY <2>1
    <3> QED
      BY <1>5, <2>1, <3>1 DEF Find
  <2>2. CASE ~(titled /\ runs # <<>>)
    <3>1. polls[t] + 1 \in 0..MaxPolls /\ polls' = [polls EXCEPT ![t] = polls[t] + 1]
      BY <1>5, <2>2 DEF Find
    <3>2. polls' \in [Seeds -> 0..MaxPolls]
      BY <3>1
    <3>3. gAt' = [gAt EXCEPT ![t] = "find"] /\ UNCHANGED chosen
      BY <1>5, <2>2 DEF Find
    <3>4. gAt' \in [Seeds -> {"call", "done", "raised"} \cup InGha]
      BY <3>3
    <3>5. UNCHANGED <<titled, littered, gFree, runs, hidden, state, got, gOut>>
      BY <1>5 DEF Find
    <3> QED
      BY <3>2, <3>3, <3>4, <3>5
  <2> QED
    BY <2>1, <2>2
<1>6. ASSUME NEW t \in Seeds, NotFound(t) PROVE GhaShape'
  BY <1>6 DEF NotFound
<1>7. ASSUME NEW t \in Seeds, _await_run(t) PROVE GhaShape'
  BY <1>7 DEF _await_run
<1>8. ASSUME NEW t \in Seeds, AwaitFails(t) \/ AwaitTimesOut(t) PROVE GhaShape'
  <2>1. CASE AwaitFails(t)
    BY <2>1 DEF AwaitFails
  <2>2. CASE AwaitTimesOut(t)
    BY <2>2 DEF AwaitTimesOut
  <2> QED
    BY <1>8, <2>1, <2>2
<1>9. ASSUME NEW t \in Seeds, _download_artifact(t) PROVE GhaShape'
  <2>1. chosen[t] \in Seeds
    BY <1>9 DEF _download_artifact, RunsAreHeard
  <2>2. got' = got \/ \E file \in {chosen[t], Earlier} : got' = [got EXCEPT ![t] = file]
    BY <1>9 DEF _download_artifact, Left
  <2>3. gOut' = [gOut EXCEPT ![t] = "ok"] \/ gOut' = [gOut EXCEPT ![t] = "bad"]
    BY <1>9 DEF _download_artifact
  <2>4. got' \in [Seeds -> Seeds \cup {None, Earlier}]
    <3>1. ASSUME NEW file \in {chosen[t], Earlier}, got' = [got EXCEPT ![t] = file]
          PROVE  got' \in [Seeds -> Seeds \cup {None, Earlier}]
      <4>1. file \in Seeds \cup {None, Earlier}
        BY <2>1
      <4> QED
        BY <3>1, <4>1
    <3> QED
      BY <2>2, <3>1
  <2>5. gOut' \in [Seeds -> {"none", "ok", "bad"}]
    BY <2>3
  <2> QED
    BY <1>9, <2>4, <2>5 DEF _download_artifact
<1>10. ASSUME NEW t \in Seeds, Show(t) PROVE GhaShape'
  BY <1>10 DEF Show
<1>11. ASSUME NEW t \in Seeds, RunEnds(t) PROVE GhaShape'
  BY <1>11 DEF RunEnds
<1>12. CASE UNCHANGED ghaVars
  BY <1>12 DEF ghaVars
<1> QED
  BY <1>1, <1>2, <1>3, <1>4, <1>5, <1>6, <1>7, <1>8, <1>9, <1>10, <1>11, <1>12
  DEF GhaNext, GhaThread

LEMMA RunsAreOnceStep ==
  GhaShape /\ RunsAreOnce /\ [GhaNext]_ghaVars => RunsAreOnce'
<1> SUFFICES ASSUME GhaShape, RunsAreOnce, [GhaNext]_ghaVars PROVE RunsAreOnce'
  OBVIOUS
<1> USE DEF GhaShape, RunsAreOnce, GhaGoto, GhaLeave, InGha, Before
<1>1. ASSUME NEW t \in Seeds, GhaEnter(t) \/ _publish_sandbox(t) \/ _dispatch_workflow(t)
      PROVE  RunsAreOnce'
  <2>1. CASE GhaEnter(t)
    BY <2>1 DEF GhaEnter
  <2>2. CASE _publish_sandbox(t)
    BY <2>2 DEF _publish_sandbox
  <2>3. CASE _dispatch_workflow(t)
    BY <2>3 DEF _dispatch_workflow
  <2> QED
    BY <1>1, <2>1, <2>2, <2>3
<1>2. ASSUME NEW t \in Seeds, GhaRaises(t) PROVE RunsAreOnce'
  BY <1>2 DEF GhaRaises
<1>3. ASSUME NEW t \in Seeds, Find(t) PROVE RunsAreOnce'
  BY <1>3 DEF Find
<1>4. ASSUME NEW t \in Seeds,
             NotFound(t) \/ _await_run(t) \/ AwaitFails(t) \/ AwaitTimesOut(t)
      PROVE  RunsAreOnce'
  BY <1>4 DEF NotFound, _await_run, AwaitFails, AwaitTimesOut
<1>5. ASSUME NEW t \in Seeds, _download_artifact(t) PROVE RunsAreOnce'
  BY <1>5 DEF _download_artifact
<1>6. ASSUME NEW t \in Seeds, Show(t) PROVE RunsAreOnce'
  <2>1. /\ Len(runs) \in Nat /\ Len(runs') = Len(runs) + 1
        /\ runs'[Len(runs) + 1] = t
        /\ \A i \in 1..Len(runs) : runs'[i] = runs[i]
    BY <1>6 DEF Show
  <2>2. \A i \in 1..Len(runs) : runs[i] # t
    BY <1>6 DEF Show
  <2> QED
    BY <1>6, <2>1, <2>2 DEF Show
<1>7. ASSUME NEW t \in Seeds, RunEnds(t) PROVE RunsAreOnce'
  BY <1>7 DEF RunEnds
<1>8. CASE UNCHANGED ghaVars
  BY <1>8 DEF ghaVars
<1> QED
  BY <1>1, <1>2, <1>3, <1>4, <1>5, <1>6, <1>7, <1>8 DEF GhaNext, GhaThread

LEMMA RunsAreHeardStep ==
  GhaShape /\ RunsAreOnce /\ RunsAreHeard /\ [GhaNext]_ghaVars => RunsAreHeard'
<1> SUFFICES ASSUME GhaShape, RunsAreOnce, RunsAreHeard, [GhaNext]_ghaVars PROVE RunsAreHeard'
  OBVIOUS
<1> USE DEF GhaShape, RunsAreHeard, GhaGoto, GhaLeave, InGha
<1>1. ASSUME NEW t \in Seeds, GhaEnter(t) \/ _publish_sandbox(t) PROVE RunsAreHeard'
  BY <1>1 DEF GhaEnter, _publish_sandbox
<1>2. ASSUME NEW t \in Seeds, _dispatch_workflow(t) \/ GhaRaises(t) PROVE RunsAreHeard'
  <2>1. \A u \in Seeds : state[u] = "success" => state'[u] = "success"
    BY <1>2 DEF _dispatch_workflow, GhaRaises, RunsAreOnce, Before
  <2>2. /\ UNCHANGED <<chosen, got>>
        /\ \A u \in Seeds : gAt'[u] \in {"await", "download"} => gAt'[u] = gAt[u]
    BY <1>2 DEF _dispatch_workflow, GhaRaises
  <2> QED
    BY <2>1, <2>2
<1>3. ASSUME NEW t \in Seeds, Find(t) PROVE RunsAreHeard'
  <2>1. runs # <<>> => runs[Len(runs)] \in Seeds
    OBVIOUS
  <2>2. UNCHANGED <<state, got>>
    BY <1>3 DEF Find
  <2>3. \A u \in Seeds : gAt'[u] \in {"await", "download"} => chosen'[u] \in Seeds
    <3>1. CASE titled /\ runs # <<>>
      <4>1. /\ gAt' = [gAt EXCEPT ![t] = "await"] /\ chosen' = [chosen EXCEPT ![t] = runs[Len(runs)]]
            /\ runs[Len(runs)] \in Seeds
        BY <1>3, <2>1, <3>1 DEF Find
      <4> QED
        BY <4>1
    <3>2. CASE ~(titled /\ runs # <<>>)
      BY <1>3, <3>2 DEF Find
    <3> QED
      BY <3>1, <3>2
  <2>4. \A u \in Seeds : gAt'[u] = "download" => gAt[u] = "download" /\ chosen'[u] = chosen[u]
    BY <1>3 DEF Find
  <2> QED
    BY <2>2, <2>3, <2>4
<1>4. ASSUME NEW t \in Seeds,
             NotFound(t) \/ _await_run(t) \/ AwaitFails(t) \/ AwaitTimesOut(t)
      PROVE  RunsAreHeard'
  BY <1>4 DEF NotFound, _await_run, AwaitFails, AwaitTimesOut
<1>5. ASSUME NEW t \in Seeds, _download_artifact(t) PROVE RunsAreHeard'
  <2>1. Within \subseteq Same /\ Mentions(t, chosen[t]) => chosen[t] = t
    BY DEF Mentions, Same
  <2>2. /\ gAt[t] = "download" /\ gAt' = [gAt EXCEPT ![t] = "done"] /\ state[chosen[t]] = "success"
        /\ UNCHANGED <<state, chosen>>
        /\ \/ UNCHANGED got
           \/ Mentions(t, chosen[t]) /\ \E file : got' = [got EXCEPT ![t] = file]
    BY <1>5 DEF _download_artifact
  <2> QED
    BY <2>1, <2>2
<1>6. ASSUME NEW t \in Seeds, Show(t) \/ RunEnds(t) PROVE RunsAreHeard'
  BY <1>6 DEF Show, RunEnds
<1>7. CASE UNCHANGED ghaVars
  BY <1>7 DEF ghaVars
<1> QED
  BY <1>1, <1>2, <1>3, <1>4, <1>5, <1>6, <1>7 DEF GhaNext, GhaThread

LEMMA GhaInsideIsFinite == IsFiniteSet(GhaInside) /\ Cardinality(GhaInside) \in Nat
<1>1. GhaInside \subseteq Seeds
  BY DEF GhaInside
<1> QED
  BY <1>1, FS_Subset, FS_CardinalityType

\* A slot is taken by who goes in, and given back by who comes out, and by nobody else.
LEMMA GhaSlotStep ==
  GhaShape /\ [GhaNext]_ghaVars =>
    \/ gFree' = gFree /\ GhaInside' = GhaInside
    \/ /\ gFree > 0 /\ gFree' = gFree - 1
       /\ \E t \in Seeds \ GhaInside : GhaInside' = GhaInside \cup {t}
    \/ /\ gFree' = gFree + 1
       /\ \E t \in GhaInside : GhaInside' = GhaInside \ {t}
<1> SUFFICES ASSUME GhaShape, [GhaNext]_ghaVars
             PROVE  \/ gFree' = gFree /\ GhaInside' = GhaInside
                    \/ /\ gFree > 0 /\ gFree' = gFree - 1
                       /\ \E t \in Seeds \ GhaInside : GhaInside' = GhaInside \cup {t}
                    \/ /\ gFree' = gFree + 1
                       /\ \E t \in GhaInside : GhaInside' = GhaInside \ {t}
  OBVIOUS
<1> DEFINE Stays == gFree' = gFree /\ GhaInside' = GhaInside
           Out(t) == gFree' = gFree + 1 /\ t \in GhaInside /\ GhaInside' = GhaInside \ {t}
<1> USE DEF GhaShape, GhaGoto, GhaLeave, InGha, GhaInside
<1>1. ASSUME NEW t \in Seeds, GhaEnter(t)
      PROVE  /\ gFree > 0 /\ gFree' = gFree - 1
             /\ t \in Seeds \ GhaInside /\ GhaInside' = GhaInside \cup {t}
  BY <1>1 DEF GhaEnter
<1>2. ASSUME NEW t \in Seeds,
             _publish_sandbox(t) \/ _dispatch_workflow(t) \/ Find(t) \/ _await_run(t)
      PROVE  Stays
  BY <1>2 DEF _publish_sandbox, _dispatch_workflow, Find, _await_run
<1>3. ASSUME NEW t \in Seeds, GhaRaises(t) \/ NotFound(t) PROVE Out(t)
  BY <1>3 DEF GhaRaises, NotFound
<1>4. ASSUME NEW t \in Seeds, AwaitFails(t) \/ AwaitTimesOut(t) \/ _download_artifact(t)
      PROVE  Out(t)
  BY <1>4 DEF AwaitFails, AwaitTimesOut, _download_artifact
<1>5. ASSUME NEW t \in Seeds, Show(t) \/ RunEnds(t) PROVE Stays
  BY <1>5 DEF Show, RunEnds
<1>6. CASE UNCHANGED ghaVars
  BY <1>6 DEF ghaVars
<1> HIDE DEF GhaShape, GhaGoto, GhaLeave, InGha, GhaInside
<1> QED
  BY <1>1, <1>2, <1>3, <1>4, <1>5, <1>6 DEF GhaNext, GhaThread

LEMMA GhaSlotsLentStep ==
  GhaShape /\ GhaSlotsLent /\ [GhaNext]_ghaVars => GhaSlotsLent'
<1> SUFFICES ASSUME GhaShape, GhaSlotsLent, [GhaNext]_ghaVars PROVE GhaSlotsLent'
  OBVIOUS
<1> USE DEF GhaSlotsLent
<1>1. CASE gFree' = gFree /\ GhaInside' = GhaInside
  BY <1>1
<1>2. ASSUME gFree > 0, gFree' = gFree - 1,
             NEW t \in Seeds \ GhaInside, GhaInside' = GhaInside \cup {t}
      PROVE  GhaSlotsLent'
  <2>1. Cardinality(GhaInside \cup {t}) = Cardinality(GhaInside) + 1
    BY GhaInsideIsFinite, FS_AddElement
  <2> QED
    BY <1>2, <2>1, GhaInsideIsFinite DEF GhaShape
<1>3. ASSUME gFree' = gFree + 1, NEW t \in GhaInside, GhaInside' = GhaInside \ {t}
      PROVE  GhaSlotsLent'
  <2>1. Cardinality(GhaInside \ {t}) = Cardinality(GhaInside) - 1
    BY GhaInsideIsFinite, FS_RemoveElement
  <2> QED
    BY <1>3, <2>1, GhaInsideIsFinite DEF GhaShape
<1> QED
  BY <1>1, <1>2, <1>3, GhaSlotStep

GhaInv == GhaShape /\ RunsAreOnce /\ RunsAreHeard /\ GhaSlotsLent

LEMMA GhaInvInit == GhaInit => GhaInv
<1> SUFFICES ASSUME GhaInit PROVE GhaInv
  OBVIOUS
<1> USE DEF GhaInit
<1>1. GhaShape
  BY DEF GhaShape
<1>2. RunsAreOnce /\ RunsAreHeard
  BY DEF RunsAreOnce, RunsAreHeard
<1>3. GhaSlotsLent
  <2>1. GhaInside = {}
    BY DEF GhaInside, InGha
  <2> QED
    BY <2>1, FS_EmptySet DEF GhaSlotsLent
<1> QED
  BY <1>1, <1>2, <1>3 DEF GhaInv

LEMMA GhaInvStep == GhaInv /\ [GhaNext]_ghaVars => GhaInv'
  BY GhaShapeStep, RunsAreOnceStep, RunsAreHeardStep, GhaSlotsLentStep DEF GhaInv

\* No more runs than seeds, as no seed has two.
LEMMA GhaInvIsTyped == GhaInv => GhaTypeOK
<1> SUFFICES ASSUME GhaInv PROVE GhaTypeOK
  OBVIOUS
<1> USE DEF GhaInv, GhaShape
<1>1. gFree \in 0..Parallel
  BY GhaInsideIsFinite DEF GhaSlotsLent
<1>2. runs \in UNION {[1..n -> Seeds] : n \in 0..Cardinality(Seeds)}
  <2>1. runs \in [1..Len(runs) -> Seeds] /\ Len(runs) \in Nat
    OBVIOUS
  <2>2. runs \in Injection(1..Len(runs), Seeds)
    BY <2>1 DEF RunsAreOnce, Injection, IsInjective
  <2>3. Cardinality(1..Len(runs)) <= Cardinality(Seeds)
    BY <2>2, FS_Injection
  <2>4. Cardinality(1..Len(runs)) = Len(runs)
    <3>1. Cardinality(1..Len(runs)) = IF 1 > Len(runs) THEN 0 ELSE Len(runs) - 1 + 1
      BY <2>1, FS_Interval
    <3> QED
      BY <2>1, <3>1
  <2>5. Len(runs) \in 0..Cardinality(Seeds)
    BY <2>1, <2>3, <2>4, FS_CardinalityType
  <2> QED
    BY <2>1, <2>5
<1> QED
  BY <1>1, <1>2 DEF GhaTypeOK

-----------------------------------------------------------------------------
(* GitHub implements Backend.                                               *)

LEMMA NoneEarlier == \A t \in Seeds : None \notin {t} \cup Left
  BY GhaAssumption, EarlierAssumption DEF Left

LEMMA StepOfGha ==
  ASSUME Within \subseteq Same, GhaInv, GhaNext
  PROVE  [GhaPromise!Next]_GhaPromise!promised
<1> SUFFICES GhaPromise!Next \/ UNCHANGED <<GhaCall, gFree, GhaFit>>
  BY DEF GhaPromise!promised
<1> DEFINE Stays == UNCHANGED <<GhaCall, gFree, GhaFit>>
<1> USE DEF GhaInv, GhaShape, RunsAreHeard, GhaCall, GhaFit, InGha, GhaGoto, GhaLeave
<1>1. ASSUME NEW t \in Seeds, GhaEnter(t) PROVE GhaPromise!Enter(t)
  <2>1. gFree > 0 /\ gFree' = gFree - 1 /\ GhaFit' = GhaFit
    BY <1>1 DEF GhaEnter, Left
  <2>2. GhaCall[t] = "asked" /\ GhaCall' = [GhaCall EXCEPT ![t] = "inside"]
    BY <1>1 DEF GhaEnter
  <2> QED
    BY <2>1, <2>2 DEF GhaPromise!Enter
<1>2. ASSUME NEW t \in Seeds,
             _publish_sandbox(t) \/ Find(t) \/ _await_run(t) \/ Show(t) \/ RunEnds(t)
      PROVE  Stays
  BY <1>2, NoneEarlier DEF _publish_sandbox, Find, _await_run, Show, RunEnds, Left
<1>3. ASSUME NEW t \in Seeds, _dispatch_workflow(t) PROVE Stays
  BY <1>3, NoneEarlier DEF _dispatch_workflow, RunsAreOnce, Before, Left
<1>4. ASSUME NEW t \in Seeds, GhaRaises(t) PROVE GhaPromise!Leave(t, "raised")
  <2>1. GhaFit' = GhaFit
    BY <1>4, NoneEarlier DEF GhaRaises, RunsAreOnce, Before, Left
  <2>2. GhaCall[t] = "inside" /\ GhaCall' = [GhaCall EXCEPT ![t] = "raised"]
    <3>1. gAt[t] \in InGha /\ gAt' = [gAt EXCEPT ![t] = "raised"] /\ gOut' = gOut
      BY <1>4 DEF GhaRaises
    <3> QED
      BY <3>1
  <2> QED
    BY <1>4, <2>1, <2>2 DEF GhaRaises, GhaPromise!Leave
<1>5. ASSUME NEW t \in Seeds, NotFound(t) PROVE GhaPromise!Leave(t, "raised")
  BY <1>5 DEF NotFound, GhaPromise!Leave, Left
<1>6. ASSUME NEW t \in Seeds, AwaitFails(t) \/ AwaitTimesOut(t)
      PROVE  GhaPromise!Leave(t, "bad")
  <2>1. GhaFit' = GhaFit /\ gFree' = gFree + 1
    BY <1>6 DEF AwaitFails, AwaitTimesOut, Left
  <2>2. GhaCall[t] = "inside" /\ GhaCall' = [GhaCall EXCEPT ![t] = "bad"]
    <3>1. /\ gAt[t] = "await" /\ gAt' = [gAt EXCEPT ![t] = "done"]
          /\ gOut' = [gOut EXCEPT ![t] = "bad"]
      BY <1>6 DEF AwaitFails, AwaitTimesOut
    <3> QED
      BY <3>1
  <2> QED
    BY <2>1, <2>2 DEF GhaPromise!Leave
<1>7. ASSUME NEW t \in Seeds, _download_artifact(t)
      PROVE  GhaPromise!Leave(t, "ok") \/ GhaPromise!Leave(t, "bad")
  <2>1. Mentions(t, chosen[t]) => chosen[t] = t
    BY DEF Mentions, Same
  <2>2. state[chosen[t]] = "success" /\ gFree' = gFree + 1 /\ GhaCall[t] = "inside"
    BY <1>7 DEF _download_artifact
  <2>3. CASE gOut' = [gOut EXCEPT ![t] = "bad"]
    <3>1. GhaFit' = GhaFit
      BY <1>7, <2>3 DEF _download_artifact, Left
    <3>2. GhaCall' = [GhaCall EXCEPT ![t] = "bad"]
      BY <1>7, <2>3 DEF _download_artifact
    <3> QED
      BY <2>2, <3>1, <3>2 DEF GhaPromise!Leave
  <2>4. CASE gOut' = [gOut EXCEPT ![t] = "ok"]
    <3>1. /\ state' = state /\ Left' = Left /\ state[t] = "success"
          /\ \E file \in {t} \cup Left : got' = [got EXCEPT ![t] = file]
      BY <1>7, <2>1, <2>2, <2>4 DEF _download_artifact, Left
    <3>2. GhaFit' = GhaFit \cup {t}
      BY <3>1
    <3>3. GhaCall' = [GhaCall EXCEPT ![t] = "ok"]
      BY <1>7, <2>4 DEF _download_artifact
    <3> QED
      BY <2>2, <3>2, <3>3 DEF GhaPromise!Leave
  <2> QED
    BY <1>7, <2>3, <2>4 DEF _download_artifact
<1> HIDE DEF GhaInv, GhaShape, RunsAreHeard, GhaCall, GhaFit, InGha, GhaGoto, GhaLeave, Stays
<1> QED
  BY <1>1, <1>2, <1>3, <1>4, <1>5, <1>6, <1>7, Zenon
  DEF GhaNext, GhaThread, GhaPromise!Next, Stays

LEMMA GhaStartsAsBackend == GhaInit => GhaPromise!Init
<1> SUFFICES ASSUME GhaInit PROVE GhaPromise!Init
  OBVIOUS
<1>1. GhaFit = {} /\ gFree \in Nat
  BY DEF GhaInit, GhaFit
<1>2. \A t \in Seeds : gAt[t] = "call"
  BY DEF GhaInit
<1>3. GhaCall = [t \in Seeds |-> "asked"]
  BY <1>2 DEF GhaCall, InGha
<1> QED
  BY <1>1, <1>3 DEF GhaPromise!Init

-----------------------------------------------------------------------------
(* The machines: the parts of the inductive invariant.                      *)

Queues ==
  {<<>>, <<"result">>, <<"bitstream">>, <<"bitstream", "result">>, <<"result", "bitstream">>}

\* Types, but for the bounds of the semaphore.
CloudShape ==
  /\ urls \in BOOLEAN
  /\ cFree \in Int
  /\ cAt \in [Runs -> {"call", "done", "raised"} \cup InCloud]
  /\ machine \in [Runs -> {"none", "build", "upload", "idle", "gone"}]
  /\ made \in [Runs -> {"none"} \cup Made]
  /\ todo \in [Runs -> Queues]
  /\ store \in [Runs -> SUBSET Objects]
  /\ local \subseteq Runs
  /\ cOut \in [Runs -> {"none", "ok", "bad"}]

\* A machine is started once, by the task that is to wait for it, and nothing comes of it
\* before its build has ended: what the build made is settled then.
BuildsAreOnce ==
  \A t \in Runs :
    /\ cAt[t] \in {"call", "ship", "create"} => machine[t] = "none"
    /\ machine[t] \in {"none", "build"} =>
         made[t] = "none" /\ todo[t] = <<>> /\ store[t] = {} /\ t \notin local
    /\ machine[t] = "upload" => todo[t] # <<>> /\ made[t] # "none"

\* On AWS the bitstream goes first: where a result is, the bitstream is.
BitFirst ==
  pool = "aws" =>
    \A t \in Runs :
      /\ todo[t] \in {<<>>, <<"result">>, <<"bitstream", "result">>}
      /\ todo[t] = <<"result">> \/ "result" \in store[t] => "bitstream" \in store[t]
      /\ cAt[t] = "fetch" => "result" \in store[t]

CloudInside == {t \in Runs : cAt[t] \in InCloud}

CloudSlotsLent ==
  IF pool = "aws" THEN cFree = CloudSlots
  ELSE cFree >= 0 /\ cFree + Cardinality(CloudInside) = CloudSlots

\* Nothing has happened before the backend is chosen.
NotYetAsked == pool = "asked" => \A t \in Runs : cAt[t] = "call"

CloudStep == CloudNext /\ pool' = pool

LEMMA QueuesShrink ==
  ASSUME NEW q \in Queues, q # <<>>
  PROVE  /\ Head(q) \in Objects /\ Tail(q) \in Queues
         /\ Tail(q) # <<>> => q \in {<<"bitstream", "result">>, <<"result", "bitstream">>}
         /\ q = <<"bitstream", "result">> => Head(q) = "bitstream" /\ Tail(q) = <<"result">>
         /\ q = <<"result">> => Head(q) = "result" /\ Tail(q) = <<>>
<1>1. /\ Head(<<"result">>) = "result" /\ Tail(<<"result">>) = <<>>
      /\ Head(<<"bitstream">>) = "bitstream" /\ Tail(<<"bitstream">>) = <<>>
  OBVIOUS
<1>2. /\ Head(<<"bitstream", "result">>) = "bitstream"
      /\ Tail(<<"bitstream", "result">>) = <<"result">>
      /\ Head(<<"result", "bitstream">>) = "result"
      /\ Tail(<<"result", "bitstream">>) = <<"bitstream">>
  OBVIOUS
<1> QED
  BY <1>1, <1>2 DEF Queues, Objects

\* How a task that has had its answer comes back.
Answer(t) ==
  /\ cAt[t] \in {"poll", "fetch"} /\ cAt' = [cAt EXCEPT ![t] = "done"] /\ cFree' = Freed
  /\ \/ cOut' = [cOut EXCEPT ![t] = "ok"]
     \/ cOut' = [cOut EXCEPT ![t] = "bad"]
  /\ \/ local' = local
     \/ local' = local \cup {t} /\ machine[t] \notin {"none", "build"}
  /\ UNCHANGED <<urls, machine, made, todo, store>>

LEMMA AnswerStep ==
  ASSUME CloudShape, BuildsAreOnce, NEW t \in Runs, _fetch_object(t) \/ Answered(t)
  PROVE  Answer(t)
<1> USE DEF CloudGoto, CloudLeave
<1>1. \A here \in BOOLEAN : Report(t, here) =>
        /\ local' = local \/ (here /\ local' = local \cup {t})
        /\ cOut' = [cOut EXCEPT ![t] = "ok"] \/ cOut' = [cOut EXCEPT ![t] = "bad"]
  BY DEF Report
<1>2. CASE _fetch_object(t)
  <2>1. PICK here \in BOOLEAN : Report(t, here) /\ (here => "bitstream" \in store[t])
    <3>1. Report(t, FALSE) \/ Report(t, "bitstream" \in store[t])
      BY <1>2 DEF _fetch_object
    <3>2. ("bitstream" \in store[t]) \in BOOLEAN
      OBVIOUS
    <3> HIDE DEF Report
    <3> QED
      BY <3>1, <3>2, Zenon
  <2>2. here => machine[t] \notin {"none", "build"}
    BY <2>1 DEF BuildsAreOnce
  <2>3. /\ local' = local \/ (here /\ local' = local \cup {t})
        /\ cOut' = [cOut EXCEPT ![t] = "ok"] \/ cOut' = [cOut EXCEPT ![t] = "bad"]
    BY <1>1, <2>1
  <2> QED
    BY <1>2, <2>2, <2>3 DEF _fetch_object, Answer
<1>3. CASE Answered(t)
  <2>1. PICK here \in BOOLEAN : Report(t, here)
    <3>1. Report(t, made[t] \in WithBit)
      BY <1>3 DEF Answered
    <3>2. (made[t] \in WithBit) \in BOOLEAN
      OBVIOUS
    <3> HIDE DEF Report
    <3> QED
      BY <3>1, <3>2, Zenon
  <2>2. /\ local' = local \/ (here /\ local' = local \cup {t})
        /\ cOut' = [cOut EXCEPT ![t] = "ok"] \/ cOut' = [cOut EXCEPT ![t] = "bad"]
    BY <1>1, <2>1
  <2> QED
    BY <1>3, <2>2 DEF Answered, Answer
<1> QED
  BY <1>2, <1>3

LEMMA CloudShapeStep == CloudShape /\ BuildsAreOnce /\ CloudStep => CloudShape'
<1> SUFFICES ASSUME CloudShape, BuildsAreOnce, CloudStep PROVE CloudShape'
  OBVIOUS
<1> USE DEF CloudShape, CloudGoto, CloudLeave, InCloud, Freed
<1>1. ASSUME NEW t \in Runs, CloudEnter(t) \/ _upload_sandbox(t) PROVE CloudShape'
  BY <1>1 DEF CloudEnter, _upload_sandbox
<1>2. ASSUME NEW t \in Runs, _launch(t) \/ LaunchRefused(t) PROVE CloudShape'
  BY <1>2 DEF _launch, LaunchRefused
<1>3. ASSUME NEW t \in Runs, CloudRaises(t) PROVE CloudShape'
  BY <1>3 DEF CloudRaises
<1>4. ASSUME NEW t \in Runs, _poll_object(t) \/ PollTimesOut(t) PROVE CloudShape'
  BY <1>4 DEF _poll_object, PollTimesOut
<1>5. ASSUME NEW t \in Runs, _fetch_object(t) \/ Answered(t) PROVE CloudShape'
  BY <1>5, AnswerStep DEF Answer
<1>6. ASSUME NEW t \in Runs, MachineBuilds(t) PROVE CloudShape'
  <2>1. PICK end \in Made : /\ made' = [made EXCEPT ![t] = end]
                            /\ todo' = [todo EXCEPT ![t] = ToUpload(end)]
    BY <1>6 DEF MachineBuilds
  <2>2. ToUpload(end) \in Queues
    BY DEF ToUpload, Queues
  <2>3. machine' \in [Runs -> {"none", "build", "upload", "idle", "gone"}]
    BY <1>6 DEF MachineBuilds, Done
  <2> QED
    BY <1>6, <2>1, <2>2, <2>3 DEF MachineBuilds
<1>7. ASSUME NEW t \in Runs, Upload(t) PROVE CloudShape'
  <2>1. Head(todo[t]) \in Objects /\ Tail(todo[t]) \in Queues
    BY <1>7, QueuesShrink DEF Upload, BuildsAreOnce
  <2>2. machine' \in [Runs -> {"none", "build", "upload", "idle", "gone"}]
    BY <1>7 DEF Upload, Done
  <2> QED
    BY <1>7, <2>1, <2>2 DEF Upload
<1>8. ASSUME NEW t \in Runs, UploadFails(t) \/ Interrupted(t) PROVE CloudShape'
  BY <1>8 DEF UploadFails, Interrupted, Done, Queues, Made
<1> QED
  BY <1>1, <1>2, <1>3, <1>4, <1>5, <1>6, <1>7, <1>8 DEF CloudStep, CloudNext, CloudThread

LEMMA BuildsAreOnceStep == CloudShape /\ BuildsAreOnce /\ CloudStep => BuildsAreOnce'
<1> SUFFICES ASSUME CloudShape, BuildsAreOnce, CloudStep PROVE BuildsAreOnce'
  OBVIOUS
<1> USE DEF CloudShape, BuildsAreOnce, CloudGoto, CloudLeave, InCloud
<1>1. ASSUME NEW t \in Runs, CloudEnter(t) \/ _upload_sandbox(t) PROVE BuildsAreOnce'
  BY <1>1 DEF CloudEnter, _upload_sandbox
<1>2. ASSUME NEW t \in Runs, _launch(t) \/ LaunchRefused(t) PROVE BuildsAreOnce'
  BY <1>2 DEF _launch, LaunchRefused
<1>3. ASSUME NEW t \in Runs, CloudRaises(t) PROVE BuildsAreOnce'
  BY <1>3 DEF CloudRaises
<1>4. ASSUME NEW t \in Runs, _poll_object(t) \/ PollTimesOut(t) PROVE BuildsAreOnce'
  BY <1>4 DEF _poll_object, PollTimesOut
<1>5. ASSUME NEW t \in Runs, _fetch_object(t) \/ Answered(t) PROVE BuildsAreOnce'
  BY <1>5, AnswerStep DEF Answer
<1>6. ASSUME NEW t \in Runs, MachineBuilds(t) PROVE BuildsAreOnce'
  BY <1>6 DEF MachineBuilds, Done, Made
<1>7. ASSUME NEW t \in Runs, Upload(t) PROVE BuildsAreOnce'
  BY <1>7 DEF Upload, Done
<1>8. ASSUME NEW t \in Runs, UploadFails(t) \/ Interrupted(t) PROVE BuildsAreOnce'
  BY <1>8 DEF UploadFails, Interrupted, Done
<1> QED
  BY <1>1, <1>2, <1>3, <1>4, <1>5, <1>6, <1>7, <1>8 DEF CloudStep, CloudNext, CloudThread

LEMMA BitFirstStep == CloudShape /\ BuildsAreOnce /\ BitFirst /\ CloudStep => BitFirst'
<1> SUFFICES ASSUME CloudShape, BuildsAreOnce, BitFirst, CloudStep, pool = "aws" PROVE BitFirst'
  BY DEF BitFirst, CloudStep
<1> USE DEF CloudShape, BitFirst, CloudGoto, CloudLeave, InCloud
<1>1. ASSUME NEW t \in Runs, CloudEnter(t) \/ _upload_sandbox(t) \/ _launch(t) \/ LaunchRefused(t)
      PROVE  BitFirst'
  BY <1>1 DEF CloudEnter, _upload_sandbox, _launch, LaunchRefused
<1>2. ASSUME NEW t \in Runs, CloudRaises(t) \/ _poll_object(t) \/ PollTimesOut(t) PROVE BitFirst'
  BY <1>2 DEF CloudRaises, _poll_object, PollTimesOut
<1>3. ASSUME NEW t \in Runs, _fetch_object(t) \/ Answered(t) PROVE BitFirst'
  BY <1>3 DEF _fetch_object, Answered
<1>4. ASSUME NEW t \in Runs, MachineBuilds(t) PROVE BitFirst'
  <2>1. PICK end \in Made : todo' = [todo EXCEPT ![t] = ToUpload(end)]
    BY <1>4 DEF MachineBuilds
  <2>2. ToUpload(end) \in {<<>>, <<"bitstream", "result">>}
    BY DEF ToUpload
  <2>3. <<"bitstream", "result">> # <<"result">> /\ <<>> # <<"result">>
    OBVIOUS
  <2> QED
    BY <1>4, <2>1, <2>2, <2>3 DEF MachineBuilds, BuildsAreOnce
<1>5. ASSUME NEW t \in Runs, Upload(t) PROVE BitFirst'
  <2>1. todo[t] \in {<<"result">>, <<"bitstream", "result">>}
    BY <1>5 DEF Upload, BuildsAreOnce
  <2>2. CASE todo[t] = <<"result">>
    <3>1. Head(todo[t]) = "result" /\ Tail(todo[t]) = <<>> /\ <<>> # <<"result">>
      BY <2>2
    <3> QED
      BY <1>5, <2>2, <3>1 DEF Upload
  <2>3. CASE todo[t] = <<"bitstream", "result">>
    <3>1. Head(todo[t]) = "bitstream" /\ Tail(todo[t]) = <<"result">>
      BY <2>3
    <3> QED
      BY <1>5, <2>3, <3>1 DEF Upload
  <2> QED
    BY <2>1, <2>2, <2>3
<1>6. ASSUME NEW t \in Runs, UploadFails(t) \/ Interrupted(t) PROVE BitFirst'
  <2>1. <<>> # <<"result">>
    OBVIOUS
  <2> QED
    BY <1>6, <2>1 DEF UploadFails, Interrupted
<1> QED
  BY <1>1, <1>2, <1>3, <1>4, <1>5, <1>6 DEF CloudStep, CloudNext, CloudThread

LEMMA CloudInsideIsFinite == IsFiniteSet(CloudInside) /\ Cardinality(CloudInside) \in Nat
<1>1. CloudInside \subseteq Runs
  BY DEF CloudInside
<1> QED
  BY <1>1, FS_Subset, FS_CardinalityType

CloudTakes(t) ==
  /\ t \in Runs \ CloudInside /\ CloudInside' = CloudInside \cup {t}
  /\ pool # "aws" => cFree > 0
  /\ cFree' = IF pool = "aws" THEN cFree ELSE cFree - 1

CloudGives(t) ==
  /\ t \in CloudInside /\ CloudInside' = CloudInside \ {t}
  /\ cFree' = Freed

CloudIdles == UNCHANGED <<cFree, CloudInside>>

\* A slot is taken by who goes in, and given back by who comes out, and by nobody else.
LEMMA CloudSlotSteps ==
  ASSUME CloudShape, BuildsAreOnce, NEW t \in Runs
  PROVE  /\ CloudEnter(t) => CloudTakes(t)
         /\ _upload_sandbox(t) \/ _launch(t) \/ _poll_object(t) => CloudIdles
         /\ LaunchRefused(t) \/ CloudRaises(t) \/ PollTimesOut(t) => CloudGives(t)
         /\ _fetch_object(t) \/ Answered(t) => CloudGives(t)
         /\ MachineBuilds(t) \/ Upload(t) \/ UploadFails(t) \/ Interrupted(t) => CloudIdles
<1> USE DEF CloudShape, CloudGoto, CloudLeave, InCloud, CloudInside, CloudIdles
<1>1. CloudEnter(t) => CloudTakes(t)
  BY DEF CloudEnter, CloudTakes
<1>2. _upload_sandbox(t) \/ _launch(t) \/ _poll_object(t) => CloudIdles
  BY DEF _upload_sandbox, _launch, _poll_object
<1>3. LaunchRefused(t) \/ CloudRaises(t) \/ PollTimesOut(t) => CloudGives(t)
  BY DEF LaunchRefused, CloudRaises, PollTimesOut, CloudGives
<1>4. _fetch_object(t) \/ Answered(t) => CloudGives(t)
  BY DEF _fetch_object, Answered, CloudGives
<1>5. MachineBuilds(t) \/ Upload(t) \/ UploadFails(t) \/ Interrupted(t) => CloudIdles
  BY DEF MachineBuilds, Upload, UploadFails, Interrupted
<1> QED
  BY <1>1, <1>2, <1>3, <1>4, <1>5

LEMMA CloudSlotsLentStep ==
  CloudShape /\ BuildsAreOnce /\ CloudSlotsLent /\ CloudStep => CloudSlotsLent'
<1> SUFFICES ASSUME CloudShape, BuildsAreOnce, CloudSlotsLent, CloudStep PROVE CloudSlotsLent'
  OBVIOUS
<1>1. CASE CloudIdles
  BY <1>1 DEF CloudSlotsLent, CloudIdles, CloudStep
<1>2. ASSUME NEW t \in Runs, CloudTakes(t) PROVE CloudSlotsLent'
  <2>1. Cardinality(CloudInside \cup {t}) = Cardinality(CloudInside) + 1
    BY <1>2, CloudInsideIsFinite, FS_AddElement DEF CloudTakes
  <2> QED
    BY <1>2, <2>1, CloudInsideIsFinite DEF CloudSlotsLent, CloudTakes, CloudStep, CloudShape
<1>3. ASSUME NEW t \in Runs, CloudGives(t) PROVE CloudSlotsLent'
  <2>1. Cardinality(CloudInside \ {t}) = Cardinality(CloudInside) - 1
    BY <1>3, CloudInsideIsFinite, FS_RemoveElement DEF CloudGives
  <2> QED
    BY <1>3, <2>1, CloudInsideIsFinite
    DEF CloudSlotsLent, CloudGives, Freed, CloudStep, CloudShape
<1> QED
  BY <1>1, <1>2, <1>3, CloudSlotSteps DEF CloudStep, CloudNext, CloudThread

LEMMA NotYetAskedStep ==
  CloudShape /\ BuildsAreOnce /\ NotYetAsked /\ CloudStep => NotYetAsked'
<1> SUFFICES ASSUME BuildsAreOnce, NotYetAsked, CloudStep, pool = "asked" PROVE FALSE
  BY DEF NotYetAsked, CloudStep
<1>1. \A t \in Runs : cAt[t] = "call" /\ machine[t] = "none"
  BY DEF NotYetAsked, BuildsAreOnce
<1>2. ASSUME NEW t \in Runs, CloudThread(t) PROVE FALSE
  BY <1>1, <1>2 DEF CloudThread, CloudEnter, _upload_sandbox, _launch, LaunchRefused,
                    _poll_object, _fetch_object, Answered, CloudGoto, CloudLeave, Clouds, Bucket
<1>3. ASSUME NEW t \in Runs, CloudRaises(t) \/ PollTimesOut(t) PROVE FALSE
  BY <1>1, <1>3 DEF CloudRaises, PollTimesOut, CloudGoto, CloudLeave, InCloud
<1>4. ASSUME NEW t \in Runs,
             MachineBuilds(t) \/ Upload(t) \/ UploadFails(t) \/ Interrupted(t)
      PROVE  FALSE
  BY <1>1, <1>4 DEF MachineBuilds, Upload, UploadFails, Interrupted
<1> QED
  BY <1>2, <1>3, <1>4 DEF CloudStep, CloudNext

CloudInv == CloudShape /\ BuildsAreOnce /\ BitFirst /\ CloudSlotsLent /\ NotYetAsked

LEMMA CloudInvInit == CloudInit /\ pool = "asked" => CloudInv
<1> SUFFICES ASSUME CloudInit, pool = "asked" PROVE CloudInv
  OBVIOUS
<1> USE DEF CloudInit
<1>1. CloudShape
  BY DEF CloudShape, Queues
<1>2. BuildsAreOnce /\ BitFirst /\ NotYetAsked
  BY DEF BuildsAreOnce, BitFirst, NotYetAsked
<1>3. CloudSlotsLent
  <2>1. CloudInside = {}
    BY DEF CloudInside, InCloud
  <2> QED
    BY <2>1, FS_EmptySet DEF CloudSlotsLent
<1> QED
  BY <1>1, <1>2, <1>3 DEF CloudInv

LEMMA CloudInvStep == CloudInv /\ CloudStep => CloudInv'
  BY CloudShapeStep, BuildsAreOnceStep, BitFirstStep, CloudSlotsLentStep, NotYetAskedStep
  DEF CloudInv

LEMMA Unbegun ==
  ASSUME CloudInv, pool = "asked"
  PROVE  /\ \A t \in Runs : store[t] = {} /\ todo[t] = <<>> /\ t \notin local
         /\ \A t \in Runs : cAt[t] = "call"
         /\ CloudInside = {} /\ cFree = CloudSlots
<1>1. \A t \in Runs : cAt[t] = "call"
  BY DEF CloudInv, NotYetAsked
<1>2. \A t \in Runs : store[t] = {} /\ todo[t] = <<>> /\ t \notin local
  BY <1>1 DEF CloudInv, BuildsAreOnce
<1>3. CloudInside = {}
  BY <1>1 DEF CloudInside, InCloud
<1>4. cFree = CloudSlots
  BY <1>3, FS_EmptySet DEF CloudInv, CloudSlotsLent, CloudShape
<1> QED
  BY <1>1, <1>2, <1>3, <1>4

LEMMA ResolveKeepsCloudInv ==
  CloudInv /\ pool = "asked" /\ UNCHANGED cloudVars => CloudInv'
<1> SUFFICES ASSUME CloudInv, pool = "asked", UNCHANGED cloudVars PROVE CloudInv'
  OBVIOUS
<1> USE DEF cloudVars
<1>1. CloudShape' /\ BuildsAreOnce'
  BY DEF CloudInv, CloudShape, BuildsAreOnce
<1>2. BitFirst' /\ NotYetAsked'
  <2>1. <<>> # <<"result">>
    OBVIOUS
  <2> QED
    BY <2>1, Unbegun DEF BitFirst, NotYetAsked
<1>3. CloudSlotsLent'
  <2>1. CloudInside' = {} /\ Cardinality({}) = 0 /\ cFree' = CloudSlots
    BY Unbegun, FS_EmptySet DEF CloudInside
  <2>2. Cardinality(CloudInside') = 0
    BY <2>1
  <2> QED
    BY <2>1, <2>2 DEF CloudSlotsLent
<1> QED
  BY <1>1, <1>2, <1>3 DEF CloudInv

LEMMA CloudInvIsTyped == CloudInv => CloudTypeOK
<1> SUFFICES ASSUME CloudInv PROVE CloudTypeOK
  OBVIOUS
<1> USE DEF CloudInv, CloudShape
<1>1. cFree \in 0..CloudSlots
  BY CloudInsideIsFinite DEF CloudSlotsLent
<1>2. \A q \in Queues : q \in UNION {[1..n -> Objects] : n \in 0..2}
  <2>1. <<>> \in [1..0 -> Objects]
    OBVIOUS
  <2>2. <<"result">> \in [1..1 -> Objects] /\ <<"bitstream">> \in [1..1 -> Objects]
    BY DEF Objects
  <2>3. /\ <<"bitstream", "result">> \in [1..2 -> Objects]
        /\ <<"result", "bitstream">> \in [1..2 -> Objects]
    BY DEF Objects
  <2>4. \A n \in 0..2 : \A q \in [1..n -> Objects] : q \in UNION {[1..k -> Objects] : k \in 0..2}
    OBVIOUS
  <2>5. 0 \in 0..2 /\ 1 \in 0..2 /\ 2 \in 0..2
    OBVIOUS
  <2> QED
    BY <2>1, <2>2, <2>3, <2>4, <2>5 DEF Queues
<1> QED
  BY <1>1, <1>2 DEF CloudTypeOK

-----------------------------------------------------------------------------
(* The machines implement Backend.                                          *)

CloudOutside == {t \in Runs : cAt[t] \notin InCloud}

LEMMA OutsideIsFinite == IsFiniteSet(CloudOutside) /\ Cardinality(CloudOutside) \in Nat
<1>1. CloudOutside \subseteq Runs
  BY DEF CloudOutside
<1> QED
  BY <1>1, FS_Subset, FS_CardinalityType

LEMMA CloudFreeIsCounted == CloudInv => CloudFree \in Nat
  BY OutsideIsFinite, CloudInsideIsFinite
  DEF CloudInv, CloudShape, CloudSlotsLent, CloudFree, CloudOutside

LEMMA CloudFreeSteps ==
  ASSUME CloudInv, pool' = pool
  PROVE  /\ CloudIdles => CloudFree' = CloudFree
         /\ \A t \in Runs : CloudTakes(t) => CloudFree > 0 /\ CloudFree' = CloudFree - 1
         /\ \A t \in Runs : CloudGives(t) => CloudFree' = CloudFree + 1
<1>1. CloudOutside = Runs \ CloudInside /\ CloudOutside' = Runs \ CloudInside'
  BY DEF CloudOutside, CloudInside
<1>2. CloudInside \subseteq Runs
  BY DEF CloudInside
<1>3. CASE pool # "aws"
  BY <1>3 DEF CloudIdles, CloudTakes, CloudGives, CloudFree, Freed
<1>4. CASE pool = "aws"
  <2>1. CloudFree = Cardinality(CloudOutside) /\ CloudFree' = Cardinality(CloudOutside')
    BY <1>4 DEF CloudFree, CloudOutside
  <2>2. CloudIdles => CloudOutside' = CloudOutside
    BY <1>1 DEF CloudIdles
  <2>3. ASSUME NEW t \in Runs, CloudTakes(t)
        PROVE  CloudFree > 0 /\ CloudFree' = CloudFree - 1
    <3>1. t \in CloudOutside /\ CloudOutside' = CloudOutside \ {t}
      BY <1>1, <2>3 DEF CloudTakes
    <3>2. Cardinality(CloudOutside \ {t}) = Cardinality(CloudOutside) - 1
      BY <3>1, OutsideIsFinite, FS_RemoveElement
    <3>3. Cardinality(CloudOutside) # 0
      BY <3>1, OutsideIsFinite, FS_EmptySet
    <3> QED
      BY <2>1, <3>1, <3>2, <3>3, OutsideIsFinite
  <2>4. ASSUME NEW t \in Runs, CloudGives(t) PROVE CloudFree' = CloudFree + 1
    <3>1. t \notin CloudOutside /\ CloudOutside' = CloudOutside \cup {t}
      BY <1>1, <1>2, <2>4 DEF CloudGives
    <3>2. Cardinality(CloudOutside \cup {t}) = Cardinality(CloudOutside) + 1
      BY <3>1, OutsideIsFinite, FS_AddElement
    <3> QED
      BY <2>1, <3>1, <3>2
  <2> QED
    BY <2>1, <2>2, <2>3, <2>4
<1> QED
  BY <1>3, <1>4

\* A task is fit from when its bitstream is kept and what its build made is known.
LEMMA StepOfCloud ==
  ASSUME CloudInv, CloudStep
  PROVE  [CloudPromise!Next]_CloudPromise!promised
<1> SUFFICES CloudPromise!Next \/ UNCHANGED <<CloudCall, CloudFree, CloudFit>>
  BY DEF CloudPromise!promised
<1> DEFINE Stays == UNCHANGED <<CloudCall, CloudFree, CloudFit>>
<1>0. pool' = pool /\ CloudShape /\ BuildsAreOnce
  BY DEF CloudStep, CloudInv
<1> USE DEF CloudInv, CloudShape, CloudCall, InCloud, CloudGoto, CloudLeave
<1>1. ASSUME NEW t \in Runs, CloudEnter(t) PROVE CloudPromise!Enter(t)
  <2>1. CloudFree > 0 /\ CloudFree' = CloudFree - 1
    BY <1>0, <1>1, CloudSlotSteps, CloudFreeSteps
  <2>2. CloudFit' = CloudFit
    BY <1>0, <1>1 DEF CloudEnter, CloudFit, Kept
  <2>3. CloudCall[t] = "asked" /\ CloudCall' = [CloudCall EXCEPT ![t] = "inside"]
    BY <1>1 DEF CloudEnter
  <2> QED
    BY <2>1, <2>2, <2>3 DEF CloudPromise!Enter
<1>2. ASSUME NEW t \in Runs, _upload_sandbox(t) \/ _launch(t) \/ _poll_object(t) PROVE Stays
  <2>1. CloudFree' = CloudFree
    BY <1>0, <1>2, CloudSlotSteps, CloudFreeSteps
  <2>2. UNCHANGED <<CloudCall, CloudFit>>
    BY <1>0, <1>2, BuildsAreOnce DEF _upload_sandbox, _launch, _poll_object, CloudFit, Kept
  <2> QED
    BY <2>1, <2>2
<1>3. ASSUME NEW t \in Runs, LaunchRefused(t) \/ PollTimesOut(t)
      PROVE  CloudPromise!Leave(t, "bad")
  <2>1. CloudFree' = CloudFree + 1
    BY <1>0, <1>3, CloudSlotSteps, CloudFreeSteps
  <2>2. CloudFit' = CloudFit
    BY <1>0, <1>3 DEF LaunchRefused, PollTimesOut, CloudFit, Kept
  <2>3. CloudCall[t] = "inside" /\ CloudCall' = [CloudCall EXCEPT ![t] = "bad"]
    <3>1. /\ cAt[t] \in InCloud /\ cAt' = [cAt EXCEPT ![t] = "done"]
          /\ cOut' = [cOut EXCEPT ![t] = "bad"]
      BY <1>3 DEF LaunchRefused, PollTimesOut
    <3> QED
      BY <3>1
  <2> QED
    BY <2>1, <2>2, <2>3 DEF CloudPromise!Leave
<1>4. ASSUME NEW t \in Runs, CloudRaises(t) PROVE CloudPromise!Leave(t, "raised")
  <2>1. CloudFree' = CloudFree + 1
    BY <1>0, <1>4, CloudSlotSteps, CloudFreeSteps
  <2>2. CloudFit' = CloudFit
    BY <1>0, <1>4 DEF CloudRaises, CloudFit, Kept
  <2>3. CloudCall[t] = "inside" /\ CloudCall' = [CloudCall EXCEPT ![t] = "raised"]
    <3>1. cAt[t] \in InCloud /\ cAt' = [cAt EXCEPT ![t] = "raised"] /\ cOut' = cOut
      BY <1>4 DEF CloudRaises
    <3> QED
      BY <3>1
  <2> QED
    BY <2>1, <2>2, <2>3 DEF CloudPromise!Leave
<1>5. ASSUME NEW t \in Runs, _fetch_object(t) \/ Answered(t)
      PROVE  CloudPromise!Leave(t, "ok") \/ CloudPromise!Leave(t, "bad")
  <2>1. CloudFree' = CloudFree + 1
    BY <1>0, <1>5, CloudSlotSteps, CloudFreeSteps
  <2>2. Answer(t)
    BY <1>0, <1>5, AnswerStep
  <2>3. CloudFit' = CloudFit \/ CloudFit' = CloudFit \cup {t}
    BY <1>0, <2>2 DEF Answer, CloudFit, Kept
  <2>4. cOut' = [cOut EXCEPT ![t] = "ok"] => t \in CloudFit'
    <3>1. PICK here \in BOOLEAN : Report(t, here)
      <4>1. /\ ("bitstream" \in store[t]) \in BOOLEAN
            /\ (made[t] \in WithBit) \in BOOLEAN
        OBVIOUS
      <4>2. \/ Report(t, FALSE) \/ Report(t, "bitstream" \in store[t])
            \/ Report(t, made[t] \in WithBit)
        BY <1>5 DEF _fetch_object, Answered
      <4> HIDE DEF Report
      <4> QED
        BY <4>1, <4>2, Zenon
    <3>2. (here => t \in local') /\ cOut'[t] = IF Accepts(made[t], here) THEN "ok" ELSE "bad"
      BY <3>1 DEF Report
    <3>3. pool = "aws" => "bitstream" \in store[t]
      BY <1>5 DEF _fetch_object, Answered, BitFirst, Bucket
    <3>4. Accepts(made[t], here) =>
            /\ here \/ pool = "aws"
            /\ made[t] = "passed" \/ (pool = "modal" /\ made[t] = "missed")
      BY DEF Accepts
    <3>5. ASSUME Accepts(made[t], here) PROVE t \in CloudFit'
      BY <1>0, <2>2, <3>2, <3>3, <3>4, <3>5 DEF Answer, CloudFit, Kept
    <3>6. ASSUME cOut' = [cOut EXCEPT ![t] = "ok"] PROVE Accepts(made[t], here)
      BY <3>2, <3>6
    <3> QED
      BY <3>5, <3>6
  <2>5. CloudCall[t] = "inside"
    BY <2>2 DEF Answer
  <2>6. CASE cOut' = [cOut EXCEPT ![t] = "ok"]
    <3>1. CloudCall' = [CloudCall EXCEPT ![t] = "ok"]
      BY <2>2, <2>6 DEF Answer
    <3> QED
      BY <2>1, <2>3, <2>4, <2>5, <2>6, <3>1 DEF CloudPromise!Leave
  <2>7. CASE cOut' = [cOut EXCEPT ![t] = "bad"]
    <3>1. CloudCall' = [CloudCall EXCEPT ![t] = "bad"]
      BY <2>2, <2>7 DEF Answer
    <3> QED
      BY <2>1, <2>3, <2>5, <3>1 DEF CloudPromise!Leave
  <2> QED
    BY <2>2, <2>6, <2>7 DEF Answer
<1>6. ASSUME NEW t \in Runs, MachineBuilds(t) \/ UploadFails(t) \/ Interrupted(t) PROVE Stays
  <2>1. CloudFree' = CloudFree
    BY <1>0, <1>6, CloudSlotSteps, CloudFreeSteps
  <2>2. CloudCall' = CloudCall
    BY <1>6 DEF MachineBuilds, UploadFails, Interrupted
  <2>3. local' = local /\ store' = store
    BY <1>6 DEF MachineBuilds, UploadFails, Interrupted
  <2>4. \A u \in Runs : made'[u] = made[u] \/ ~Kept(u)
    <3>1. CASE machine[t] = "build"
      <4>1. ~Kept(t) /\ \A u \in Runs : u # t => made'[u] = made[u]
        BY <1>6, <3>1 DEF MachineBuilds, UploadFails, Interrupted, BuildsAreOnce, Kept
      <4> QED
        BY <4>1
    <3>2. CASE machine[t] # "build"
      <4>1. made' = made \/ (machine[t] = "upload" /\ made' = [made EXCEPT ![t] = IF @ = "none" THEN "crash" ELSE @])
        BY <1>6, <3>2 DEF MachineBuilds, UploadFails, Interrupted
      <4>2. machine[t] = "upload" => made[t] # "none"
        BY <1>6 DEF BuildsAreOnce
      <4> QED
        BY <4>1, <4>2
    <3> QED
      BY <3>1, <3>2
  <2>5. CloudFit' = CloudFit
    BY <1>0, <2>3, <2>4 DEF CloudFit, Kept
  <2> QED
    BY <2>1, <2>2, <2>5
<1>7. ASSUME NEW t \in Runs, Upload(t) PROVE Stays \/ CloudPromise!Fits(t)
  <2>1. CloudFree' = CloudFree
    BY <1>0, <1>7, CloudSlotSteps, CloudFreeSteps
  <2>2. CloudCall' = CloudCall /\ CloudCall[t] # "asked"
    BY <1>7 DEF Upload, BuildsAreOnce
  <2>3. CloudFit' = CloudFit \/ CloudFit' = CloudFit \cup {t}
    BY <1>0, <1>7 DEF Upload, CloudFit, Kept
  <2> QED
    BY <2>1, <2>2, <2>3 DEF CloudPromise!Fits
<1> HIDE DEF CloudInv, CloudShape, CloudCall, InCloud, CloudGoto, CloudLeave, Stays
<1> QED
  BY <1>1, <1>2, <1>3, <1>4, <1>5, <1>6, <1>7, Zenon
  DEF CloudStep, CloudNext, CloudThread, CloudPromise!Next, Stays

LEMMA CloudStartsAsBackend == CloudInit /\ pool = "asked" => CloudPromise!Init
<1> SUFFICES ASSUME CloudInit, pool = "asked" PROVE CloudPromise!Init
  OBVIOUS
<1>1. CloudFree \in Nat
  BY CloudInvInit, CloudFreeIsCounted
<1>2. CloudFit = {}
  BY DEF CloudInit, CloudFit, Kept
<1>3. \A t \in Runs : cAt[t] = "call"
  BY DEF CloudInit
<1>4. CloudCall = [t \in Runs |-> "asked"]
  BY <1>3 DEF CloudCall, InCloud
<1> QED
  BY <1>1, <1>2, <1>4 DEF CloudPromise!Init

-----------------------------------------------------------------------------
(* The backends together: the one in use acts, the others keep still.       *)

RemoteInv == SshInv /\ GhaInv /\ CloudInv

remoteVars == <<pool, sshVars, ghaVars, cloudVars>>

\* What a step is to each of the backends.
LEMMA RemoteStep ==
  [MCNext]_remoteVars =>
    /\ [SshNext]_sshVars
    /\ [GhaNext]_ghaVars
    /\ \/ CloudStep
       \/ pool = "asked" /\ UNCHANGED cloudVars
       \/ UNCHANGED <<pool, cloudVars>>
  BY DEF MCNext, Resolve, resolve_backend, remoteVars, CloudStep

LEMMA RemoteInvariant == MCSpec => []RemoteInv
<1>1. MCInit => RemoteInv
  BY SshInvInit, GhaInvInit, CloudInvInit DEF MCInit, RemoteInv
<1>2. RemoteInv /\ [MCNext]_remoteVars => RemoteInv'
  <2> SUFFICES ASSUME RemoteInv, [MCNext]_remoteVars PROVE RemoteInv'
    OBVIOUS
  <2>1. SshInv' /\ GhaInv'
    BY RemoteStep, SshInvStep, GhaInvStep DEF RemoteInv
  <2>2. CASE CloudStep
    BY <2>1, <2>2, CloudInvStep DEF RemoteInv
  <2>3. CASE pool = "asked" /\ UNCHANGED cloudVars
    BY <2>1, <2>3, ResolveKeepsCloudInv DEF RemoteInv
  <2>4. CASE UNCHANGED <<pool, cloudVars>>
    <3>1. CloudInv'
      BY <2>4 DEF RemoteInv, CloudInv, CloudShape, BuildsAreOnce, BitFirst, CloudSlotsLent,
                  CloudInside, NotYetAsked, cloudVars
    <3> QED
      BY <2>1, <3>1 DEF RemoteInv
  <2> QED
    BY <2>2, <2>3, <2>4, RemoteStep
<1> QED
  BY <1>1, <1>2, PTL DEF MCSpec, remoteVars

\* The state of every backend has its type: no counter leaves its range, the rotation of
\* the hosts included, and there are no more runs than seeds.
THEOREM RemoteTypesCorrect == MCSpec => []RemoteTypeOK
<1>1. RemoteInv => RemoteTypeOK
  BY SshInvIsTyped, GhaInvIsTyped, CloudInvIsTyped DEF RemoteInv, RemoteTypeOK
<1> QED
  BY <1>1, RemoteInvariant, PTL

\* The counter of a host and the tasks at work on it add up to its slots, for any number
\* of tasks, hosts and slots, however stale the counter a host was picked by.
THEOREM HostSlotsAddUp == MCSpec => []HostSlotsHold
<1>1. RemoteInv => HostSlotsHold
  BY DEF RemoteInv, SshInv, SlotsLent, HostSlotsHold, Working
<1> QED
  BY <1>1, RemoteInvariant, PTL

LEMMA SshKeepsPromise == MCSpec => SshPromise!Spec
<1>1. MCInit => SshPromise!Init
  BY SshStartsAsBackend DEF MCInit
<1>2. RemoteInv /\ [MCNext]_remoteVars => [SshPromise!Next]_SshPromise!promised
  <2>1. UNCHANGED sshVars => UNCHANGED SshPromise!promised
    BY DEF sshVars, SshPromise!promised, SshCall, SshFree, SshFit
  <2> QED
    BY <2>1, RemoteStep, StepOfSsh DEF RemoteInv
<1> QED
  BY <1>1, <1>2, RemoteInvariant, PTL DEF MCSpec, SshPromise!Spec, remoteVars

LEMMA GhaKeepsPromise ==
  ASSUME Within \subseteq Same
  PROVE  MCSpec => GhaPromise!Spec
<1>1. MCInit => GhaPromise!Init
  BY GhaStartsAsBackend DEF MCInit
<1>2. RemoteInv /\ [MCNext]_remoteVars => [GhaPromise!Next]_GhaPromise!promised
  <2>1. UNCHANGED ghaVars => UNCHANGED GhaPromise!promised
    BY DEF ghaVars, GhaPromise!promised, GhaCall, GhaFit, Left
  <2> QED
    BY <2>1, RemoteStep, StepOfGha DEF RemoteInv
<1> QED
  BY <1>1, <1>2, RemoteInvariant, PTL DEF MCSpec, GhaPromise!Spec, remoteVars

\* The choice of the backend gives it its slots: AWS as many as there are tasks.
LEMMA ResolveIsMade ==
  CloudInv /\ pool = "asked" /\ UNCHANGED cloudVars => CloudPromise!Made
<1> SUFFICES ASSUME CloudInv, pool = "asked", UNCHANGED cloudVars PROVE CloudPromise!Made
  OBVIOUS
<1>1. CloudFree' \in Nat
  <2>1. Cardinality(CloudOutside') \in Nat
    <3>1. CloudOutside' = CloudOutside
      BY DEF CloudOutside, cloudVars
    <3> QED
      BY <3>1, OutsideIsFinite
  <2>2. cFree' \in Nat
    BY Unbegun DEF cloudVars
  <2> QED
    BY <2>1, <2>2 DEF CloudFree, CloudOutside
<1>2. CloudCall' = CloudCall
  BY DEF CloudCall, cloudVars
<1>3. \A t \in Runs : CloudCall[t] = "asked"
  BY Unbegun DEF CloudCall, InCloud
<1>4. CloudFit = {} /\ CloudFit' = {}
  BY Unbegun DEF CloudFit, Kept, cloudVars
<1> QED
  BY <1>1, <1>2, <1>3, <1>4 DEF CloudPromise!Made

LEMMA CloudKeepsPromise == MCSpec => CloudPromise!Spec
<1>1. MCInit => CloudPromise!Init
  BY CloudStartsAsBackend DEF MCInit
<1>2. RemoteInv /\ [MCNext]_remoteVars => [CloudPromise!Next]_CloudPromise!promised
  <2> SUFFICES ASSUME RemoteInv, [MCNext]_remoteVars
               PROVE  [CloudPromise!Next]_CloudPromise!promised
    OBVIOUS
  <2>1. CASE CloudStep
    BY <2>1, StepOfCloud DEF RemoteInv
  <2>2. CASE pool = "asked" /\ UNCHANGED cloudVars
    BY <2>2, ResolveIsMade DEF RemoteInv, CloudPromise!Next
  <2>3. CASE UNCHANGED <<pool, cloudVars>>
    BY <2>3 DEF cloudVars, CloudPromise!promised, CloudCall, CloudFree, CloudFit, Kept
  <2> QED
    BY <2>1, <2>2, <2>3, RemoteStep
<1> QED
  BY <1>1, <1>2, RemoteInvariant, PTL DEF MCSpec, CloudPromise!Spec, remoteVars

\* Every backend that runs elsewhere is one the scheduler can rely on, as long as no seed
\* is found in the name of another: slots are lent once and come back on every error
\* path, and ok is said only of a seed whose own run succeeded and whose bitstream came
\* with that run (on GitHub, with an older one beside it if the core was sent with one).
THEOREM PoolsImplementBackend ==
  ASSUME Within \subseteq Same
  PROVE  MCSpec => PoolsAreBackends
<1>1. MCSpec => SshPromise!Spec /\ CloudPromise!Spec
  BY SshKeepsPromise, CloudKeepsPromise
<1>2. MCSpec => GhaPromise!Spec
  BY GhaKeepsPromise
<1> QED
  BY <1>1, <1>2 DEF PoolsAreBackends
=============================================================================

-------------------- MODULE ElectionAndAttributeProofs --------------------
(***************************************************************************)
(* Proofs about two parts that share nothing, each from its own            *)
(* specification:                                                          *)
(*                                                                         *)
(*  - the leader election, for any set of pods, any set of tasks and any   *)
(*    number of restarts;                                                  *)
(*  - the reader of the #[rpc] attribute, for any entries.                 *)
(***************************************************************************)
EXTENDS LeaderElection, RpcAttribute, Integers, TLAPS

-----------------------------------------------------------------------------
(* The leader election. *)

\* An epoch runs tasks only between its start and its end, and only for a pod that
\* regards itself as leader; a pod gives the lease back after the epoch has ended.  A
\* handle is dropped only where something failed: stop_leader_tasks returns early when it
\* meets a task that panicked.
EpochInv ==
  \A p \in Pods :
    /\ epoch[p] # "running" => up[p] = {} /\ dead[p] = {}
    /\ ~amLeader[p] => epoch[p] \in {"none", "done"}
    /\ amLeader[p] => epoch[p] # "none"
    /\ pc[p] = "releasing" => epoch[p] = "done"
    /\ pc[p] = "leaving" => epoch[p] \in {"none", "done"}
    /\ pc[p] = "ended" => ~amLeader[p] /\ orphans[p] = {}
    /\ pc[p] # "replied" => reply[p] = "none"
    /\ dead[p] # {} \/ orphans[p] # {} => failed[p]

\* A pod that leads, or is about to, holds the lease.
LeaseInv ==
  \A p \in Pods :
    /\ amLeader[p] => holder = p /\ valid
    /\ reply[p] = "acquired" => holder = p /\ valid
    /\ reply[p] = "refused" => ~amLeader[p]

\* Without panics and failed starts no handle is ever dropped.
NoOrphans ==
  \A p \in Pods :
    /\ dead[p] = {}
    /\ orphans[p] = {}
    /\ epoch[p] # "running" => health[p] = "off"

BaseInv == TypeOK /\ EpochInv

-----------------------------------------------------------------------------
\* The pods start as followers.
LEMMA InitBase == Init => BaseInv
<1> SUFFICES ASSUME Init PROVE BaseInv
  OBVIOUS
<1>1. restarts \in 0..MaxRestarts
  BY ElectionConstants DEF Init
<1>2. TypeOK
  BY <1>1, Zenon DEF Init, TypeOK, PcStates
<1>3. EpochInv
  BY DEF Init, EpochInv
<1> QED  BY <1>2, <1>3 DEF BaseInv

\* step_down leaves a lease that is held or free.
LEMMA StepDownLease ==
  ASSUME TypeOK, NEW p \in Pods, StepDown(p)
  PROVE  holder' \in Pods \cup {NoPod} /\ valid' \in BOOLEAN /\ (valid' => holder' # NoPod)
<1>1. CASE holder' = NoPod /\ valid' = FALSE
  BY <1>1, Zenon
<1>2. CASE holder' = holder /\ valid' = valid
  BY <1>2 DEF TypeOK
<1> QED  BY <1>1, <1>2, Zenon DEF StepDown, leaseVars

\* Every step of a pod, of its tasks or of the API server preserves the base.
LEMMA NextBase == BaseInv /\ [Next]_vars => BaseInv'
<1> SUFFICES ASSUME BaseInv, [Next]_vars PROVE BaseInv'
  OBVIOUS
<1> USE ElectionConstants DEF BaseInv, leaseVars, taskVars, signalVars
<1>1. ASSUME NEW p \in Pods, Acquire(p) PROVE BaseInv'
  <2>a. holder' \in Pods \cup {NoPod} /\ valid' \in BOOLEAN /\ (valid' => holder' # NoPod)
    BY <1>1, Zenon DEF TypeOK, Acquire
  <2>b. reply' \in [Pods -> {"none", "acquired", "refused", "error"}]
    BY <1>1 DEF TypeOK, Acquire
  <2>1. TypeOK'
    BY <1>1, <2>a, <2>b DEF TypeOK, PcStates, Acquire
  <2>2. EpochInv'
    BY <1>1 DEF TypeOK, EpochInv, Acquire, MayAcquire
  <2> QED  BY <2>1, <2>2
<1>2. ASSUME NEW p \in Pods, BecomeLeader(p) PROVE BaseInv'
  <2>1. TypeOK'
    BY <1>2 DEF TypeOK, PcStates, BecomeLeader
  <2>2. EpochInv'
    BY <1>2 DEF TypeOK, EpochInv, BecomeLeader
  <2> QED  BY <2>1, <2>2
<1>3. ASSUME NEW p \in Pods, StayAsIs(p) PROVE BaseInv'
  <2>1. TypeOK'
    BY <1>3 DEF TypeOK, PcStates, StayAsIs
  <2>2. EpochInv'
    BY <1>3 DEF TypeOK, EpochInv, StayAsIs
  <2> QED  BY <2>1, <2>2
<1>4. ASSUME NEW p \in Pods, BecomeFollower(p) PROVE BaseInv'
  <2>1. TypeOK'
    BY <1>4 DEF TypeOK, PcStates, EpochInv, BecomeFollower
  <2>2. EpochInv'
    BY <1>4 DEF TypeOK, EpochInv, BecomeFollower
  <2> QED  BY <2>1, <2>2
<1>5. ASSUME NEW p \in Pods, TasksJoined(p) PROVE BaseInv'
  <2>1. TypeOK'
    BY <1>5 DEF TypeOK, PcStates, TasksJoined
  <2>2. EpochInv'
    BY <1>5 DEF TypeOK, EpochInv, TasksJoined
  <2> QED  BY <2>1, <2>2
<1>6. ASSUME NEW p \in Pods, Released(p) PROVE BaseInv'
  <2>a. holder' \in Pods \cup {NoPod} /\ valid' \in BOOLEAN /\ (valid' => holder' # NoPod)
    BY <1>6, StepDownLease DEF Released, TypeOK
  <2>1. TypeOK'
    BY <1>6, <2>a DEF TypeOK, PcStates, Released
  <2>2. EpochInv'
    BY <1>6 DEF TypeOK, EpochInv, Released, StepDown
  <2> QED  BY <2>1, <2>2
<1>7. ASSUME NEW p \in Pods, RenewTick(p) PROVE BaseInv'
  <2>1. TypeOK'
    BY <1>7 DEF TypeOK, PcStates, RenewTick
  <2>2. EpochInv'
    BY <1>7 DEF TypeOK, EpochInv, RenewTick
  <2> QED  BY <2>1, <2>2
<1>8. ASSUME NEW p \in Pods, BeginShutdown(p) PROVE BaseInv'
  <2>1. TypeOK'
    BY <1>8 DEF TypeOK, PcStates, BeginShutdown
  <2>2. EpochInv'
    BY <1>8 DEF TypeOK, EpochInv, BeginShutdown
  <2> QED  BY <2>1, <2>2
<1>9. ASSUME NEW p \in Pods, TasksDrained(p) PROVE BaseInv'
  <2>1. TypeOK'
    BY <1>9 DEF TypeOK, PcStates, TasksDrained
  <2>2. EpochInv'
    BY <1>9 DEF TypeOK, EpochInv, TasksDrained
  <2> QED  BY <2>1, <2>2
<1>10. ASSUME NEW p \in Pods, Release(p) PROVE BaseInv'
  <2>a. holder' \in Pods \cup {NoPod} /\ valid' \in BOOLEAN /\ (valid' => holder' # NoPod)
    BY <1>10, StepDownLease DEF Release, TypeOK
  <2>1. TypeOK'
    BY <1>10, <2>a DEF TypeOK, PcStates, Release
  <2>2. EpochInv'
    BY <1>10 DEF TypeOK, EpochInv, Release, StepDown
  <2> QED  BY <2>1, <2>2
<1>11. ASSUME NEW p \in Pods, Exit(p) PROVE BaseInv'
  <2>1. TypeOK'
    BY <1>11 DEF TypeOK, PcStates, Exit, ProcessEnds
  <2>2. EpochInv'
    BY <1>11 DEF TypeOK, EpochInv, Exit, ProcessEnds
  <2> QED  BY <2>1, <2>2
<1>12. ASSUME NEW p \in Pods, Crash(p) PROVE BaseInv'
  <2>1. TypeOK'
    BY <1>12 DEF TypeOK, PcStates, Crash, ProcessEnds
  <2>2. EpochInv'
    BY <1>12 DEF TypeOK, EpochInv, Crash, ProcessEnds
  <2> QED  BY <2>1, <2>2
<1>13. ASSUME NEW p \in Pods, Restart(p) PROVE BaseInv'
  <2>1. TypeOK'
    BY <1>13 DEF TypeOK, PcStates, Restart
  <2>2. EpochInv'
    BY <1>13 DEF TypeOK, EpochInv, Restart
  <2> QED  BY <2>1, <2>2
<1>14. ASSUME NEW p \in Pods, Sigterm(p) PROVE BaseInv'
  <2>1. TypeOK'
    BY <1>14 DEF TypeOK, PcStates, Sigterm
  <2>2. EpochInv'
    BY <1>14 DEF TypeOK, EpochInv, Sigterm
  <2> QED  BY <2>1, <2>2
<1>15. ASSUME NEW p \in Pods, StartTasks(p) PROVE BaseInv'
  <2>1. TypeOK'
    BY <1>15 DEF TypeOK, PcStates, StartTasks
  <2>2. EpochInv'
    BY <1>15 DEF TypeOK, EpochInv, StartTasks
  <2> QED  BY <2>1, <2>2
<1>16. ASSUME NEW p \in Pods, StartFails(p) PROVE BaseInv'
  <2>1. TypeOK'
    BY <1>16 DEF TypeOK, PcStates, StartFails
  <2>2. EpochInv'
    BY <1>16 DEF TypeOK, EpochInv, StartFails
  <2> QED  BY <2>1, <2>2
<1>17. ASSUME NEW p \in Pods, StopTask(p) PROVE BaseInv'
  <2>1. TypeOK'
    BY <1>17 DEF TypeOK, PcStates, StopTask
  <2>2. EpochInv'
    BY <1>17 DEF TypeOK, EpochInv, StopTask
  <2> QED  BY <2>1, <2>2
<1>18. ASSUME NEW p \in Pods, StopFails(p) PROVE BaseInv'
  <2>1. TypeOK'
    BY <1>18 DEF TypeOK, PcStates, StopFails
  <2>2. EpochInv'
    BY <1>18 DEF TypeOK, EpochInv, StopFails
  <2> QED  BY <2>1, <2>2
<1>19. ASSUME NEW p \in Pods, StopDone(p) PROVE BaseInv'
  <2>1. TypeOK'
    BY <1>19 DEF TypeOK, PcStates, StopDone
  <2>2. EpochInv'
    BY <1>19 DEF TypeOK, EpochInv, StopDone
  <2> QED  BY <2>1, <2>2
<1>20. ASSUME NEW p \in Pods, TaskPanics(p) PROVE BaseInv'
  <2>1. TypeOK'
    BY <1>20 DEF TypeOK, PcStates, TaskPanics
  <2>2. EpochInv'
    BY <1>20 DEF TypeOK, EpochInv, TaskPanics
  <2> QED  BY <2>1, <2>2
<1>21. ASSUME NEW p \in Pods, OrphanStops(p) PROVE BaseInv'
  <2>1. TypeOK'
    BY <1>21 DEF TypeOK, PcStates, OrphanStops
  <2>2. EpochInv'
    BY <1>21 DEF TypeOK, EpochInv, OrphanStops
  <2> QED  BY <2>1, <2>2
<1>22. ASSUME NEW p \in Pods, HealthStep(p) PROVE BaseInv'
  <2>1. TypeOK'
    BY <1>22 DEF TypeOK, PcStates, HealthStep
  <2>2. EpochInv'
    BY <1>22 DEF TypeOK, EpochInv, HealthStep
  <2> QED  BY <2>1, <2>2
<1>23. CASE Expire
  <2>a. valid' \in BOOLEAN /\ (valid' => holder' # NoPod)
    BY <1>23, Zenon DEF Expire
  <2> QED  BY <1>23, <2>a DEF Expire, TypeOK, EpochInv
<1>24. CASE Over \/ UNCHANGED vars
  BY <1>24, SMTT(30) DEF Over, vars, TypeOK, EpochInv
<1> QED  BY <1>1, <1>2, <1>3, <1>4, <1>5, <1>6, <1>7, <1>8, <1>9, <1>10, <1>11, <1>12, <1>13, <1>14, <1>15, <1>16, <1>17, <1>18, <1>19, <1>20, <1>21, <1>22, <1>23, <1>24 DEF Next, Coordinate, LeaderTask

-----------------------------------------------------------------------------
(* What timely renewals and tasks that do not fail add *)

\* With timely renewals the lease stays with the leader, whatever else fails.
LEMMA NextLease ==
  ASSUME Timely, BaseInv, LeaseInv, [Next]_vars
  PROVE  LeaseInv'
<1> USE ElectionConstants DEF BaseInv, TypeOK, EpochInv, LeaseInv, leaseVars, taskVars, signalVars
<1>1. ASSUME NEW p \in Pods, Acquire(p) PROVE LeaseInv'
  BY <1>1 DEF Acquire, MayAcquire
<1>2. ASSUME NEW p \in Pods, BecomeLeader(p) PROVE LeaseInv'
  BY <1>2 DEF BecomeLeader
<1>3. ASSUME NEW p \in Pods, StayAsIs(p) PROVE LeaseInv'
  BY <1>3 DEF StayAsIs
<1>4. ASSUME NEW p \in Pods, BecomeFollower(p) PROVE LeaseInv'
  BY <1>4 DEF BecomeFollower
<1>5. ASSUME NEW p \in Pods, TasksJoined(p) PROVE LeaseInv'
  BY <1>5 DEF TasksJoined
<1>6. ASSUME NEW p \in Pods, Released(p) PROVE LeaseInv'
  BY <1>6 DEF Released, StepDown
<1>7. ASSUME NEW p \in Pods, RenewTick(p) PROVE LeaseInv'
  BY <1>7 DEF RenewTick
<1>8. ASSUME NEW p \in Pods, BeginShutdown(p) PROVE LeaseInv'
  BY <1>8 DEF BeginShutdown
<1>9. ASSUME NEW p \in Pods, TasksDrained(p) PROVE LeaseInv'
  BY <1>9 DEF TasksDrained
<1>10. ASSUME NEW p \in Pods, Release(p) PROVE LeaseInv'
  BY <1>10 DEF Release, StepDown
<1>11. ASSUME NEW p \in Pods, Exit(p) PROVE LeaseInv'
  BY <1>11 DEF Exit, ProcessEnds
<1>12. ASSUME NEW p \in Pods, Crash(p) PROVE LeaseInv'
  BY <1>12 DEF Crash, ProcessEnds
<1>13. ASSUME NEW p \in Pods, Restart(p) PROVE LeaseInv'
  BY <1>13 DEF Restart
<1>14. ASSUME NEW p \in Pods, Sigterm(p) PROVE LeaseInv'
  BY <1>14 DEF Sigterm
<1>15. ASSUME NEW p \in Pods, StartTasks(p) PROVE LeaseInv'
  BY <1>15 DEF StartTasks
<1>16. ASSUME NEW p \in Pods, StartFails(p) PROVE LeaseInv'
  BY <1>16 DEF StartFails
<1>17. ASSUME NEW p \in Pods, StopTask(p) PROVE LeaseInv'
  BY <1>17 DEF StopTask
<1>18. ASSUME NEW p \in Pods, StopFails(p) PROVE LeaseInv'
  BY <1>18 DEF StopFails
<1>19. ASSUME NEW p \in Pods, StopDone(p) PROVE LeaseInv'
  BY <1>19 DEF StopDone
<1>20. ASSUME NEW p \in Pods, TaskPanics(p) PROVE LeaseInv'
  BY <1>20 DEF TaskPanics
<1>21. ASSUME NEW p \in Pods, OrphanStops(p) PROVE LeaseInv'
  BY <1>21 DEF OrphanStops
<1>22. ASSUME NEW p \in Pods, HealthStep(p) PROVE LeaseInv'
  BY <1>22 DEF HealthStep
<1>23. CASE Expire \/ Over \/ UNCHANGED vars
  BY <1>23, SMTT(30) DEF Expire, Over, vars
<1> QED
  BY <1>1, <1>2, <1>3, <1>4, <1>5, <1>6, <1>7, <1>8, <1>9, <1>10, <1>11, <1>12, Zenon,
     <1>13, <1>14, <1>15, <1>16, <1>17, <1>18, <1>19, <1>20, <1>21, <1>22, <1>23
  DEF Next, Coordinate, LeaderTask

\* Without failures no task outlives its epoch, however late the renewals are.
LEMMA NextNoOrphans ==
  ASSUME ~MayFail, BaseInv, NoOrphans, [Next]_vars
  PROVE  NoOrphans'
<1> USE ElectionConstants DEF BaseInv, TypeOK, EpochInv, NoOrphans, leaseVars, taskVars, signalVars
<1>1. ASSUME NEW p \in Pods, Acquire(p) PROVE NoOrphans'
  BY <1>1 DEF Acquire, MayAcquire
<1>2. ASSUME NEW p \in Pods, BecomeLeader(p) PROVE NoOrphans'
  BY <1>2 DEF BecomeLeader
<1>3. ASSUME NEW p \in Pods, StayAsIs(p) PROVE NoOrphans'
  BY <1>3 DEF StayAsIs
<1>4. ASSUME NEW p \in Pods, BecomeFollower(p) PROVE NoOrphans'
  BY <1>4 DEF BecomeFollower
<1>5. ASSUME NEW p \in Pods, TasksJoined(p) PROVE NoOrphans'
  BY <1>5 DEF TasksJoined
<1>6. ASSUME NEW p \in Pods, Released(p) PROVE NoOrphans'
  BY <1>6 DEF Released, StepDown
<1>7. ASSUME NEW p \in Pods, RenewTick(p) PROVE NoOrphans'
  BY <1>7 DEF RenewTick
<1>8. ASSUME NEW p \in Pods, BeginShutdown(p) PROVE NoOrphans'
  BY <1>8 DEF BeginShutdown
<1>9. ASSUME NEW p \in Pods, TasksDrained(p) PROVE NoOrphans'
  BY <1>9 DEF TasksDrained
<1>10. ASSUME NEW p \in Pods, Release(p) PROVE NoOrphans'
  BY <1>10 DEF Release, StepDown
<1>11. ASSUME NEW p \in Pods, Exit(p) PROVE NoOrphans'
  BY <1>11 DEF Exit, ProcessEnds
<1>12. ASSUME NEW p \in Pods, Crash(p) PROVE NoOrphans'
  BY <1>12 DEF Crash, ProcessEnds
<1>13. ASSUME NEW p \in Pods, Restart(p) PROVE NoOrphans'
  BY <1>13 DEF Restart
<1>14. ASSUME NEW p \in Pods, Sigterm(p) PROVE NoOrphans'
  BY <1>14 DEF Sigterm
<1>15. ASSUME NEW p \in Pods, StartTasks(p) PROVE NoOrphans'
  BY <1>15 DEF StartTasks
<1>16. ASSUME NEW p \in Pods, StartFails(p) PROVE NoOrphans'
  BY <1>16 DEF StartFails
<1>17. ASSUME NEW p \in Pods, StopTask(p) PROVE NoOrphans'
  BY <1>17 DEF StopTask
<1>18. ASSUME NEW p \in Pods, StopFails(p) PROVE NoOrphans'
  BY <1>18 DEF StopFails
<1>19. ASSUME NEW p \in Pods, StopDone(p) PROVE NoOrphans'
  BY <1>19 DEF StopDone
<1>20. ASSUME NEW p \in Pods, TaskPanics(p) PROVE NoOrphans'
  BY <1>20 DEF TaskPanics
<1>21. ASSUME NEW p \in Pods, OrphanStops(p) PROVE NoOrphans'
  BY <1>21 DEF OrphanStops
<1>22. ASSUME NEW p \in Pods, HealthStep(p) PROVE NoOrphans'
  BY <1>22 DEF HealthStep
<1>23. CASE Expire \/ Over \/ UNCHANGED vars
  BY <1>23 DEF Expire, Over, vars
<1> QED
  BY <1>1, <1>2, <1>3, <1>4, <1>5, <1>6, <1>7, <1>8, <1>9, <1>10, <1>11, <1>12, Zenon,
     <1>13, <1>14, <1>15, <1>16, <1>17, <1>18, <1>19, <1>20, <1>21, <1>22, <1>23
  DEF Next, Coordinate, LeaderTask

-----------------------------------------------------------------------------
(* The theorems *)

\* The base invariant holds whatever fails.
THEOREM BaseInvariance == Spec => []BaseInv
BY InitBase, NextBase, PTL DEF Spec

\* The lease, the pods and their tasks keep their types.
THEOREM ElectionTypeCorrect == Spec => []TypeOK
<1>1. BaseInv => TypeOK
  BY DEF BaseInv
<1> QED  BY <1>1, BaseInvariance, PTL

\* What K8sLeaderConfig::from_env makes of LEASE_TTL_SECONDS: a leader can renew before its
\* lease ends exactly when the TTL is at least two seconds, and from five seconds on four
\* calls in a row may fail.
THEOREM RenewalFitsTtl ==
  \A ttl \in Nat : /\ RenewEvery(ttl) < ttl <=> ttl >= 2
                   /\ ttl >= 5 => 5 * RenewEvery(ttl) <= ttl
<1> TAKE ttl \in Nat
<1>1. ttl \div 5 \in Nat /\ 5 * (ttl \div 5) <= ttl
  OBVIOUS
<1> QED  BY <1>1 DEF RenewEvery

\* A pod that is not leader runs no epoch, however leadership, signals, crashes, panics
\* and failed starts interleave; and until a panic or a failed start in its process it runs
\* no task at all, and a leader none of an earlier epoch.
THEOREM FollowersAreQuiet == Spec => []FollowerServesNothing
<1>1. BaseInv => FollowerServesNothing
  BY DEF BaseInv, EpochInv, FollowerServesNothing, Alive
<1> QED  BY <1>1, BaseInvariance, PTL

\* With timely renewals a pod that regards itself as leader holds the lease.
THEOREM LeaderHoldsLease == ASSUME Timely PROVE Spec => []LeaseInv
<1>1. Init => LeaseInv
  BY DEF Init, LeaseInv
<1>2. BaseInv /\ LeaseInv /\ [Next]_vars => LeaseInv'
  BY NextLease
<1> QED  BY <1>1, <1>2, BaseInvariance, PTL DEF Spec

\* Without failures every task ends with its epoch.
THEOREM NothingOutlivesEpoch == ASSUME ~MayFail PROVE Spec => []NoOrphans
<1>1. Init => NoOrphans
  BY DEF Init, NoOrphans
<1>2. BaseInv /\ NoOrphans /\ [Next]_vars => NoOrphans'
  BY NextNoOrphans
<1> QED  BY <1>1, <1>2, BaseInvariance, PTL DEF Spec

\* With timely renewals and tasks that do not fail, two pods never run leader tasks
\* at the same time.
THEOREM OneLeader == ASSUME Timely, ~MayFail PROVE Spec => []ExclusiveProducers
<1>1. BaseInv /\ LeaseInv /\ NoOrphans => ExclusiveProducers
  BY DEF BaseInv, EpochInv, LeaseInv, NoOrphans, ExclusiveProducers, Alive
<1> QED  BY <1>1, BaseInvariance, LeaderHoldsLease, NothingOutlivesEpoch, PTL

\* A pod gives the lease back only when its tasks have stopped, whether or not it
\* renewed in time, provided no task fails.
THEOREM LeaseReleasedLast == ASSUME ~MayFail PROVE Spec => ReleasedAfterStop
<1> DEFINE Handover == \A p \in Pods : holder = p /\ holder' = NoPod => Alive(p) = {}
<1>1. ASSUME BaseInv, NoOrphans, Next PROVE Handover
  <2> SUFFICES ASSUME NEW p \in Pods, holder = p, holder' = NoPod PROVE Alive(p) = {}
    OBVIOUS
  <2> NoPod \notin Pods
    BY ElectionConstants
  <2>1. Released(p) \/ Release(p)
    <3>1. ASSUME NEW q \in Pods, Coordinate(q) PROVE Released(p) \/ Release(p)
      BY <3>1, SMTT(30)
      DEF Coordinate, Acquire, BecomeLeader, StayAsIs, BecomeFollower, TasksJoined, Released,
          RenewTick, BeginShutdown, TasksDrained, Release, Exit, ProcessEnds, StepDown, leaseVars
    <3>2. ASSUME NEW q \in Pods, LeaderTask(q) \/ OrphanStops(q) \/ HealthStep(q) PROVE FALSE
      BY <3>2
      DEF LeaderTask, StartTasks, StartFails, StopTask, StopFails, StopDone, OrphanStops,
          HealthStep, leaseVars
    <3>3. ASSUME NEW q \in Pods, TaskPanics(q) \/ Crash(q) \/ Restart(q) \/ Sigterm(q) PROVE FALSE
      BY <3>3 DEF TaskPanics, Crash, ProcessEnds, Restart, Sigterm, leaseVars
    <3>4. ASSUME Expire \/ Over PROVE FALSE
      BY <3>4 DEF Expire, Over, vars, leaseVars
    <3> QED  BY <1>1, <3>1, <3>2, <3>3, <3>4 DEF Next
  <2>2. epoch[p] # "running"
    BY <1>1, <2>1 DEF BaseInv, EpochInv, Released, Release
  <2> QED  BY <1>1, <2>2 DEF BaseInv, EpochInv, NoOrphans, Alive
<1>2. BaseInv /\ NoOrphans /\ [Next]_vars => [Handover]_vars
  BY <1>1
<1> QED  BY <1>2, BaseInvariance, NothingOutlivesEpoch, PTL DEF Spec, ReleasedAfterStop

-----------------------------------------------------------------------------
(* The reader of the #[rpc] attribute. *)

\* How many tokens the attribute has, and how many of them have been read.
Total == IF entries = <<>> THEN 0 ELSE 4 * Len(entries) - 1
Read == Total - Len(tokens)

\* v is the value of the last of the first m entries with the key k.
IsLast(v, k, m) ==
  \/ v = "None" /\ \A i \in 1..m : entries[i].key # k
  \/ \E i \in 1..m :
       /\ entries[i].key = k /\ v = entries[i].value
       /\ \A j \in 1..m : entries[j].key = k => j <= i

\* What the parser looks for after p tokens.
ScanAt(p) == IF p % 4 = 1 THEN "equal" ELSE IF p % 4 = 2 THEN "value" ELSE "key"

\* The tokens that are left are the last ones of the attribute, the parser looks for what
\* comes next among them, and has kept the last values among the entries it has read.
ReaderInv ==
  /\ entries \in EntryLists
  /\ tokens \in Seq({Rendered(entries)[i] : i \in 1..Total}) /\ Len(tokens) <= Total
  /\ \A i \in 1..Len(tokens) : tokens[i] = Rendered(entries)[Read + i]
  /\ scan = ScanAt(Read)
  /\ Read % 4 \in {1, 2} => key = entries[(Read \div 4) + 1].key
  /\ IsLast(namespace, "namespace", (Read + 1) \div 4)
  /\ IsLast(method, "method", (Read + 1) \div 4)
  /\ parsed # "none" =>
       /\ tokens = <<>>
       /\ parsed = (IF namespace = "None" THEN "MissingNamespace"
                    ELSE IF method = "None" THEN "MissingMethod" ELSE "ok")

\* An attribute with all its tokens is read as ReaderInv says.
AttributeInv == ~damaged => ReaderInv

\* The entries, and the tokens of the attribute.
LEMMA EntryFacts ==
  ASSUME entries \in EntryLists
  PROVE  /\ Len(entries) \in Nat /\ DOMAIN entries = 1..Len(entries) /\ Total \in Nat
         /\ (Total + 1) \div 4 = Len(entries) /\ (Len(entries) = 0 <=> entries = <<>>)
         /\ \A i \in 1..Len(entries) : /\ entries[i].key \notin Literals \cup {"EQUALS", "COMMA"}
                                       /\ entries[i].value \in Literals
<1>1. /\ entries \in Seq({entries[i] : i \in DOMAIN entries})
      /\ \A i \in DOMAIN entries : /\ entries[i].key \notin Literals \cup {"EQUALS", "COMMA"}
                                   /\ entries[i].value \in Literals
  BY AttributeTokens
<1>2. /\ Len(entries) \in Nat /\ DOMAIN entries = 1..Len(entries)
      /\ Len(entries) = 0 <=> entries = <<>>
  <2> DEFINE S == {entries[i] : i \in DOMAIN entries}
  <2>1. entries \in Seq(S)
    BY <1>1
  <2> HIDE DEF S
  <2> QED  BY <2>1
<1>3. Total \in Nat /\ (Total + 1) \div 4 = Len(entries)
  <2>1. CASE entries = <<>>
    BY <1>2, <2>1 DEF Total
  <2>2. CASE entries # <<>>
    <3> DEFINE n == Len(entries)
    <3>1. n \in Nat /\ n # 0 /\ Total = 4 * n - 1
      BY <1>2, <2>2 DEF Total
    <3> HIDE DEF n
    <3>2. Total \in Nat /\ (Total + 1) \div 4 = n
      BY <3>1
    <3> QED  BY <3>2 DEF n
  <2> QED  BY <2>1, <2>2
<1> QED  BY <1>1, <1>2, <1>3, Zenon

LEMMA RenderedTokens ==
  ASSUME entries \in EntryLists
  PROVE  /\ Rendered(entries) \in Seq({Rendered(entries)[i] : i \in 1..Total})
         /\ Len(Rendered(entries)) = Total
         /\ \A q \in 1..Total :
              LET e == entries[(q + 3) \div 4]
              IN  /\ (q + 3) \div 4 \in 1..Len(entries)
                  /\ (q - 1) % 4 = 0 => Rendered(entries)[q] = e.key
                  /\ (q - 1) % 4 = 1 => Rendered(entries)[q] = "EQUALS"
                  /\ (q - 1) % 4 = 2 => Rendered(entries)[q] = e.value
                  /\ (q - 1) % 4 = 3 => Rendered(entries)[q] = "COMMA"
<1>1. Len(entries) \in Nat /\ Total \in Nat /\ (Len(entries) = 0 <=> entries = <<>>)
  BY EntryFacts
<1>2. 1..(4 * Len(entries) - 1) = 1..Total
  BY <1>1 DEF Total
<1>3. /\ Rendered(entries) = [q \in 1..Total |-> Rendered(entries)[q]]
      /\ \A q \in 1..Total : Rendered(entries)[q] =
           LET e == entries[(q + 3) \div 4]
           IN  <<e.key, "EQUALS", e.value, "COMMA">>[((q - 1) % 4) + 1]
  BY <1>2, Zenon DEF Rendered
<1>4. \A q \in 1..Total : (q + 3) \div 4 \in 1..Len(entries)
  BY <1>1 DEF Total
<1>5. /\ Rendered(entries) \in Seq({Rendered(entries)[i] : i \in 1..Total})
      /\ Len(Rendered(entries)) = Total
  <2> DEFINE S == {Rendered(entries)[i] : i \in 1..Total}
             R == Rendered(entries)
  <2>1. R = [q \in 1..Total |-> R[q]] /\ \A q \in 1..Total : R[q] \in S
    BY <1>3
  <2> HIDE DEF S, R
  <2>2. R \in Seq(S) /\ Len(R) = Total
    BY <1>1, <2>1
  <2> QED  BY <2>2 DEF S, R
<1>6. ASSUME NEW q \in 1..Total
      PROVE  LET e == entries[(q + 3) \div 4]
             IN  /\ (q - 1) % 4 = 0 => Rendered(entries)[q] = e.key
                 /\ (q - 1) % 4 = 1 => Rendered(entries)[q] = "EQUALS"
                 /\ (q - 1) % 4 = 2 => Rendered(entries)[q] = e.value
                 /\ (q - 1) % 4 = 3 => Rendered(entries)[q] = "COMMA"
  <2> DEFINE e == entries[(q + 3) \div 4]
             r == (q - 1) % 4
  <2>1. Rendered(entries)[q] = <<e.key, "EQUALS", e.value, "COMMA">>[r + 1]
    BY <1>3
  <2> DEFINE t == <<e.key, "EQUALS", e.value, "COMMA">>
  <2>2. t[1] = e.key /\ t[2] = "EQUALS" /\ t[3] = e.value /\ t[4] = "COMMA"
    OBVIOUS
  <2>3. Rendered(entries)[q] = t[r + 1]
    BY <2>1
  <2> HIDE DEF e, r, t
  <2>4. /\ r = 0 => Rendered(entries)[q] = e.key
        /\ r = 1 => Rendered(entries)[q] = "EQUALS"
        /\ r = 2 => Rendered(entries)[q] = e.value
        /\ r = 3 => Rendered(entries)[q] = "COMMA"
    BY <2>2, <2>3
  <2> QED  BY <2>4 DEF e, r
<1> QED  BY <1>4, <1>5, <1>6

\* Four tokens make an entry.
LEMMA ByFour ==
  ASSUME NEW p \in Nat
  PROVE  /\ p % 4 = 0 => /\ (p + 1) % 4 = 1 /\ (p + 1 + 1) \div 4 = (p + 1) \div 4
                         /\ (p + 1) \div 4 = p \div 4 /\ (p + 1 + 3) \div 4 = (p \div 4) + 1
         /\ p % 4 = 1 => /\ (p + 1) % 4 = 2 /\ (p + 1 + 1) \div 4 = (p + 1) \div 4
                         /\ (p + 1) \div 4 = p \div 4
         /\ p % 4 = 2 => /\ (p + 1) % 4 = 3 /\ (p + 1 + 1) \div 4 = ((p + 1) \div 4) + 1
                         /\ (p + 1 + 3) \div 4 = ((p + 1) \div 4) + 1
                         /\ (p + 1) \div 4 = p \div 4
         /\ p % 4 = 3 => (p + 1) % 4 = 0 /\ (p + 1 + 1) \div 4 = (p + 1) \div 4
         /\ p % 4 \in {0, 1, 2, 3} /\ (p + 1) \div 4 \in Nat /\ (p + 1) - 1 = p
OBVIOUS

\* A step that takes a token leaves the rest of the attribute.
LEMMA TakesToken ==
  ASSUME ReaderInv, tokens # <<>>, tokens' = Tail(tokens), entries' = entries
  PROVE  /\ Read \in Nat /\ Read + 1 \in 1..Total /\ Read' = Read + 1
         /\ Token = Rendered(entries)[Read + 1]
         /\ tokens' \in Seq({Rendered(entries')[i] : i \in 1..Total'}) /\ Len(tokens') <= Total'
         /\ \A i \in 1..Len(tokens') : tokens'[i] = Rendered(entries')[Read' + i]
<1> DEFINE S == {Rendered(entries)[i] : i \in 1..Total}
<1>1. Total \in Nat /\ Total' = Total /\ Rendered(entries') = Rendered(entries)
  BY EntryFacts DEF ReaderInv, Total
<1>2. tokens \in Seq(S) /\ Len(tokens) <= Total
  BY DEF ReaderInv
<1>3. S = {Rendered(entries')[i] : i \in 1..Total'}
  BY <1>1
<1> HIDE DEF S
<1>4. /\ Len(tokens) \in Nat \ {0} /\ tokens' \in Seq(S) /\ Len(tokens') = Len(tokens) - 1
      /\ Token = tokens[1] /\ \A i \in 1..Len(tokens') : tokens'[i] = tokens[i + 1]
  <2>1. Len(tokens) \in Nat \ {0}
    BY <1>2
  <2>2. /\ tokens' \in Seq(S) /\ Len(tokens') = Len(tokens) - 1
        /\ \A i \in 1..Len(tokens') : tokens'[i] = tokens[i + 1]
    BY <1>2
  <2>3. Token = tokens[1]
    BY <1>2 DEF Token
  <2> QED  BY <2>1, <2>2, <2>3
<1>5. Read \in Nat /\ Read + 1 \in 1..Total /\ Read' = Read + 1
  BY <1>1, <1>2, <1>4 DEF Read
<1>6. Token = Rendered(entries)[Read + 1]
  <2>1. 1 \in 1..Len(tokens)
    BY <1>4
  <2> QED  BY <1>4, <2>1 DEF ReaderInv
<1>7. ASSUME NEW i \in 1..Len(tokens') PROVE tokens'[i] = Rendered(entries')[Read' + i]
  <2>1. i + 1 \in 1..Len(tokens) /\ Read + (i + 1) = Read' + i
    BY <1>4, <1>5
  <2>2. tokens[i + 1] = Rendered(entries)[Read + (i + 1)]
    BY <2>1 DEF ReaderInv
  <2> QED  BY <1>1, <1>4, <2>1, <2>2
<1>8. Len(tokens') <= Total'
  BY <1>1, <1>2, <1>4
<1> QED  BY <1>3, <1>4, <1>5, <1>6, <1>7, <1>8

\* The value of one more entry.
LEMMA LastOfMore ==
  ASSUME NEW v, NEW k, NEW m \in Nat, IsLast(v, k, m)
  PROVE  IsLast(IF entries[m + 1].key = k THEN entries[m + 1].value ELSE v, k, m + 1)
<1>1. \A i \in 1..(m + 1) : i = m + 1 \/ i \in 1..m
  OBVIOUS
<1>2. \A i \in 1..m : i \in 1..(m + 1) /\ i <= m + 1
  OBVIOUS
<1>3. m + 1 \in 1..(m + 1) /\ m + 1 <= m + 1
  OBVIOUS
<1>4. CASE entries[m + 1].key = k
  BY <1>1, <1>2, <1>3, <1>4 DEF IsLast
<1>5. CASE entries[m + 1].key # k
  BY <1>1, <1>2, <1>5 DEF IsLast
<1> QED  BY <1>4, <1>5

\* At the end it is the value of LastOf.
LEMMA LastOfAll ==
  ASSUME NEW v, NEW k, entries \in EntryLists, IsLast(v, k, Len(entries))
  PROVE  v = LastOf(k)
<1> DEFINE mine == {i \in DOMAIN entries : entries[i].key = k}
<1>1. DOMAIN entries = 1..Len(entries) /\ Len(entries) \in Nat
  BY EntryFacts
<1>2. CASE v = "None" /\ \A i \in 1..Len(entries) : entries[i].key # k
  BY <1>1, <1>2 DEF LastOf
<1>3. ASSUME NEW i \in 1..Len(entries), entries[i].key = k, v = entries[i].value,
             \A j \in 1..Len(entries) : entries[j].key = k => j <= i
      PROVE  v = LastOf(k)
  <2>1. i \in mine /\ \A j \in mine : j <= i
    BY <1>1, <1>3
  <2>2. mine \subseteq Nat
    BY <1>1
  <2> DEFINE c == CHOOSE c \in mine : \A j \in mine : j <= c
  <2>3. LastOf(k) = entries[c].value
    BY <2>1 DEF LastOf
  <2> HIDE DEF mine
  <2>4. c \in mine /\ \A j \in mine : j <= c
    BY <2>1, Zenon
  <2> HIDE DEF c
  <2>5. c = i
    <3>1. c <= i /\ i <= c /\ c \in Nat /\ i \in Nat
      BY <2>1, <2>2, <2>4
    <3> QED  BY <3>1
  <2> QED  BY <1>3, <2>3, <2>5
<1> QED  BY <1>2, <1>3 DEF IsLast

LEMMA AttributeInvInitially == AttributeInit => AttributeInv
<1> SUFFICES ASSUME AttributeInit, ~damaged PROVE ReaderInv
  BY DEF AttributeInv
<1>1. entries \in EntryLists /\ tokens = Rendered(entries)
  BY DEF AttributeInit
<1>2. /\ tokens \in Seq({Rendered(entries)[i] : i \in 1..Total}) /\ Len(tokens) = Total
      /\ Total \in Nat
  BY <1>1, RenderedTokens, EntryFacts
<1>3. Read = 0 /\ 0 % 4 = 0 /\ (0 + 1) \div 4 = 0
  BY <1>2 DEF Read
<1>4. \A i \in 1..Len(tokens) : tokens[i] = Rendered(entries)[Read + i]
  BY <1>1, <1>2, <1>3
<1>5. \A k : IsLast("None", k, 0)
  BY DEF IsLast
<1> QED  BY <1>1, <1>2, <1>3, <1>4, <1>5 DEF ReaderInv, ScanAt, AttributeInit

\* What ReaderInv says of the state after a token was taken.
LEMMA ReaderInvAfterToken ==
  ASSUME ReaderInv, tokens # <<>>, tokens' = Tail(tokens), entries' = entries,
         parsed' = "none", scan' = ScanAt(Read + 1),
         (Read + 1) % 4 \in {1, 2} => key' = entries[((Read + 1) \div 4) + 1].key,
         IsLast(namespace', "namespace", (Read + 1 + 1) \div 4),
         IsLast(method', "method", (Read + 1 + 1) \div 4)
  PROVE  ReaderInv'
<1>1. /\ Read' = Read + 1
      /\ tokens' \in Seq({Rendered(entries')[i] : i \in 1..Total'}) /\ Len(tokens') <= Total'
      /\ \A i \in 1..Len(tokens') : tokens'[i] = Rendered(entries')[Read' + i]
  BY TakesToken
<1>2. entries' \in EntryLists
  BY DEF ReaderInv
<1>3. IsLast(namespace, "namespace", (Read + 1) \div 4)' /\ IsLast(method, "method", (Read + 1) \div 4)'
  BY <1>1, Zenon DEF IsLast
<1>4. (Read % 4 \in {1, 2} => key = entries[(Read \div 4) + 1].key)' /\ scan' = ScanAt(Read)'
  BY <1>1 DEF ScanAt
<1> QED  BY <1>1, <1>2, <1>3, <1>4 DEF ReaderInv

LEMMA ReadKeyKeeps == ASSUME ReaderInv, ReadKey PROVE ReaderInv'
<1> DEFINE p == Read
           e == entries[(p \div 4) + 1]
<1>1. /\ tokens # <<>> /\ tokens' = Tail(tokens) /\ entries' = entries /\ scan = "key"
      /\ parsed' = "none" /\ namespace' = namespace /\ method' = method
  BY DEF ReadKey, Takes
<1>2. p \in Nat /\ p + 1 \in 1..Total /\ Token = Rendered(entries)[p + 1]
  BY <1>1, TakesToken
<1>3. entries \in EntryLists /\ scan = ScanAt(p)
      /\ IsLast(namespace, "namespace", (p + 1) \div 4) /\ IsLast(method, "method", (p + 1) \div 4)
  BY DEF ReaderInv
<1> HIDE DEF p
<1>4. p % 4 \in {0, 3}
  BY <1>1, <1>2, <1>3, ByFour DEF ScanAt
<1>5. (p + 1 + 1) \div 4 = (p + 1) \div 4
  BY <1>2, <1>4, ByFour
<1>6. CASE p % 4 = 0
  <2>1. Token = e.key /\ (p \div 4) + 1 \in 1..Len(entries)
    BY <1>2, <1>3, <1>6, ByFour, RenderedTokens, Zenon
  <2>2. e.key \notin Literals \cup {"EQUALS", "COMMA"}
    BY <1>3, <2>1, EntryFacts
  <2>3. scan' = "equal" /\ key' = e.key
    BY <2>1, <2>2 DEF ReadKey, Takes
  <2>4. (p + 1) % 4 = 1 /\ (p + 1) \div 4 = p \div 4
    BY <1>2, <1>6, ByFour
  <2>5. scan' = ScanAt(p + 1) /\ key' = entries[((p + 1) \div 4) + 1].key
    BY <2>3, <2>4 DEF ScanAt
  <2> QED  BY <1>1, <1>3, <1>5, <2>5, ReaderInvAfterToken DEF p
<1>7. CASE p % 4 = 3
  <2>1. Token = "COMMA"
    BY <1>2, <1>3, <1>7, ByFour, RenderedTokens
  <2>2. scan' = "key"
    BY <2>1 DEF ReadKey, Takes
  <2>3. (p + 1) % 4 = 0
    BY <1>2, <1>7, ByFour
  <2>4. scan' = ScanAt(p + 1) /\ ~ ((p + 1) % 4 \in {1, 2})
    BY <2>2, <2>3 DEF ScanAt
  <2> QED  BY <1>1, <1>3, <1>5, <2>4, ReaderInvAfterToken DEF p
<1> QED  BY <1>4, <1>6, <1>7

LEMMA SkipKeeps == ASSUME ReaderInv, skip_until_equal PROVE ReaderInv'
<1> DEFINE p == Read
<1>1. /\ tokens # <<>> /\ tokens' = Tail(tokens) /\ entries' = entries /\ scan = "equal"
      /\ parsed' = "none" /\ namespace' = namespace /\ method' = method /\ key' = key
  BY DEF skip_until_equal, Takes
<1>2. p \in Nat /\ p + 1 \in 1..Total /\ Token = Rendered(entries)[p + 1]
  BY <1>1, TakesToken
<1>3. /\ entries \in EntryLists /\ scan = ScanAt(p)
      /\ p % 4 \in {1, 2} => key = entries[(p \div 4) + 1].key
      /\ IsLast(namespace, "namespace", (p + 1) \div 4) /\ IsLast(method, "method", (p + 1) \div 4)
  BY DEF ReaderInv
<1> HIDE DEF p
<1>4. p % 4 = 1
  BY <1>1, <1>3 DEF ScanAt
<1>5. /\ (p + 1 + 1) \div 4 = (p + 1) \div 4 /\ (p + 1) % 4 = 2
      /\ (p + 1) \div 4 = p \div 4
  BY <1>2, <1>4, ByFour
<1>6. Token = "EQUALS"
  BY <1>2, <1>3, <1>4, ByFour, RenderedTokens
<1>7. scan' = ScanAt(p + 1)
  BY <1>5, <1>6 DEF skip_until_equal, Takes, ScanAt
<1>8. key' = entries[((p + 1) \div 4) + 1].key
  BY <1>1, <1>3, <1>4, <1>5
<1> QED  BY <1>1, <1>3, <1>5, <1>7, <1>8, ReaderInvAfterToken DEF p

LEMMA LiteralKeeps == ASSUME ReaderInv, parse_string_literal PROVE ReaderInv'
<1> DEFINE p == Read
           m == (p + 1) \div 4
           e == entries[m + 1]
<1>1. /\ tokens # <<>> /\ tokens' = Tail(tokens) /\ entries' = entries
      /\ scan = "value" /\ scan' = "key" /\ parsed = "none"
  BY DEF parse_string_literal, Takes
<1>2. p \in Nat /\ p + 1 \in 1..Total /\ Token = Rendered(entries)[p + 1]
  BY <1>1, TakesToken
<1>3. /\ entries \in EntryLists /\ scan = ScanAt(p)
      /\ p % 4 \in {1, 2} => key = entries[(p \div 4) + 1].key
      /\ IsLast(namespace, "namespace", m) /\ IsLast(method, "method", m)
  BY DEF ReaderInv
<1> HIDE DEF p
<1>4. p % 4 = 2
  BY <1>1, <1>3 DEF ScanAt
<1>5. /\ (p + 1) % 4 = 3 /\ (p + 1 + 1) \div 4 = m + 1 /\ (p + 1 + 3) \div 4 = m + 1
      /\ m = p \div 4 /\ m \in Nat /\ (p + 1) - 1 = p
  BY <1>2, <1>4, ByFour
<1> HIDE DEF m
<1>6. Token = e.value /\ m + 1 \in 1..Len(entries)
  BY <1>2, <1>3, <1>4, <1>5, RenderedTokens, Zenon
<1>7. e.value \in Literals /\ key = e.key
  BY <1>3, <1>4, <1>5, <1>6, EntryFacts
<1>8. /\ parsed' = "none"
      /\ namespace' = IF e.key = "namespace" THEN e.value ELSE namespace
      /\ method' = IF e.key = "method" THEN e.value ELSE method
  BY <1>1, <1>6, <1>7 DEF parse_string_literal
<1>9. IsLast(namespace', "namespace", m + 1) /\ IsLast(method', "method", m + 1)
  BY <1>3, <1>5, <1>8, LastOfMore
<1>10. scan' = ScanAt(p + 1) /\ ~ ((p + 1) % 4 \in {1, 2})
  BY <1>1, <1>5 DEF ScanAt
<1> QED  BY <1>1, <1>5, <1>8, <1>9, <1>10, ReaderInvAfterToken DEF p

LEMMA EndKeeps == ASSUME ReaderInv, parse_attr_tokens PROVE ReaderInv'
<1>1. /\ tokens = <<>> /\ parsed = "none"
      /\ UNCHANGED <<entries, tokens, scan, key, namespace, method>>
  BY DEF parse_attr_tokens
<1>2. Read = Total /\ Total % 4 \in {0, 3}
  <2>1. Len(entries) \in Nat /\ Total \in Nat
    BY EntryFacts DEF ReaderInv
  <2>2. Read = Total
    BY <1>1, <2>1 DEF Read
  <2>3. CASE entries = <<>>
    BY <2>2, <2>3 DEF Total
  <2>4. CASE entries # <<>>
    <3> DEFINE n == Len(entries)
    <3>1. n \in Nat /\ Total = 4 * n - 1
      BY <2>1, <2>4 DEF Total
    <3> HIDE DEF n
    <3>2. Total % 4 = 3
      BY <3>1
    <3> QED  BY <2>2, <3>2
  <2> QED  BY <2>3, <2>4
<1>3. scan = "key"
  BY <1>2 DEF ReaderInv, ScanAt
<1>4. parsed' = (IF namespace = "None" THEN "MissingNamespace"
                 ELSE IF method = "None" THEN "MissingMethod" ELSE "ok")
  BY <1>3 DEF parse_attr_tokens
<1>5. Total' = Total /\ Read' = Read
  BY <1>1 DEF Total, Read
<1>6. /\ IsLast(namespace, "namespace", (Read + 1) \div 4)'
      /\ IsLast(method, "method", (Read + 1) \div 4)' /\ scan' = ScanAt(Read)'
  BY <1>1, <1>5 DEF IsLast, ScanAt, ReaderInv
<1> QED  BY <1>1, <1>4, <1>5, <1>6 DEF ReaderInv

LEMMA AttributeInvIsKept == AttributeInv /\ [AttributeNext]_attributeVars => AttributeInv'
<1> SUFFICES ASSUME AttributeInv, [AttributeNext]_attributeVars, ~damaged' PROVE ReaderInv'
  BY DEF AttributeInv
<1>1. damaged' = damaged
  BY DEF AttributeNext, attributeVars, ReadKey, skip_until_equal, parse_string_literal,
         parse_attr_tokens
<1>2. ReaderInv
  BY <1>1 DEF AttributeInv
<1>3. CASE UNCHANGED attributeVars
  <2>1. UNCHANGED <<entries, tokens, scan, key, namespace, method, parsed>>
    BY <1>3 DEF attributeVars
  <2>2. Total' = Total /\ Read' = Read
    BY <2>1 DEF Total, Read
  <2>3. /\ IsLast(namespace, "namespace", (Read + 1) \div 4)'
        /\ IsLast(method, "method", (Read + 1) \div 4)' /\ scan' = ScanAt(Read)'
    BY <1>2, <2>1, <2>2 DEF IsLast, ScanAt, ReaderInv
  <2> QED  BY <1>2, <2>1, <2>2, <2>3 DEF ReaderInv
<1> QED
  BY <1>2, <1>3, ReadKeyKeeps, SkipKeeps, LiteralKeeps, EndKeeps DEF AttributeNext

LEMMA AttributeInvReadsBack == AttributeInv => AttributeReadBack
<1> SUFFICES ASSUME AttributeInv, parsed # "none", ~damaged
             PROVE  /\ namespace = LastOf("namespace") /\ method = LastOf("method")
                    /\ parsed = (IF namespace = "None" THEN "MissingNamespace"
                                 ELSE IF method = "None" THEN "MissingMethod" ELSE "ok")
  BY DEF AttributeReadBack
<1>1. ReaderInv
  BY DEF AttributeInv
<1>2. tokens = <<>> /\ entries \in EntryLists
  BY <1>1 DEF ReaderInv
<1>3. Total \in Nat /\ (Total + 1) \div 4 = Len(entries)
  BY <1>2, EntryFacts
<1>4. Read = Total
  BY <1>2, <1>3 DEF Read
<1>5. IsLast(namespace, "namespace", Len(entries)) /\ IsLast(method, "method", Len(entries))
  BY <1>1, <1>3, <1>4 DEF ReaderInv
<1>6. namespace = LastOf("namespace") /\ method = LastOf("method")
  BY <1>2, <1>5, LastOfAll
<1> QED  BY <1>1, <1>6 DEF ReaderInv

\* macros/lib.rs: for any entries, in any order, with unknown and repeated keys, an attribute
\* is read back as it was written, or refused for the value that is missing.
THEOREM AttributesReadBack == AttributeSpec => []AttributeReadBack
BY AttributeInvInitially, AttributeInvIsKept, AttributeInvReadsBack, PTL DEF AttributeSpec

=============================================================================

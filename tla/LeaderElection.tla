--------------------------- MODULE LeaderElection ---------------------------
(***************************************************************************)
(* crates/coordination: the Sequencer pods compete for a Kubernetes lease. *)
(* The holder runs the leader tasks (batch producer, block producer, proof *)
(* coordinator and a health endpoint), stops them when it loses the lease  *)
(* or is told to terminate, and only then gives the lease back.            *)
(*                                                                         *)
(* A call to the API server takes effect in one step and returns in a      *)
(* later one.  The three tasks are used by the contract of TaskRuntime: an *)
(* answered shutdown() ends a task, shutdown() of a task that panicked     *)
(* fails, and dropping a handle stops the task some time later.            *)
(***************************************************************************)
EXTENDS Naturals, FiniteSets, Sequences

CONSTANTS
  Pods,
  NoPod,
  StopOrder,    \* the tasks, in the order of stop_leader_tasks: batch, block, proof
  LeaseTtl,     \* LEASE_TTL_SECONDS
  Timely,       \* a live pod renews, or stops its tasks, within the lease TTL
  MayFail,      \* a task may panic and the start of the tasks may fail
  MaxRestarts,  \* bound: how often pods are started again
  MaxSignals    \* bound: pods that were sent SIGTERM since they started

\* K8sLeaderConfig::from_env: a pod calls every fifth of the TTL, at least a second apart.
RenewEvery(ttl) == IF ttl \div 5 > 1 THEN ttl \div 5 ELSE 1

ASSUME ElectionConstants ==
  /\ LeaseTtl \in Nat
  /\ Timely \in BOOLEAN
  /\ Timely => RenewEvery(LeaseTtl) < LeaseTtl   \* a pod cannot renew later than it calls
  /\ MayFail \in BOOLEAN
  /\ MaxRestarts \in Nat /\ MaxSignals \in Nat
  /\ NoPod \notin Pods

Tasks == {StopOrder[i] : i \in DOMAIN StopOrder}

VARIABLES
  holder,     \* the lease: who holds it
  valid,      \*            and whether it was renewed within its TTL
  pc,         \* where run_with_k8s_coordination of a pod is
  reply,      \* the answer of try_acquire_or_renew until it is acted on
  amLeader,   \* am_i_leader
  epoch,      \* the spawned run_sequencer_leader_task
  cancelled,  \* its cancellation token
  up,         \* its tasks that serve requests
  dead,       \* its tasks that panicked
  orphans,    \* tasks whose handle was dropped and that have not stopped yet
  health,     \* the health endpoint
  failed,     \* history: in this process a task panicked or the start of the tasks failed
  asked,      \* the pod was sent SIGTERM
  heard,      \* a listener of wait_for_shutdown_signal noticed it
  restarts

leaseVars == <<holder, valid>>
taskVars == <<epoch, cancelled, up, dead, orphans, health, failed>>
signalVars == <<asked, heard>>
vars == <<leaseVars, pc, reply, amLeader, taskVars, signalVars, restarts>>

PcStates == {"calling", "replied", "waiting", "stopping", "releasing", "draining", "leaving", "ended"}

TypeOK ==
  /\ holder \in Pods \cup {NoPod}
  /\ valid \in BOOLEAN /\ (valid => holder # NoPod)
  /\ pc \in [Pods -> PcStates]
  /\ reply \in [Pods -> {"none", "acquired", "refused", "error"}]
  /\ amLeader \in [Pods -> BOOLEAN]
  /\ epoch \in [Pods -> {"none", "starting", "running", "done"}]
  /\ cancelled \in [Pods -> BOOLEAN]
  /\ \A p \in Pods : cancelled[p] => epoch[p] # "none"
  /\ up \in [Pods -> SUBSET Tasks]
  /\ dead \in [Pods -> SUBSET Tasks]
  /\ orphans \in [Pods -> SUBSET Tasks]
  /\ health \in [Pods -> {"off", "accepting", "answering", "lingering"}]
  /\ failed \in [Pods -> BOOLEAN]
  /\ asked \in [Pods -> BOOLEAN]
  /\ heard \in [Pods -> BOOLEAN]
  /\ restarts \in 0..MaxRestarts

Init ==
  /\ holder = NoPod
  /\ valid = FALSE
  /\ pc = [p \in Pods |-> "calling"]
  /\ reply = [p \in Pods |-> "none"]
  /\ amLeader = [p \in Pods |-> FALSE]
  /\ epoch = [p \in Pods |-> "none"]
  /\ cancelled = [p \in Pods |-> FALSE]
  /\ up = [p \in Pods |-> {}]
  /\ dead = [p \in Pods |-> {}]
  /\ orphans = [p \in Pods |-> {}]
  /\ health = [p \in Pods |-> "off"]
  /\ failed = [p \in Pods |-> FALSE]
  /\ asked = [p \in Pods |-> FALSE]
  /\ heard = [p \in Pods |-> FALSE]
  /\ restarts = 0

-----------------------------------------------------------------------------
(* The lease, kept by the API server *)

\* A lease is granted to its holder, or to anyone when it is free or expired.
MayAcquire(p) == holder \in {p, NoPod} \/ ~valid

\* try_acquire_or_renew takes effect; its answer may be lost on the way.
Acquire(p) ==
  /\ pc[p] = "calling"
  /\ pc' = [pc EXCEPT ![p] = "replied"]
  /\ IF MayAcquire(p)
     THEN /\ holder' = p
          /\ valid' = TRUE
          /\ \E r \in {"acquired", "error"} : reply' = [reply EXCEPT ![p] = r]
     ELSE /\ \E r \in {"refused", "error"} : reply' = [reply EXCEPT ![p] = r]
          /\ UNCHANGED leaseVars
  /\ UNCHANGED <<amLeader, taskVars, signalVars, restarts>>

\* The TTL passes without a renewal.
Expire ==
  /\ valid
  /\ holder # NoPod
  /\ Timely => pc[holder] = "ended"
  /\ valid' = FALSE
  /\ UNCHANGED <<holder, pc, reply, amLeader, taskVars, signalVars, restarts>>

-----------------------------------------------------------------------------
(* run_with_k8s_coordination *)

\* Leadership is new: a token is made and the leader task is spawned.
BecomeLeader(p) ==
  /\ pc[p] = "replied" /\ reply[p] = "acquired" /\ ~amLeader[p]
  /\ pc' = [pc EXCEPT ![p] = "waiting"]
  /\ amLeader' = [amLeader EXCEPT ![p] = TRUE]
  /\ reply' = [reply EXCEPT ![p] = "none"]
  /\ epoch' = [epoch EXCEPT ![p] = "starting"]
  /\ cancelled' = [cancelled EXCEPT ![p] = FALSE]
  /\ UNCHANGED <<leaseVars, up, dead, orphans, health, failed, signalVars, restarts>>

\* Nothing changed: still leader, or still follower.
StayAsIs(p) ==
  /\ pc[p] = "replied"
  /\ reply[p] = IF amLeader[p] THEN "acquired" ELSE "refused"
  /\ pc' = [pc EXCEPT ![p] = "waiting"]
  /\ reply' = [reply EXCEPT ![p] = "none"]
  /\ UNCHANGED <<leaseVars, amLeader, taskVars, signalVars, restarts>>

\* Leadership is lost: the token is cancelled and the leader task awaited.
BecomeFollower(p) ==
  /\ pc[p] = "replied" /\ reply[p] = "refused" /\ amLeader[p]
  /\ pc' = [pc EXCEPT ![p] = "stopping"]
  /\ reply' = [reply EXCEPT ![p] = "none"]
  /\ cancelled' = [cancelled EXCEPT ![p] = TRUE]
  /\ UNCHANGED <<leaseVars, amLeader, epoch, up, dead, orphans, health, failed, signalVars,
                 restarts>>

TasksJoined(p) ==
  /\ pc[p] = "stopping"
  /\ epoch[p] = "done"
  /\ pc' = [pc EXCEPT ![p] = "releasing"]
  /\ UNCHANGED <<leaseVars, reply, amLeader, taskVars, signalVars, restarts>>

\* step_down: only the holder can release the lease; an error is only logged.
StepDown(p) ==
  \/ holder = p /\ holder' = NoPod /\ valid' = FALSE
  \/ UNCHANGED leaseVars

Released(p) ==
  /\ pc[p] = "releasing"
  /\ StepDown(p)
  /\ pc' = [pc EXCEPT ![p] = "waiting"]
  /\ amLeader' = [amLeader EXCEPT ![p] = FALSE]
  /\ epoch' = [epoch EXCEPT ![p] = "none"]
  /\ cancelled' = [cancelled EXCEPT ![p] = FALSE]
  /\ UNCHANGED <<reply, up, dead, orphans, health, failed, signalVars, restarts>>

\* Mutant: a pod that was refused does not ask again.
RenewTick_LeaderOnly(p) ==
  /\ pc[p] = "waiting"
  /\ amLeader[p]
  /\ pc' = [pc EXCEPT ![p] = "calling"]
  /\ heard' = [heard EXCEPT ![p] = FALSE]
  /\ UNCHANGED <<leaseVars, reply, amLeader, taskVars, asked, restarts>>

\* A tick of the renew interval: the other branch of select!, with its signal
\* listener, is dropped.
RenewTick(p) ==
  /\ pc[p] = "waiting"
  /\ pc' = [pc EXCEPT ![p] = "calling"]
  /\ heard' = [heard EXCEPT ![p] = FALSE]
  /\ UNCHANGED <<leaseVars, reply, amLeader, taskVars, asked, restarts>>

\* Mutant: a token is cancelled without looking whether there is an epoch.
BeginShutdown_NoEpoch(p) ==
  /\ \/ pc[p] = "waiting" /\ heard[p]
     \/ pc[p] = "replied" /\ reply[p] = "error"
  /\ pc' = [pc EXCEPT ![p] = "draining"]
  /\ reply' = [reply EXCEPT ![p] = "none"]
  /\ cancelled' = [cancelled EXCEPT ![p] = TRUE]
  /\ heard' = [heard EXCEPT ![p] = FALSE]
  /\ UNCHANGED <<leaseVars, amLeader, epoch, up, dead, orphans, health, failed, asked, restarts>>

\* shutdown(): on the signal, or on an error of the election.
BeginShutdown(p) ==
  /\ \/ pc[p] = "waiting" /\ heard[p]
     \/ pc[p] = "replied" /\ reply[p] = "error"
  /\ pc' = [pc EXCEPT ![p] = "draining"]
  /\ reply' = [reply EXCEPT ![p] = "none"]
  /\ cancelled' = [cancelled EXCEPT ![p] = epoch[p] # "none"]
  /\ heard' = [heard EXCEPT ![p] = FALSE]
  /\ UNCHANGED <<leaseVars, amLeader, epoch, up, dead, orphans, health, failed, asked, restarts>>

\* Mutant: the lease is released while the tasks are still stopping.
TasksDrained_NoAwait(p) ==
  /\ pc[p] = "draining"
  /\ pc' = [pc EXCEPT ![p] = "leaving"]
  /\ UNCHANGED <<leaseVars, reply, amLeader, taskVars, signalVars, restarts>>

TasksDrained(p) ==
  /\ pc[p] = "draining"
  /\ epoch[p] \in {"none", "done"}
  /\ pc' = [pc EXCEPT ![p] = "leaving"]
  /\ UNCHANGED <<leaseVars, reply, amLeader, taskVars, signalVars, restarts>>

\* The step_down call takes effect before the process ends.
Release(p) ==
  /\ pc[p] = "leaving"
  /\ amLeader[p]
  /\ StepDown(p)
  /\ amLeader' = [amLeader EXCEPT ![p] = FALSE]
  /\ UNCHANGED <<pc, reply, taskVars, signalVars, restarts>>

\* Everything the process of p runs ends with it.
ProcessEnds(p) ==
  /\ pc' = [pc EXCEPT ![p] = "ended"]
  /\ reply' = [reply EXCEPT ![p] = "none"]
  /\ amLeader' = [amLeader EXCEPT ![p] = FALSE]
  /\ epoch' = [epoch EXCEPT ![p] = "none"]
  /\ cancelled' = [cancelled EXCEPT ![p] = FALSE]
  /\ up' = [up EXCEPT ![p] = {}]
  /\ dead' = [dead EXCEPT ![p] = {}]
  /\ orphans' = [orphans EXCEPT ![p] = {}]
  /\ health' = [health EXCEPT ![p] = "off"]
  /\ failed' = [failed EXCEPT ![p] = FALSE]
  /\ heard' = [heard EXCEPT ![p] = FALSE]
  /\ UNCHANGED <<leaseVars, asked, restarts>>

Exit(p) ==
  /\ pc[p] = "leaving"
  /\ ~amLeader[p]
  /\ ProcessEnds(p)

Crash(p) ==
  /\ pc[p] # "ended"
  /\ ProcessEnds(p)

\* The StatefulSet starts the pod again.
Restart(p) ==
  /\ pc[p] = "ended"
  /\ restarts < MaxRestarts
  /\ restarts' = restarts + 1
  /\ pc' = [pc EXCEPT ![p] = "calling"]
  /\ asked' = [asked EXCEPT ![p] = FALSE]
  /\ UNCHANGED <<leaseVars, reply, amLeader, taskVars, heard>>

\* SIGTERM: noticed only by a listener that exists when it arrives.
Sigterm(p) ==
  /\ pc[p] # "ended"
  /\ ~asked[p]
  /\ Cardinality({q \in Pods : asked[q]}) < MaxSignals
  /\ asked' = [asked EXCEPT ![p] = TRUE]
  /\ heard' = [heard EXCEPT ![p] = pc[p] = "waiting"]
  /\ UNCHANGED <<leaseVars, pc, reply, amLeader, taskVars, restarts>>

-----------------------------------------------------------------------------
(* run_sequencer_leader_task *)

StartTasks(p) ==
  /\ epoch[p] = "starting"
  /\ health[p] = "off"
  /\ epoch' = [epoch EXCEPT ![p] = "running"]
  /\ up' = [up EXCEPT ![p] = Tasks]
  /\ health' = [health EXCEPT ![p] = "accepting"]
  /\ UNCHANGED <<leaseVars, pc, reply, amLeader, cancelled, dead, orphans, failed,
                 signalVars, restarts>>

\* An error before the tasks are spawned, or at the health endpoint after it; the
\* handles are then dropped.  The error is logged and leadership kept.
StartFails(p) ==
  /\ epoch[p] = "starting"
  /\ MayFail \/ health[p] # "off"
  /\ epoch' = [epoch EXCEPT ![p] = "done"]
  /\ \E S \in {{}, Tasks} : orphans' = [orphans EXCEPT ![p] = @ \cup S]
  /\ failed' = [failed EXCEPT ![p] = TRUE]
  /\ UNCHANGED <<leaseVars, pc, reply, amLeader, cancelled, up, dead, health, signalVars, restarts>>

\* stop_leader_tasks shuts the tasks down in this order.
FirstToStop(p) ==
  LET left == {i \in DOMAIN StopOrder : StopOrder[i] \in up[p] \cup dead[p]}
  IN StopOrder[CHOOSE i \in left : \A j \in left : i <= j]

\* Mutant: the handles are dropped and the tasks not shut down.
StopTask_Dropped(p) ==
  /\ epoch[p] = "running"
  /\ cancelled[p]
  /\ up[p] \cup dead[p] # {}
  /\ FirstToStop(p) \in up[p]
  /\ orphans' = [orphans EXCEPT ![p] = @ \cup up[p]]
  /\ up' = [up EXCEPT ![p] = {}]
  /\ UNCHANGED <<leaseVars, pc, reply, amLeader, epoch, cancelled, dead, health, failed,
                 signalVars, restarts>>

StopTask(p) ==
  /\ epoch[p] = "running"
  /\ cancelled[p]
  /\ up[p] \cup dead[p] # {}
  /\ FirstToStop(p) \in up[p]
  /\ up' = [up EXCEPT ![p] = @ \ {FirstToStop(p)}]
  /\ UNCHANGED <<leaseVars, pc, reply, amLeader, epoch, cancelled, dead, orphans, health,
                 failed, signalVars, restarts>>

\* shutdown() of a task that is gone fails: stop_leader_tasks returns early, and
\* the handles of the tasks after it are dropped.
StopFails(p) ==
  /\ epoch[p] = "running"
  /\ cancelled[p]
  /\ up[p] \cup dead[p] # {}
  /\ FirstToStop(p) \in dead[p]
  /\ epoch' = [epoch EXCEPT ![p] = "done"]
  /\ orphans' = [orphans EXCEPT ![p] = @ \cup up[p]]
  /\ up' = [up EXCEPT ![p] = {}]
  /\ dead' = [dead EXCEPT ![p] = {}]
  /\ health' = [health EXCEPT ![p] = IF @ = "answering" THEN "lingering" ELSE "off"]
  /\ UNCHANGED <<leaseVars, pc, reply, amLeader, cancelled, failed, signalVars, restarts>>

\* The tasks and the health endpoint have stopped.
StopDone(p) ==
  /\ epoch[p] = "running"
  /\ cancelled[p]
  /\ up[p] \cup dead[p] = {}
  /\ health[p] = "off"
  /\ epoch' = [epoch EXCEPT ![p] = "done"]
  /\ UNCHANGED <<leaseVars, pc, reply, amLeader, cancelled, up, dead, orphans, health,
                 failed, signalVars, restarts>>

TaskPanics(p) ==
  /\ MayFail
  /\ \E t \in up[p] : /\ up' = [up EXCEPT ![p] = @ \ {t}]
                      /\ dead' = [dead EXCEPT ![p] = @ \cup {t}]
  /\ failed' = [failed EXCEPT ![p] = TRUE]
  /\ UNCHANGED <<leaseVars, pc, reply, amLeader, epoch, cancelled, orphans, health,
                 signalVars, restarts>>

\* The task that Drop spawned shuts an orphan down.
OrphanStops(p) ==
  /\ \E t \in orphans[p] : orphans' = [orphans EXCEPT ![p] = @ \ {t}]
  /\ UNCHANGED <<leaseVars, pc, reply, amLeader, epoch, cancelled, up, dead, health,
                 failed, signalVars, restarts>>

\* The health endpoint serves one connection at a time, looks at the token only
\* between connections, and ends on an I/O error.
HealthStep(p) ==
  /\ \/ health[p] = "accepting" /\ ~cancelled[p]
        /\ health' = [health EXCEPT ![p] = "answering"]
     \/ health[p] = "accepting" /\ cancelled[p]
        /\ \E h \in {"answering", "off"} : health' = [health EXCEPT ![p] = h]
     \/ health[p] = "answering"
        /\ \E h \in {"accepting", "off"} : health' = [health EXCEPT ![p] = h]
     \/ health[p] = "lingering" /\ health' = [health EXCEPT ![p] = "off"]
  /\ UNCHANGED <<leaseVars, pc, reply, amLeader, epoch, cancelled, up, dead, orphans,
                 failed, signalVars, restarts>>

-----------------------------------------------------------------------------
Coordinate(p) ==
  \/ Acquire(p) \/ BecomeLeader(p) \/ StayAsIs(p) \/ BecomeFollower(p) \/ TasksJoined(p)
  \/ Released(p) \/ RenewTick(p) \/ BeginShutdown(p) \/ TasksDrained(p) \/ Release(p) \/ Exit(p)

LeaderTask(p) ==
  StartTasks(p) \/ StartFails(p) \/ StopTask(p) \/ StopFails(p) \/ StopDone(p)

\* No pod is left and none is started again.
Over == (\A p \in Pods : pc[p] = "ended") /\ UNCHANGED vars

Next ==
  \/ \E p \in Pods : Coordinate(p) \/ LeaderTask(p) \/ OrphanStops(p) \/ HealthStep(p)
  \/ \E p \in Pods : TaskPanics(p) \/ Crash(p) \/ Restart(p) \/ Sigterm(p)
  \/ Expire
  \/ Over

Spec == Init /\ [][Next]_vars

(***************************************************************************)
(* A live pod is scheduled, the API server answers and clients of the      *)
(* health endpoint finish their requests; a lease that nobody renews       *)
(* expires.  Panics, crashes, restarts and signals are never obliged.      *)
(***************************************************************************)
HealthQuiet(p) == health[p] # "accepting" /\ HealthStep(p)

HealthStops(p) == cancelled[p] /\ HealthStep(p) /\ health'[p] = "off"

Fairness ==
  /\ \A p \in Pods : /\ WF_vars(Coordinate(p))
                     /\ WF_vars(LeaderTask(p))
                     /\ WF_vars(HealthQuiet(p))
                     /\ SF_vars(HealthStops(p))
  /\ WF_vars(Expire)

FairSpec == Spec /\ Fairness

-----------------------------------------------------------------------------
(* Properties *)

\* The tasks that run in the process of p.
Alive(p) == up[p] \cup orphans[p]

\* "At any moment, only one pod is the leader and runs the leader tasks".
ExclusiveProducers ==
  \A p, q \in Pods : p # q => Alive(p) = {} \/ Alive(q) = {}

\* A pod that does not regard itself as leader has no running epoch, in particular
\* after it lost the lease and became leader again or shut down.  A task outlives its
\* epoch, to run in a follower or beside the tasks of the next epoch, only in a process
\* where a task panicked or the start of the tasks failed: both drop live handles.
FollowerServesNothing ==
  \A p \in Pods :
    /\ ~amLeader[p] => up[p] = {} /\ epoch[p] \in {"none", "done"}
    /\ ~amLeader[p] /\ ~failed[p] => Alive(p) = {}
    /\ up[p] # {} /\ orphans[p] # {} => failed[p]

\* The lease is given back only by a pod whose tasks have stopped, so that the next
\* holder starts its own on a quiet system.
ReleasedAfterStop ==
  [][\A p \in Pods : holder = p /\ holder' = NoPod => Alive(p) = {}]_vars

\* As long as some pod stays up, there is a leader again and again: a lease that was
\* not given back, by a crash or a failed step_down, does not block the election.
LeaderAgain ==
  \A p \in Pods : <>[](pc[p] # "ended") => []<>(\E q \in Pods : amLeader[q])

\* "This function returns when the pod is shutting down or on error."
ReturnsOnShutdown ==
  \A p \in Pods : asked[p] ~> pc[p] = "ended"

=============================================================================

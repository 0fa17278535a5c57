----------------------------- MODULE TaskRuntime -----------------------------
(***************************************************************************)
(* The actor framework of crates/task: one TaskRunner owns a Task and      *)
(* serves requests and shutdown requests that clones of a TaskHandle send  *)
(* over two bounded mpsc channels, each answered over a oneshot channel.   *)
(* Every producer of the sequencer runs on it.                             *)
(*                                                                         *)
(* The clients of the channels are the owners of a handle (Callers), the   *)
(* periodic loop of spawn_with_capacity_periodic (Ticker) and the task     *)
(* that the Drop of the last handle spawns (Dropper).  A client awaits its *)
(* answer, so it has at most one message in flight and a message is named  *)
(* by its client.                                                          *)
(***************************************************************************)
EXTENDS Naturals, Sequences, Functions

CONSTANTS
  Callers,    \* the owners of a clone of the handle
  Ticker,     \* the loop that submits a request every period
  Dropper,    \* the task spawned by Drop for TaskHandleInner
  NoOne,
  Capacity,   \* the capacity of each of the two channels
  Periodic    \* spawn_periodic (TRUE) or spawn (FALSE)

Owners == Callers \cup {Ticker, Dropper}

ASSUME TaskConstants ==
  /\ Capacity \in Nat \ {0}
  /\ Periodic \in BOOLEAN
  /\ Ticker # Dropper
  /\ Callers \cap {Ticker, Dropper} = {}
  /\ NoOne \notin Owners

VARIABLES
  runner,     \* where TaskRunner::listen is; "gone" once its receivers are dropped
  current,    \* the client whose message the runner is working on
  requests,   \* the request channel
  shutdowns,  \* the shutdown channel
  op,         \* what each client is doing
  outcome,    \* the result of the last call of each client
  runs,       \* how often handle_request ran for the last call of each client
  panicked    \* handle_request or on_shutdown panicked

vars == <<runner, current, requests, shutdowns, op, outcome, runs, panicked>>

RunnerStates == {"starting", "listening", "handling", "stopping", "returned", "gone"}
OpStates == {"idle", "sendRequest", "awaitResponse", "sendShutdown", "awaitShutdown", "stopped"}
Answered == {"response", "taskError"}             \* answers of handle_request
ShutDown == {"down", "downError"}                 \* answers of on_shutdown
Outcomes == {"none", "sendError", "recvError"} \cup Answered \cup ShutDown

TypeOK ==
  /\ runner \in RunnerStates
  /\ current \in Owners \cup {NoOne}
  /\ requests \in Seq(Owners) /\ Len(requests) <= Capacity
  /\ shutdowns \in Seq(Owners) /\ Len(shutdowns) <= Capacity
  /\ op \in [Owners -> OpStates]
  /\ outcome \in [Owners -> Outcomes]
  /\ runs \in [Owners -> Nat]
  /\ panicked \in BOOLEAN

-----------------------------------------------------------------------------
Init ==
  /\ runner = "starting"
  /\ current = NoOne
  /\ requests = <<>>
  /\ shutdowns = <<>>
  /\ op = [o \in Owners |-> IF o = Ticker /\ ~Periodic THEN "stopped" ELSE "idle"]
  /\ outcome = [o \in Owners |-> "none"]
  /\ runs = [o \in Owners |-> 0]
  /\ panicked = FALSE

(***************************************************************************)
(* What a client does next.  A caller returns from its call.  The periodic *)
(* loop ignores the answer and waits for its next tick, and ends when the  *)
(* channel is closed.  The task of Drop ends in both cases.                *)
(***************************************************************************)
AfterAnswer(o) == IF o = Dropper THEN "stopped" ELSE "idle"

\* Mutant: the periodic loop does not look at the result of send.
AfterSendError_Retry(o) == IF o = Dropper THEN "stopped" ELSE "idle"

AfterSendError(o) == IF o \in Callers THEN "idle" ELSE "stopped"

-----------------------------------------------------------------------------
(* Clients *)

BeginRequest(o) ==
  /\ o # Dropper
  /\ op[o] = "idle"
  /\ op' = [op EXCEPT ![o] = "sendRequest"]
  /\ outcome' = [outcome EXCEPT ![o] = "none"]
  /\ runs' = [runs EXCEPT ![o] = 0]
  /\ UNCHANGED <<runner, current, requests, shutdowns, panicked>>

\* Mutant: the channel is unbounded.
SendRequest_Unbounded(o) ==
  /\ op[o] = "sendRequest"
  /\ runner # "gone"
  /\ requests' = Append(requests, o)
  /\ op' = [op EXCEPT ![o] = "awaitResponse"]
  /\ UNCHANGED <<runner, current, shutdowns, outcome, runs, panicked>>

\* mpsc::Sender::send completes once the channel has room for the message.
SendRequest(o) ==
  /\ op[o] = "sendRequest"
  /\ runner # "gone"
  /\ Len(requests) < Capacity
  /\ requests' = Append(requests, o)
  /\ op' = [op EXCEPT ![o] = "awaitResponse"]
  /\ UNCHANGED <<runner, current, shutdowns, outcome, runs, panicked>>

BeginShutdown(c) ==
  /\ op[c] = "idle"
  /\ op' = [op EXCEPT ![c] = "sendShutdown"]
  /\ outcome' = [outcome EXCEPT ![c] = "none"]
  /\ runs' = [runs EXCEPT ![c] = 0]
  /\ UNCHANGED <<runner, current, requests, shutdowns, panicked>>

SendShutdown(o) ==
  /\ op[o] = "sendShutdown"
  /\ runner # "gone"
  /\ Len(shutdowns) < Capacity
  /\ shutdowns' = Append(shutdowns, o)
  /\ op' = [op EXCEPT ![o] = "awaitShutdown"]
  /\ UNCHANGED <<runner, current, requests, outcome, runs, panicked>>

\* The channel is closed: send fails, also for a client that waits for room.
SendFails(o) ==
  /\ op[o] \in {"sendRequest", "sendShutdown"}
  /\ runner = "gone"
  /\ op' = [op EXCEPT ![o] = AfterSendError(o)]
  /\ outcome' = [outcome EXCEPT ![o] = "sendError"]
  /\ UNCHANGED <<runner, current, requests, shutdowns, runs, panicked>>

\* The last clone to go runs Drop for TaskHandleInner.
DropHandle(c) ==
  /\ op[c] = "idle"
  /\ op' = [op EXCEPT ![c] = "stopped",
                      ![Dropper] = IF \A d \in Callers \ {c} : op[d] = "stopped"
                                   THEN "sendShutdown" ELSE @]
  /\ UNCHANGED <<runner, current, requests, shutdowns, outcome, runs, panicked>>

-----------------------------------------------------------------------------
(* TaskRunner::listen *)

\* An error of on_start is logged and the loop starts all the same.
OnStart ==
  /\ runner = "starting"
  /\ runner' = "listening"
  /\ UNCHANGED <<current, requests, shutdowns, op, outcome, runs, panicked>>

TakeRequest ==
  /\ runner = "listening"
  /\ requests # <<>>
  /\ runner' = "handling"
  /\ current' = Head(requests)
  /\ requests' = Tail(requests)
  /\ runs' = [runs EXCEPT ![Head(requests)] = @ + 1]
  /\ UNCHANGED <<shutdowns, op, outcome, panicked>>

\* The current client gets the answer a and resumes.
AnswerCurrent(a) ==
  /\ op' = [op EXCEPT ![current] = AfterAnswer(current)]
  /\ outcome' = [outcome EXCEPT ![current] = a]
  /\ current' = NoOne

\* Mutant: the runner repeats a request that failed.
FinishRequest_Repeats ==
  /\ runner = "handling"
  /\ \/ runner' = "listening" /\ AnswerCurrent("response") /\ UNCHANGED runs
     \/ runs' = [runs EXCEPT ![current] = @ + 1] /\ UNCHANGED <<runner, op, outcome, current>>
  /\ UNCHANGED <<requests, shutdowns, panicked>>

FinishRequest ==
  /\ runner = "handling"
  /\ runner' = "listening"
  /\ \E a \in Answered : AnswerCurrent(a)
  /\ UNCHANGED <<requests, shutdowns, runs, panicked>>

TakeShutdown ==
  /\ runner = "listening"
  /\ shutdowns # <<>>
  /\ runner' = "stopping"
  /\ current' = Head(shutdowns)
  /\ shutdowns' = Tail(shutdowns)
  /\ UNCHANGED <<requests, op, outcome, runs, panicked>>

\* Mutant: the loop goes on after on_shutdown.
FinishShutdown_NoReturn ==
  /\ runner = "stopping"
  /\ runner' = "listening"
  /\ \E a \in ShutDown : AnswerCurrent(a)
  /\ UNCHANGED <<requests, shutdowns, runs, panicked>>

\* The answer is sent before listen returns, hence before the receivers are dropped.
FinishShutdown ==
  /\ runner = "stopping"
  /\ runner' = "returned"
  /\ \E a \in ShutDown : AnswerCurrent(a)
  /\ UNCHANGED <<requests, shutdowns, runs, panicked>>

\* Dropping the receivers drops the messages in them: the oneshot senders of
\* the clients in S are gone, and those clients see a receive error.
Abandon(S) ==
  /\ op' = [o \in Owners |-> IF o \in S THEN AfterAnswer(o) ELSE op[o]]
  /\ outcome' = [o \in Owners |-> IF o \in S THEN "recvError" ELSE outcome[o]]
  /\ requests' = <<>>
  /\ shutdowns' = <<>>
  /\ runner' = "gone"
  /\ current' = NoOne

\* Mutant: the queued requests are forgotten and their clients never woken.
DropRunner_Forgets ==
  /\ runner = "returned"
  /\ Abandon(Range(shutdowns))
  /\ UNCHANGED <<runs, panicked>>

DropRunner ==
  /\ runner = "returned"
  /\ Abandon(Range(requests) \cup Range(shutdowns))
  /\ UNCHANGED <<runs, panicked>>

\* A panic of the handler unwinds the spawned runner.
Panic ==
  /\ runner \in {"handling", "stopping"}
  /\ Abandon(Range(requests) \cup Range(shutdowns) \cup {current})
  /\ panicked' = TRUE
  /\ UNCHANGED runs

-----------------------------------------------------------------------------
\* Nothing is left to do: the handle, the periodic loop and the runner are gone.
Terminated ==
  /\ runner = "gone"
  /\ \A o \in Owners : op[o] = "stopped"
  /\ UNCHANGED vars

Next ==
  \/ \E c \in Callers : BeginShutdown(c) \/ DropHandle(c)
  \/ \E o \in Owners : BeginRequest(o) \/ SendRequest(o) \/ SendShutdown(o) \/ SendFails(o)
  \/ OnStart
  \/ TakeRequest
  \/ FinishRequest
  \/ TakeShutdown
  \/ FinishShutdown
  \/ DropRunner
  \/ Panic
  \/ Terminated

Spec == Init /\ [][Next]_vars

(***************************************************************************)
(* The runner and the spawned tasks are scheduled by tokio and handlers    *)
(* terminate: weak fairness.  select! picks a ready branch at random, so a *)
(* shutdown that is ready again and again is taken; the semaphore of a     *)
(* channel serves its waiters in turn: strong fairness.  Nothing obliges a *)
(* caller to call or to drop its handle.                                   *)
(***************************************************************************)
Fairness ==
  /\ WF_vars(OnStart)
  /\ WF_vars(TakeRequest)
  /\ WF_vars(FinishRequest)
  /\ SF_vars(TakeShutdown)
  /\ WF_vars(FinishShutdown)
  /\ WF_vars(DropRunner)
  /\ WF_vars(BeginRequest(Ticker))
  /\ \A o \in Owners : SF_vars(SendRequest(o)) /\ SF_vars(SendShutdown(o)) /\ WF_vars(SendFails(o))

FairSpec == Spec /\ Fairness

-----------------------------------------------------------------------------
(* Properties *)

\* The clients with a message in the request channel or in the hands of the
\* runner, and the same for the shutdown channel.
InRequest == Range(requests) \cup (IF runner = "handling" THEN {current} ELSE {})
InShutdown == Range(shutdowns) \cup (IF runner = "stopping" THEN {current} ELSE {})

\* Error::Send and Error::Receive mean that the task never saw the request, so
\* that a caller may repeat it; only a panic of the handler breaks this.  An
\* answer of the task means that the request ran, and no request ever runs twice.
RunsAtMostOnce ==
  \A o \in Owners :
    /\ runs[o] <= 1
    /\ outcome[o] \in Answered => runs[o] = 1
    /\ outcome[o] \in {"sendError", "recvError"} => runs[o] = 0 \/ panicked

\* The two channels together hold exactly the messages that are waited for: no
\* client awaits an answer that nobody is going to send.
NobodyForgotten ==
  /\ {o \in Owners : op[o] = "awaitResponse"} = InRequest
  /\ {o \in Owners : op[o] = "awaitShutdown"} = InShutdown

\* Once a caller's shutdown() was answered, the task handles no further request,
\* whatever was queued before.
NoWorkAfterShutdown ==
  [][(\E o \in Owners : outcome[o] \in ShutDown) => \A o \in Owners : runs'[o] <= runs[o]]_vars

\* request() and shutdown() return, whatever the other clients do.
EveryCallReturns ==
  \A o \in Owners :
    op[o] \notin {"idle", "stopped"} ~> op[o] \in {"idle", "stopped"}

\* "The loop stops automatically when the task shuts down or the handle is
\* dropped" (the periodic loop of spawn_with_capacity_periodic).
PeriodicLoopStops ==
  (runner = "gone" \/ op[Dropper] = "sendShutdown") ~> op[Ticker] = "stopped"

=============================================================================

---------------------------- MODULE ToolkitProofs ----------------------------
(***************************************************************************)
(* Proofs about two tools that the other parts are written with, each from *)
(* its own specification:                                                  *)
(*                                                                         *)
(*  - the task framework, for any set of callers and any channel capacity; *)
(*  - the builder of inscriptions, for any number of concurrent calls, any *)
(*    wallet, payloads and size of a push: the coins that the commit       *)
(*    transactions spend, and what the reveal transactions carry and pay.  *)
(***************************************************************************)
EXTENDS TaskRuntime, InscriptionBuilder, Integers,
        WellFoundedInduction, TLAPS

-----------------------------------------------------------------------------
(* The channels as sets of clients *)

\* A message that is sent adds its client to a channel, once.
LEMMA AppendToChannel ==
  ASSUME NEW S, NEW s \in Seq(S), NEW e \in S
  PROVE  /\ Append(s, e) \in Seq(S)
         /\ Len(s) \in Nat /\ Len(Append(s, e)) = Len(s) + 1
         /\ Range(Append(s, e)) = Range(s) \cup {e}
         /\ e \notin Range(s) /\ IsInjective(s) => IsInjective(Append(s, e))
<1>1. /\ Len(s) \in Nat /\ DOMAIN s = 1..Len(s)
      /\ Append(s, e) \in Seq(S)
      /\ Len(Append(s, e)) = Len(s) + 1
      /\ DOMAIN Append(s, e) = 1..(Len(s) + 1)
      /\ \A i \in 1..Len(s) : Append(s, e)[i] = s[i]
      /\ Append(s, e)[Len(s) + 1] = e
  OBVIOUS
<1>2. Range(Append(s, e)) = Range(s) \cup {e}
  BY <1>1 DEF Range
<1>3. e \notin Range(s) /\ IsInjective(s) => IsInjective(Append(s, e))
  BY <1>1 DEF Range, IsInjective
<1> QED  BY <1>1, <1>2, <1>3

\* A message that is received takes its client out of a channel without duplicates.
LEMMA TakeFromChannel ==
  ASSUME NEW S, NEW s \in Seq(S), s # <<>>
  PROVE  /\ Head(s) \in S /\ Head(s) \in Range(s)
         /\ Tail(s) \in Seq(S)
         /\ Len(s) \in Nat /\ Len(Tail(s)) = Len(s) - 1
         /\ Range(s) = Range(Tail(s)) \cup {Head(s)}
         /\ IsInjective(s) => IsInjective(Tail(s)) /\ Head(s) \notin Range(Tail(s))
<1>1. /\ Len(s) \in Nat \ {0} /\ DOMAIN s = 1..Len(s)
      /\ Head(s) \in S /\ Head(s) = s[1]
      /\ Tail(s) \in Seq(S)
      /\ Len(Tail(s)) = Len(s) - 1
      /\ DOMAIN Tail(s) = 1..(Len(s) - 1)
      /\ \A i \in 1..(Len(s) - 1) : Tail(s)[i] = s[i + 1]
  OBVIOUS
<1>2. Head(s) \in Range(s)
  BY <1>1 DEF Range
<1>3. Range(s) = Range(Tail(s)) \cup {Head(s)}
  <2>1. \A i \in DOMAIN s : i = 1 \/ (i - 1 \in DOMAIN Tail(s) /\ Tail(s)[i - 1] = s[i])
    BY <1>1
  <2>2. \A i \in DOMAIN Tail(s) : i + 1 \in DOMAIN s /\ Tail(s)[i] = s[i + 1]
    BY <1>1
  <2>3. Range(s) \subseteq Range(Tail(s)) \cup {Head(s)}
    <3> SUFFICES ASSUME NEW i \in DOMAIN s
                 PROVE  s[i] \in Range(Tail(s)) \cup {Head(s)}
      BY DEF Range
    <3>1. CASE i = 1
      BY <1>1, <3>1
    <3>2. CASE i # 1
      BY <1>1, <2>1, <3>2, Zenon DEF Range
    <3> QED  BY <3>1, <3>2
  <2>4. Range(Tail(s)) \cup {Head(s)} \subseteq Range(s)
    BY <1>1, <2>2 DEF Range
  <2> QED  BY <2>3, <2>4
<1>4. IsInjective(s) => IsInjective(Tail(s)) /\ Head(s) \notin Range(Tail(s))
  BY <1>1 DEF Range, IsInjective
<1> QED  BY <1>1, <1>2, <1>3, <1>4

\* A channel whose receiver is dropped holds no client.
LEMMA EmptyChannel ==
  Range(<<>>) = {} /\ IsInjective(<<>>)
BY DEF Range, IsInjective

-----------------------------------------------------------------------------
(***************************************************************************)
(* The inductive invariant.  The properties of the runs are not inductive: *)
(* that a queued request has not run yet, that a client is queued once and *)
(* that the task of Drop starts only when every caller is gone are what    *)
(* keeps them true.                                                        *)
(***************************************************************************)

\* The runner works on a message of a client exactly in these two states.
Working ==
  /\ runner \in {"handling", "stopping"} <=> current \in Owners
  /\ runner = "handling" => current \notin Range(requests)
  /\ runner = "stopping" => current \notin Range(shutdowns)

\* A client is in a channel at most once.
QueuedOnce == IsInjective(requests) /\ IsInjective(shutdowns)

\* No outcome is known, and no request has run, before the runner takes the message.
Pending ==
  \A o \in Owners :
    op[o] \notin {"idle", "stopped"} =>
      /\ outcome[o] = "none"
      /\ runs[o] = IF runner = "handling" /\ current = o THEN 1 ELSE 0

\* The task of Drop does not exist as long as a caller has its handle.
DropperLast ==
  (\E c \in Callers : op[c] # "stopped") =>
    op[Dropper] = "idle" /\ outcome[Dropper] = "none" /\ runs[Dropper] = 0

\* An answered shutdown is the end of the loop.
AnsweredIsFinal ==
  /\ (\E o \in Owners : outcome[o] \in ShutDown) => runner \in {"returned", "gone"}
  /\ runner = "gone" => requests = <<>> /\ shutdowns = <<>>

IInv ==
  /\ TypeOK
  /\ Working
  /\ QueuedOnce
  /\ NobodyForgotten
  /\ Pending
  /\ DropperLast
  /\ AnsweredIsFinal
  /\ RunsAtMostOnce

\* A client that begins a call to request().
LEMMA BeginRequestStep ==
  ASSUME NEW o \in Owners, IInv, BeginRequest(o)
  PROVE  IInv'
<1> USE TaskConstants DEF IInv, Owners, TypeOK
<1>1. TypeOK'
  BY DEF BeginRequest, RunnerStates, OpStates, Outcomes, Answered, ShutDown
<1>2. Working'
  BY DEF BeginRequest, Working, NobodyForgotten, InRequest, InShutdown
<1>3. QueuedOnce'
  BY DEF BeginRequest, QueuedOnce
<1>4. NobodyForgotten'
  BY DEF BeginRequest, NobodyForgotten, InRequest, InShutdown, Working
<1>5. Pending'
  BY DEF BeginRequest, Pending, Working, NobodyForgotten, InRequest, InShutdown
<1>6. DropperLast'
  BY DEF BeginRequest, DropperLast, Pending
<1>7. AnsweredIsFinal'
  BY DEF BeginRequest, AnsweredIsFinal, Answered, ShutDown
<1>8. RunsAtMostOnce'
  BY DEF BeginRequest, RunsAtMostOnce, Pending, Answered, ShutDown, Working
<1> QED  BY <1>1, <1>2, <1>3, <1>4, <1>5, <1>6, <1>7, <1>8

\* A request enters the channel.
LEMMA SendRequestStep ==
  ASSUME NEW o \in Owners, IInv, SendRequest(o)
  PROVE  IInv'
<1> USE TaskConstants DEF IInv, Owners, TypeOK
<1>a. /\ requests' \in Seq(Owners) /\ Len(requests') <= Capacity /\ o \notin Range(requests)
      /\ Range(requests') = Range(requests) \cup {o}
      /\ IsInjective(requests) => IsInjective(requests')
  BY AppendToChannel DEF SendRequest, NobodyForgotten, InRequest
<1>1. TypeOK'
  BY <1>a DEF SendRequest, RunnerStates, OpStates, Outcomes, Answered, ShutDown
<1>2. Working'
  BY <1>a DEF SendRequest, Working, NobodyForgotten, InRequest, InShutdown
<1>3. QueuedOnce'
  BY <1>a DEF SendRequest, QueuedOnce
<1>4. NobodyForgotten'
  BY <1>a DEF SendRequest, NobodyForgotten, InRequest, InShutdown, Working
<1>5. Pending'
  BY <1>a DEF SendRequest, Pending, Working, NobodyForgotten, InRequest, InShutdown
<1>6. DropperLast'
  BY <1>a DEF SendRequest, DropperLast, Pending
<1>7. AnsweredIsFinal'
  BY <1>a DEF SendRequest, AnsweredIsFinal, Answered, ShutDown
<1>8. RunsAtMostOnce'
  BY <1>a DEF SendRequest, RunsAtMostOnce, Pending, Answered, ShutDown, Working
<1> QED  BY <1>1, <1>2, <1>3, <1>4, <1>5, <1>6, <1>7, <1>8

\* A caller that begins a call to shutdown().
LEMMA BeginShutdownStep ==
  ASSUME NEW c \in Callers, IInv, BeginShutdown(c)
  PROVE  IInv'
<1> USE TaskConstants DEF IInv, Owners, TypeOK
<1>1. TypeOK'
  BY DEF BeginShutdown, RunnerStates, OpStates, Outcomes, Answered, ShutDown
<1>2. Working'
  BY DEF BeginShutdown, Working, NobodyForgotten, InRequest, InShutdown
<1>3. QueuedOnce'
  BY DEF BeginShutdown, QueuedOnce
<1>4. NobodyForgotten'
  BY DEF BeginShutdown, NobodyForgotten, InRequest, InShutdown, Working
<1>5. Pending'
  BY DEF BeginShutdown, Pending, Working, NobodyForgotten, InRequest, InShutdown
<1>6. DropperLast'
  BY DEF BeginShutdown, DropperLast, Pending
<1>7. AnsweredIsFinal'
  BY DEF BeginShutdown, AnsweredIsFinal, Answered, ShutDown
<1>8. RunsAtMostOnce'
  BY DEF BeginShutdown, RunsAtMostOnce, Pending, Answered, ShutDown, Working
<1> QED  BY <1>1, <1>2, <1>3, <1>4, <1>5, <1>6, <1>7, <1>8

\* A shutdown message enters the channel.
LEMMA SendShutdownStep ==
  ASSUME NEW o \in Owners, IInv, SendShutdown(o)
  PROVE  IInv'
<1> USE TaskConstants DEF IInv, Owners, TypeOK
<1>a. /\ shutdowns' \in Seq(Owners) /\ Len(shutdowns') <= Capacity /\ o \notin Range(shutdowns)
      /\ Range(shutdowns') = Range(shutdowns) \cup {o}
      /\ IsInjective(shutdowns) => IsInjective(shutdowns')
  BY AppendToChannel DEF SendShutdown, NobodyForgotten, InShutdown
<1>1. TypeOK'
  BY <1>a DEF SendShutdown, RunnerStates, OpStates, Outcomes, Answered, ShutDown
<1>2. Working'
  BY <1>a DEF SendShutdown, Working, NobodyForgotten, InRequest, InShutdown
<1>3. QueuedOnce'
  BY <1>a DEF SendShutdown, QueuedOnce
<1>4. NobodyForgotten'
  BY <1>a DEF SendShutdown, NobodyForgotten, InRequest, InShutdown, Working
<1>5. Pending'
  BY <1>a, SMTT(30) DEF SendShutdown, Pending, Working, NobodyForgotten, InRequest, InShutdown
<1>6. DropperLast'
  BY <1>a DEF SendShutdown, DropperLast, Pending
<1>7. AnsweredIsFinal'
  BY <1>a DEF SendShutdown, AnsweredIsFinal, Answered, ShutDown
<1>8. RunsAtMostOnce'
  BY <1>a DEF SendShutdown, RunsAtMostOnce, Pending, Answered, ShutDown, Working
<1> QED  BY <1>1, <1>2, <1>3, <1>4, <1>5, <1>6, <1>7, <1>8

\* A send to a task that is gone.
LEMMA SendFailsStep ==
  ASSUME NEW o \in Owners, IInv, SendFails(o)
  PROVE  IInv'
<1> USE TaskConstants DEF IInv, Owners, TypeOK
<1>1. TypeOK'
  BY DEF SendFails, AfterSendError, RunnerStates, OpStates, Outcomes, Answered, ShutDown
<1>2. Working'
  BY DEF SendFails, AfterSendError, Working, NobodyForgotten, InRequest, InShutdown
<1>3. QueuedOnce'
  BY DEF SendFails, AfterSendError, QueuedOnce
<1>4. NobodyForgotten'
  BY DEF SendFails, AfterSendError, NobodyForgotten, InRequest, InShutdown, Working
<1>5. Pending'
  BY DEF SendFails, AfterSendError, Pending, Working, NobodyForgotten, InRequest, InShutdown
<1>6. DropperLast'
  BY DEF SendFails, AfterSendError, DropperLast, Pending
<1>7. AnsweredIsFinal'
  BY DEF SendFails, AfterSendError, AnsweredIsFinal, Answered, ShutDown
<1>8. RunsAtMostOnce'
  BY DEF SendFails, AfterSendError, RunsAtMostOnce, Pending, Answered, ShutDown, Working
<1> QED  BY <1>1, <1>2, <1>3, <1>4, <1>5, <1>6, <1>7, <1>8

\* A caller that drops its handle.
LEMMA DropHandleStep ==
  ASSUME NEW c \in Callers, IInv, DropHandle(c)
  PROVE  IInv'
<1> USE TaskConstants DEF IInv, Owners, TypeOK
<1>a. op[Dropper] = "idle" /\ outcome[Dropper] = "none" /\ runs[Dropper] = 0
  BY DEF DropHandle, DropperLast
<1>1. TypeOK'
  BY <1>a, SMTT(30) DEF DropHandle, RunnerStates, OpStates, Outcomes, Answered, ShutDown
<1>2. Working'
  BY <1>a DEF DropHandle, Working, NobodyForgotten, InRequest, InShutdown
<1>3. QueuedOnce'
  BY <1>a DEF DropHandle, QueuedOnce
<1>4. NobodyForgotten'
  BY <1>a DEF DropHandle, NobodyForgotten, InRequest, InShutdown, Working
<1>5. Pending'
  BY <1>a DEF DropHandle, Pending, Working, NobodyForgotten, InRequest, InShutdown
<1>6. DropperLast'
  BY <1>a DEF DropHandle, DropperLast, Pending
<1>7. AnsweredIsFinal'
  BY <1>a DEF DropHandle, AnsweredIsFinal, Answered, ShutDown
<1>8. RunsAtMostOnce'
  BY <1>a DEF DropHandle, RunsAtMostOnce, Pending, Answered, ShutDown, Working
<1> QED  BY <1>1, <1>2, <1>3, <1>4, <1>5, <1>6, <1>7, <1>8

\* The start of the runner.
LEMMA OnStartStep ==
  ASSUME IInv, OnStart
  PROVE  IInv'
<1> USE TaskConstants DEF IInv, Owners, TypeOK
<1>1. TypeOK'
  BY DEF OnStart, RunnerStates, OpStates, Outcomes, Answered, ShutDown
<1>2. Working'
  BY DEF OnStart, Working, NobodyForgotten, InRequest, InShutdown
<1>3. QueuedOnce'
  BY DEF OnStart, QueuedOnce
<1>4. NobodyForgotten'
  BY DEF OnStart, NobodyForgotten, InRequest, InShutdown, Working
<1>5. Pending'
  BY DEF OnStart, Pending, Working, NobodyForgotten, InRequest, InShutdown
<1>6. DropperLast'
  BY DEF OnStart, DropperLast, Pending
<1>7. AnsweredIsFinal'
  BY DEF OnStart, AnsweredIsFinal, Answered, ShutDown
<1>8. RunsAtMostOnce'
  BY DEF OnStart, RunsAtMostOnce, Pending, Answered, ShutDown, Working
<1> QED  BY <1>1, <1>2, <1>3, <1>4, <1>5, <1>6, <1>7, <1>8

\* The runner receives a request.
LEMMA TakeRequestStep ==
  ASSUME IInv, TakeRequest
  PROVE  IInv'
<1> USE TaskConstants DEF IInv, Owners, TypeOK
<1>a. /\ Head(requests) \in Owners /\ requests' \in Seq(Owners) /\ Len(requests') <= Capacity
      /\ op[Head(requests)] = "awaitResponse"
      /\ Range(requests) = Range(requests') \cup {Head(requests)}
      /\ IsInjective(requests') /\ Head(requests) \notin Range(requests')
  BY TakeFromChannel DEF TakeRequest, QueuedOnce, NobodyForgotten, InRequest
<1>b. runs[Head(requests)] = 0 /\ outcome[Head(requests)] = "none"
  BY <1>a DEF TakeRequest, Pending
<1>1. TypeOK'
  BY <1>a DEF TakeRequest, RunnerStates, OpStates, Outcomes, Answered, ShutDown
<1>2. Working'
  BY <1>a DEF TakeRequest, Working, NobodyForgotten, InRequest, InShutdown
<1>3. QueuedOnce'
  BY <1>a DEF TakeRequest, QueuedOnce
<1>4. NobodyForgotten'
  BY <1>a DEF TakeRequest, NobodyForgotten, InRequest, InShutdown, Working
<1>5. Pending'
  BY <1>a DEF TakeRequest, Pending, Working, NobodyForgotten, InRequest, InShutdown
<1>6. DropperLast'
  BY <1>a DEF TakeRequest, DropperLast, Pending
<1>7. AnsweredIsFinal'
  BY <1>a DEF TakeRequest, AnsweredIsFinal, Answered, ShutDown
<1>8. RunsAtMostOnce'
  BY <1>a, <1>b DEF TakeRequest, RunsAtMostOnce, Pending, Answered, ShutDown, Working
<1> QED  BY <1>1, <1>2, <1>3, <1>4, <1>5, <1>6, <1>7, <1>8

\* The runner answers a request.
LEMMA FinishRequestStep ==
  ASSUME IInv, FinishRequest
  PROVE  IInv'
<1> USE TaskConstants DEF IInv, Owners, TypeOK
<1>a. current \in Owners /\ op[current] = "awaitResponse"
  BY DEF FinishRequest, Working, NobodyForgotten, InRequest
<1>1. TypeOK'
  BY <1>a DEF FinishRequest, AnswerCurrent, AfterAnswer, RunnerStates, OpStates, Outcomes, Answered, ShutDown
<1>2. Working'
  BY <1>a DEF FinishRequest, AnswerCurrent, AfterAnswer, Working, NobodyForgotten, InRequest, InShutdown
<1>3. QueuedOnce'
  BY <1>a DEF FinishRequest, AnswerCurrent, AfterAnswer, QueuedOnce
<1>4. NobodyForgotten'
  BY <1>a DEF FinishRequest, AnswerCurrent, AfterAnswer, NobodyForgotten, InRequest, InShutdown, Working
<1>5. Pending'
  BY <1>a DEF FinishRequest, AnswerCurrent, AfterAnswer, Pending, Working, NobodyForgotten, InRequest, InShutdown
<1>6. DropperLast'
  BY <1>a DEF FinishRequest, AnswerCurrent, AfterAnswer, DropperLast, Pending
<1>7. AnsweredIsFinal'
  BY <1>a DEF FinishRequest, AnswerCurrent, AfterAnswer, AnsweredIsFinal, Answered, ShutDown
<1>8. RunsAtMostOnce'
  BY <1>a DEF FinishRequest, AnswerCurrent, AfterAnswer, RunsAtMostOnce, Pending, Answered, ShutDown, Working
<1> QED  BY <1>1, <1>2, <1>3, <1>4, <1>5, <1>6, <1>7, <1>8

\* The runner receives a shutdown message.
LEMMA TakeShutdownStep ==
  ASSUME IInv, TakeShutdown
  PROVE  IInv'
<1> USE TaskConstants DEF IInv, Owners, TypeOK
<1>a. /\ Head(shutdowns) \in Owners /\ shutdowns' \in Seq(Owners) /\ Len(shutdowns') <= Capacity
      /\ op[Head(shutdowns)] = "awaitShutdown"
      /\ Range(shutdowns) = Range(shutdowns') \cup {Head(shutdowns)}
      /\ IsInjective(shutdowns') /\ Head(shutdowns) \notin Range(shutdowns')
  BY TakeFromChannel DEF TakeShutdown, QueuedOnce, NobodyForgotten, InShutdown
<1>1. TypeOK'
  BY <1>a DEF TakeShutdown, RunnerStates, OpStates, Outcomes, Answered, ShutDown
<1>2. Working'
  BY <1>a DEF TakeShutdown, Working, NobodyForgotten, InRequest, InShutdown
<1>3. QueuedOnce'
  BY <1>a DEF TakeShutdown, QueuedOnce
<1>4. NobodyForgotten'
  BY <1>a DEF TakeShutdown, NobodyForgotten, InRequest, InShutdown, Working
<1>5. Pending'
  BY <1>a DEF TakeShutdown, Pending, Working, NobodyForgotten, InRequest, InShutdown
<1>6. DropperLast'
  BY <1>a DEF TakeShutdown, DropperLast, Pending
<1>7. AnsweredIsFinal'
  BY <1>a DEF TakeShutdown, AnsweredIsFinal, Answered, ShutDown
<1>8. RunsAtMostOnce'
  BY <1>a DEF TakeShutdown, RunsAtMostOnce, Pending, Answered, ShutDown, Working
<1> QED  BY <1>1, <1>2, <1>3, <1>4, <1>5, <1>6, <1>7, <1>8

\* The runner answers a shutdown message.
LEMMA FinishShutdownStep ==
  ASSUME IInv, FinishShutdown
  PROVE  IInv'
<1> USE TaskConstants DEF IInv, Owners, TypeOK
<1>a. current \in Owners /\ op[current] = "awaitShutdown"
  BY DEF FinishShutdown, Working, NobodyForgotten, InShutdown
<1>1. TypeOK'
  BY <1>a DEF FinishShutdown, AnswerCurrent, AfterAnswer, RunnerStates, OpStates, Outcomes, Answered, ShutDown
<1>2. Working'
  BY <1>a DEF FinishShutdown, AnswerCurrent, AfterAnswer, Working, NobodyForgotten, InRequest, InShutdown
<1>3. QueuedOnce'
  BY <1>a DEF FinishShutdown, AnswerCurrent, AfterAnswer, QueuedOnce
<1>4. NobodyForgotten'
  BY <1>a DEF FinishShutdown, AnswerCurrent, AfterAnswer, NobodyForgotten, InRequest, InShutdown, Working
<1>5. Pending'
  BY <1>a DEF FinishShutdown, AnswerCurrent, AfterAnswer, Pending, Working, NobodyForgotten, InRequest, InShutdown
<1>6. DropperLast'
  BY <1>a DEF FinishShutdown, AnswerCurrent, AfterAnswer, DropperLast, Pending
<1>7. AnsweredIsFinal'
  BY <1>a DEF FinishShutdown, AnswerCurrent, AfterAnswer, AnsweredIsFinal, Answered, ShutDown
<1>8. RunsAtMostOnce'
  BY <1>a DEF FinishShutdown, AnswerCurrent, AfterAnswer, RunsAtMostOnce, Pending, Answered, ShutDown, Working
<1> QED  BY <1>1, <1>2, <1>3, <1>4, <1>5, <1>6, <1>7, <1>8

\* The runner drops its receivers.
LEMMA DropRunnerStep ==
  ASSUME IInv, DropRunner
  PROVE  IInv'
<1> USE TaskConstants DEF IInv, Owners, TypeOK
<1>a. Range(requests') = {} /\ Range(shutdowns') = {} /\ QueuedOnce'
  BY EmptyChannel DEF DropRunner, Abandon, QueuedOnce
<1>1. TypeOK'
  BY <1>a DEF DropRunner, Abandon, AfterAnswer, RunnerStates, OpStates, Outcomes, Answered, ShutDown
<1>2. Working'
  BY <1>a DEF DropRunner, Abandon, AfterAnswer, Working, NobodyForgotten, InRequest, InShutdown
<1>3. QueuedOnce'
  BY <1>a DEF DropRunner, Abandon, AfterAnswer, QueuedOnce
<1>4. NobodyForgotten'
  BY <1>a DEF DropRunner, Abandon, AfterAnswer, NobodyForgotten, InRequest, InShutdown, Working
<1>5. Pending'
  BY <1>a DEF DropRunner, Abandon, AfterAnswer, Pending, Working, NobodyForgotten, InRequest, InShutdown
<1>6. DropperLast'
  BY <1>a DEF DropRunner, Abandon, AfterAnswer, DropperLast, Pending, NobodyForgotten, InRequest, InShutdown
<1>7. AnsweredIsFinal'
  BY <1>a DEF DropRunner, Abandon, AfterAnswer, AnsweredIsFinal, Answered, ShutDown
<1>8. RunsAtMostOnce'
  BY <1>a DEF DropRunner, Abandon, AfterAnswer, RunsAtMostOnce, Pending, Answered, ShutDown, Working, NobodyForgotten, InRequest, InShutdown
<1> QED  BY <1>1, <1>2, <1>3, <1>4, <1>5, <1>6, <1>7, <1>8

\* The task panics.
LEMMA PanicStep ==
  ASSUME IInv, Panic
  PROVE  IInv'
<1> USE TaskConstants DEF IInv, Owners, TypeOK
<1>a. Range(requests') = {} /\ Range(shutdowns') = {} /\ QueuedOnce'
  BY EmptyChannel DEF Panic, Abandon, QueuedOnce
<1>1. TypeOK'
  BY <1>a DEF Panic, Abandon, AfterAnswer, RunnerStates, OpStates, Outcomes, Answered, ShutDown
<1>2. Working'
  BY <1>a DEF Panic, Abandon, AfterAnswer, Working, NobodyForgotten, InRequest, InShutdown
<1>3. QueuedOnce'
  BY <1>a DEF Panic, Abandon, AfterAnswer, QueuedOnce
<1>4. NobodyForgotten'
  BY <1>a DEF Panic, Abandon, AfterAnswer, NobodyForgotten, InRequest, InShutdown, Working
<1>5. Pending'
  BY <1>a DEF Panic, Abandon, AfterAnswer, Pending, Working, NobodyForgotten, InRequest, InShutdown
<1>6. DropperLast'
  BY <1>a DEF Panic, Abandon, AfterAnswer, DropperLast, Pending, NobodyForgotten, InRequest, InShutdown
<1>7. AnsweredIsFinal'
  BY <1>a DEF Panic, Abandon, AfterAnswer, AnsweredIsFinal, Answered, ShutDown
<1>8. RunsAtMostOnce'
  BY <1>a DEF Panic, Abandon, AfterAnswer, RunsAtMostOnce, Pending, Answered, ShutDown, Working, NobodyForgotten, InRequest, InShutdown
<1> QED  BY <1>1, <1>2, <1>3, <1>4, <1>5, <1>6, <1>7, <1>8

-----------------------------------------------------------------------------
(* The theorems *)

\* The invariant holds of a runner that was just spawned.
LEMMA InitInv == Init => IInv
<1> SUFFICES ASSUME Init PROVE IInv
  OBVIOUS
<1> USE TaskConstants, EmptyChannel DEF Init, Owners
<1>1. TypeOK
  <2>1. /\ requests \in Seq(Owners) /\ Len(requests) <= Capacity
        /\ shutdowns \in Seq(Owners) /\ Len(shutdowns) <= Capacity
    OBVIOUS
  <2>2. /\ op \in [Owners -> OpStates] /\ outcome \in [Owners -> Outcomes]
        /\ runs \in [Owners -> Nat]
    BY DEF OpStates, Outcomes
  <2> QED  BY <2>1, <2>2, Zenon DEF TypeOK, RunnerStates
<1>2. Working /\ QueuedOnce
  BY DEF Working, QueuedOnce
<1>3. NobodyForgotten
  BY DEF NobodyForgotten, InRequest, InShutdown
<1>4. Pending /\ DropperLast
  BY DEF Pending, DropperLast
<1>5. AnsweredIsFinal /\ RunsAtMostOnce
  BY DEF AnsweredIsFinal, RunsAtMostOnce, Answered, ShutDown
<1> QED  BY <1>1, <1>2, <1>3, <1>4, <1>5 DEF IInv

\* Every step of a client, of the runner or of the spawned tasks preserves it.
LEMMA NextInv == IInv /\ [Next]_vars => IInv'
<1> SUFFICES ASSUME IInv, [Next]_vars PROVE IInv'
  OBVIOUS
<1>1. ASSUME NEW c \in Callers, BeginShutdown(c) \/ DropHandle(c) PROVE IInv'
  BY <1>1, BeginShutdownStep, DropHandleStep
<1>2. ASSUME NEW o \in Owners, BeginRequest(o) \/ SendRequest(o) PROVE IInv'
  BY <1>2, BeginRequestStep, SendRequestStep
<1>3. ASSUME NEW o \in Owners, SendShutdown(o) \/ SendFails(o) PROVE IInv'
  BY <1>3, SendShutdownStep, SendFailsStep
<1>4. CASE OnStart \/ TakeRequest \/ FinishRequest
  BY <1>4, OnStartStep, TakeRequestStep, FinishRequestStep
<1>5. CASE TakeShutdown \/ FinishShutdown \/ DropRunner \/ Panic
  BY <1>5, TakeShutdownStep, FinishShutdownStep, DropRunnerStep, PanicStep
<1>6. CASE Terminated \/ UNCHANGED vars
  BY <1>6 DEF Terminated, vars, IInv, TypeOK, Working, QueuedOnce, NobodyForgotten,
              InRequest, InShutdown, Pending, DropperLast, AnsweredIsFinal, RunsAtMostOnce
<1> QED  BY <1>1, <1>2, <1>3, <1>4, <1>5, <1>6 DEF Next

\* The inductive invariant holds in every reachable state.
THEOREM Invariance == Spec => []IInv
BY InitInv, NextInv, PTL DEF Spec

\* The channels, the clients and the runner keep their types.
THEOREM TypeCorrect == Spec => []TypeOK
<1>1. IInv => TypeOK
  BY DEF IInv
<1> QED  BY <1>1, Invariance, PTL

\* handle_request runs at most once for a call, exactly once when the call is
\* answered, and never for a call that fails with Error::Send or Error::Receive
\* unless the task panicked.
THEOREM AtMostOnce == Spec => []RunsAtMostOnce
<1>1. IInv => RunsAtMostOnce
  BY DEF IInv
<1> QED  BY <1>1, Invariance, PTL

\* A client that awaits an answer is in a channel or in the hands of the runner.
THEOREM NoClientForgotten == Spec => []NobodyForgotten
<1>1. IInv => NobodyForgotten
  BY DEF IInv
<1> QED  BY <1>1, Invariance, PTL

\* After an answered shutdown() the task handles no request any more.
THEOREM ShutdownIsFinal == Spec => NoWorkAfterShutdown
<1> DEFINE Acknowledged == \E o \in Owners : outcome[o] \in ShutDown
           Quiet == \A o \in Owners : runs'[o] <= runs[o]
<1>1. ASSUME IInv, Next, Acknowledged PROVE Quiet
  <2>a. runs \in [Owners -> Nat]
    BY <1>1 DEF IInv, TypeOK
  <2>1. runner \in {"returned", "gone"}
    BY <1>1 DEF IInv, AnsweredIsFinal
  <2>2. ASSUME NEW c \in Callers, BeginShutdown(c) \/ DropHandle(c) PROVE Quiet
    BY <2>a, <2>2 DEF BeginShutdown, DropHandle, Owners
  <2>3. ASSUME NEW o \in Owners, BeginRequest(o) \/ SendRequest(o) \/ SendShutdown(o) \/ SendFails(o)
        PROVE Quiet
    BY <2>a, <2>3 DEF BeginRequest, SendRequest, SendShutdown, SendFails
  <2>4. CASE DropRunner \/ Terminated
    BY <2>a, <2>4 DEF DropRunner, Terminated, vars
  <2>5. ~(OnStart \/ TakeRequest \/ FinishRequest \/ TakeShutdown \/ FinishShutdown \/ Panic)
    BY <2>1 DEF OnStart, TakeRequest, FinishRequest, TakeShutdown, FinishShutdown, Panic
  <2> QED  BY <1>1, <2>2, <2>3, <2>4, <2>5 DEF Next
<1>2. IInv /\ [Next]_vars => [Acknowledged => Quiet]_vars
  BY <1>1
<1> QED  BY <1>2, Invariance, PTL DEF Spec, NoWorkAfterShutdown

-----------------------------------------------------------------------------
(* The coins of the builder. *)

Stages == {"start", "fund", "closure", "unlock", "ok", "err"}

\* The shape of the two functions that the steps update.
Shape ==
  /\ stage \in [Builders -> Stages]
  /\ commit = [b \in Builders |-> commit[b]]
  /\ \A b \in Builders :
       commit[b] = [inputs |-> commit[b].inputs, script |-> commit[b].script,
                    value |-> commit[b].value]

\* The inductive invariant.  Neither property stands alone: that a fresh coin is nobody's
\* needs the coins of a call to be locked, and that an unlock frees only its own coins
\* needs the calls to have different ones.
CoinsInv ==
  /\ Shape /\ orphaned \subseteq locked
  /\ CoinsAreExclusive /\ LocksAreReleased

\* LocksAreReleased, coin by coin.
LEMMA LocksCoinByCoin ==
  LocksAreReleased <=>
    \A c \in locked : c \in orphaned \/ \E b \in Builders : Funded(b) /\ c \in commit[b].inputs
BY DEF LocksAreReleased

LEMMA LocksCoinByCoinNext ==
  LocksAreReleased' <=>
    \A c \in locked' :
      c \in orphaned' \/ \E b \in Builders : Funded(b)' /\ c \in commit'[b].inputs
BY DEF LocksAreReleased

LEMMA CoinsInvInitially == BuilderInit => CoinsInv
<1> SUFFICES ASSUME BuilderInit PROVE CoinsInv
  OBVIOUS
<1>1. Shape
  BY DEF BuilderInit, Shape, Stages, NoTx
<1>2. CoinsAreExclusive
  BY DEF BuilderInit, CoinsAreExclusive, Funded
<1>3. LocksAreReleased
  BY LocksCoinByCoin DEF BuilderInit
<1> QED  BY <1>1, <1>2, <1>3 DEF CoinsInv, BuilderInit

\* What a step of call b does to the stages and the commit transactions of the others.
LEMMA OthersAreLeft ==
  ASSUME Shape, NEW b \in Builders, NEW s \in Stages, Goto(b, s)
  PROVE  /\ stage' \in [Builders -> Stages]
         /\ stage'[b] = s
         /\ \A d \in Builders : d # b => stage'[d] = stage[d]
BY DEF Shape, Goto

\* Up to funding, a call has no coins; the step leaves the wallet alone.
LEMMA PrepareKeeps == ASSUME CoinsInv, NEW b \in Builders, Prepare(b) PROVE CoinsInv'
<1>1. PICK s \in {"fund", "err"} : Goto(b, s)
  BY DEF Prepare
<1>2. /\ stage[b] = "start" /\ s \in Stages
      /\ locked' = locked /\ orphaned' = orphaned
      /\ commit' = [d \in Builders |-> commit'[d]]
      /\ \A d \in Builders : d # b => commit'[d] = commit[d]
      /\ commit'[b] = [inputs |-> commit'[b].inputs, script |-> commit'[b].script,
                       value |-> commit'[b].value]
  BY <1>1 DEF CoinsInv, Shape, Prepare, Stages
<1>3. /\ stage' \in [Builders -> Stages]
      /\ \A d \in Builders : Funded(d)' => d # b /\ Funded(d)
  BY <1>1, <1>2, OthersAreLeft DEF Funded, CoinsInv
<1>4. Shape'
  BY <1>2, <1>3 DEF CoinsInv, Shape
<1>5. CoinsAreExclusive'
  BY <1>2, <1>3 DEF CoinsInv, CoinsAreExclusive
<1>6. LocksAreReleased'
  <2>1. \A d \in Builders : Funded(d) => d # b /\ Funded(d)'
    BY <1>1, <1>2, OthersAreLeft DEF Funded, CoinsInv
  <2> QED  BY <2>1, <1>2, LocksCoinByCoin, LocksCoinByCoinNext, SMTT(20) DEF CoinsInv
<1> QED  BY <1>2, <1>4, <1>5, <1>6 DEF CoinsInv

\* Funding takes a coin that no call has, since what a call has is locked.
LEMMA fund_txKeeps == ASSUME CoinsInv, NEW b \in Builders, fund_tx(b) PROVE CoinsInv'
<1>1. stage[b] = "fund" /\ ~Funded(b)
  BY DEF fund_tx, Funded
<1>2. ASSUME NEW c \in Coins \ locked, locked' = locked \cup {c},
             commit' = [commit EXCEPT ![b].inputs = {c}], Goto(b, "closure"),
             orphaned' = orphaned
      PROVE  CoinsInv'
  <2>1. /\ stage' \in [Builders -> Stages] /\ stage'[b] = "closure"
        /\ \A d \in Builders : d # b => stage'[d] = stage[d]
    BY <1>2, OthersAreLeft DEF CoinsInv, Stages
  <2>2. /\ commit' = [d \in Builders |-> commit'[d]]
        /\ \A d \in Builders : d # b => commit'[d] = commit[d]
        /\ commit'[b] = [inputs |-> {c}, script |-> commit[b].script, value |-> commit[b].value]
    <3>1. [commit[b] EXCEPT !.inputs = {c}]
            = [inputs |-> {c}, script |-> commit[b].script, value |-> commit[b].value]
      <4>1. commit[b] = [inputs |-> commit[b].inputs, script |-> commit[b].script,
                         value |-> commit[b].value]
        BY DEF CoinsInv, Shape
      <4> DEFINE i == commit[b].inputs
                 s == commit[b].script
                 v == commit[b].value
      <4>2. [[inputs |-> i, script |-> s, value |-> v] EXCEPT !.inputs = {c}]
              = [inputs |-> {c}, script |-> s, value |-> v]
        <5> HIDE DEF i, s, v
        <5> QED  OBVIOUS
      <4> QED  BY <4>1, <4>2, Zenon
    <3>2. commit' = [commit EXCEPT ![b] = [commit[b] EXCEPT !.inputs = {c}]]
      BY <1>2
    <3>3. commit' = [d \in Builders |-> IF d = b THEN [commit[b] EXCEPT !.inputs = {c}] ELSE commit[d]]
      BY <3>2, Zenon DEF CoinsInv, Shape
    <3> QED  BY <3>1, <3>3
  <2>3. Funded(b)' /\ \A d \in Builders : d # b => (Funded(d)' <=> Funded(d))
    BY <2>1 DEF Funded
  <2>4. Shape'
    BY <2>1, <2>2 DEF CoinsInv, Shape
  <2>5. \A d \in Builders : Funded(d) => c \notin commit[d].inputs
    BY DEF CoinsInv, CoinsAreExclusive
  <2>6. c \notin orphaned
    BY DEF CoinsInv
  <2>7. CoinsAreExclusive'
    BY <1>2, <2>2, <2>3, <2>5, <2>6 DEF CoinsInv, CoinsAreExclusive
  <2>8. LocksAreReleased'
    BY <1>1, <1>2, <2>2, <2>3, LocksCoinByCoin, LocksCoinByCoinNext, SMTT(20) DEF CoinsInv
  <2> QED  BY <1>2, <2>4, <2>7, <2>8 DEF CoinsInv
<1>3. ASSUME NEW c \in Coins \ locked, locked' = locked \cup {c},
             orphaned' = orphaned \cup {c}, Goto(b, "err"), commit' = commit
      PROVE  CoinsInv'
  <2>1. /\ stage' \in [Builders -> Stages] /\ stage'[b] = "err"
        /\ \A d \in Builders : d # b => stage'[d] = stage[d]
    BY <1>3, OthersAreLeft DEF CoinsInv, Stages
  <2>2. \A d \in Builders : Funded(d)' <=> Funded(d)
    BY <1>1, <2>1 DEF Funded
  <2>3. Shape'
    BY <1>3, <2>1 DEF CoinsInv, Shape
  <2>4. \A d \in Builders : Funded(d) => c \notin commit[d].inputs
    BY DEF CoinsInv, CoinsAreExclusive
  <2>5. CoinsAreExclusive'
    BY <1>3, <2>2, <2>4 DEF CoinsInv, CoinsAreExclusive
  <2>6. LocksAreReleased'
    BY <1>3, <2>2, LocksCoinByCoin, LocksCoinByCoinNext, SMTT(20) DEF CoinsInv
  <2> QED  BY <1>3, <2>3, <2>5, <2>6 DEF CoinsInv
<1>4. ASSUME Goto(b, "err"), UNCHANGED <<commit, locked, orphaned>> PROVE CoinsInv'
  <2>1. /\ stage' \in [Builders -> Stages] /\ stage'[b] = "err"
        /\ \A d \in Builders : d # b => stage'[d] = stage[d]
    BY <1>4, OthersAreLeft DEF CoinsInv, Stages
  <2>2. \A d \in Builders : Funded(d)' <=> Funded(d)
    BY <1>1, <2>1 DEF Funded
  <2>3. Shape'
    BY <1>4, <2>1 DEF CoinsInv, Shape
  <2>4. CoinsAreExclusive'
    BY <1>4, <2>2 DEF CoinsInv, CoinsAreExclusive
  <2>5. LocksAreReleased'
    BY <1>4, <2>2, LocksCoinByCoin, LocksCoinByCoinNext, SMTT(20) DEF CoinsInv
  <2> QED  BY <1>4, <2>3, <2>4, <2>5 DEF CoinsInv
<1> QED  BY <1>2, <1>3, <1>4 DEF fund_tx

\* The reveal transaction is built from coins the call has already; an error of the
\* closure does not touch the wallet yet.
LEMMA ClosureKeeps == ASSUME CoinsInv, NEW b \in Builders, Closure(b) PROVE CoinsInv'
<1>1. PICK s \in {"ok", "unlock"} : Goto(b, s)
  BY DEF Closure
<1>2. stage[b] = "closure" /\ commit' = commit /\ locked' = locked /\ orphaned' = orphaned
  BY DEF Closure
<1>3. /\ stage' \in [Builders -> Stages]
      /\ \A d \in Builders : Funded(d)' <=> Funded(d)
  BY <1>1, <1>2, OthersAreLeft DEF CoinsInv, Funded, Stages
<1>4. Shape'
  BY <1>2, <1>3 DEF CoinsInv, Shape
<1>5. CoinsAreExclusive'
  BY <1>2, <1>3 DEF CoinsInv, CoinsAreExclusive
<1>6. LocksAreReleased'
  BY <1>2, <1>3, LocksCoinByCoin, LocksCoinByCoinNext, SMTT(20) DEF CoinsInv
<1> QED  BY <1>2, <1>4, <1>5, <1>6 DEF CoinsInv

\* An unlock that arrives frees the coins of b and of nobody else; one that is lost leaves
\* them orphaned, and no other call has them.
LEMMA UnlockKeeps == ASSUME CoinsInv, NEW b \in Builders, Unlock(b) PROVE CoinsInv'
<1>1. stage[b] = "unlock" /\ Funded(b) /\ commit' = commit /\ Goto(b, "err")
  BY DEF Unlock, Funded
<1>2. /\ stage' \in [Builders -> Stages] /\ stage'[b] = "err"
      /\ \A d \in Builders : d # b => stage'[d] = stage[d]
  BY <1>1, OthersAreLeft DEF CoinsInv, Stages
<1>3. ~Funded(b)' /\ \A d \in Builders : d # b => (Funded(d)' <=> Funded(d))
  BY <1>2 DEF Funded
<1>4. Shape'
  BY <1>1, <1>2 DEF CoinsInv, Shape
<1>5. \/ locked' = locked \ commit[b].inputs /\ orphaned' = orphaned
      \/ locked' = locked /\ orphaned' = orphaned \cup commit[b].inputs
  BY DEF Unlock
<1>6. /\ commit[b].inputs \subseteq locked \ orphaned
      /\ \A d \in Builders : d # b /\ Funded(d) =>
           commit[d].inputs \subseteq locked \ orphaned /\ commit[b].inputs \cap commit[d].inputs = {}
  BY <1>1 DEF CoinsInv, CoinsAreExclusive
<1>7. orphaned' \subseteq locked'
  BY <1>5, <1>6 DEF CoinsInv
<1>8. CoinsAreExclusive'
  BY <1>1, <1>3, <1>5, <1>6 DEF CoinsInv, CoinsAreExclusive
<1>9. LocksAreReleased'
  BY <1>1, <1>3, <1>5, <1>6, LocksCoinByCoin, LocksCoinByCoinNext, SMTT(20) DEF CoinsInv
<1> QED  BY <1>4, <1>7, <1>8, <1>9 DEF CoinsInv

LEMMA CoinsInvIsKept == CoinsInv /\ [BuilderNext]_builderVars => CoinsInv'
<1>1. ASSUME CoinsInv, UNCHANGED builderVars PROVE CoinsInv'
  BY <1>1
  DEF builderVars, CoinsInv, Shape, CoinsAreExclusive, LocksAreReleased,
      Funded
<1> QED  BY <1>1, PrepareKeeps, fund_txKeeps, ClosureKeeps, UnlockKeeps DEF BuilderNext

\* builder.rs: however many calls share the wallet, no two commit transactions spend the
\* same coin, unlock_unspent never frees the coin of another call, and a call that fails
\* after funding leaves no coin locked, unless the wallet could not be told or its answer
\* was lost.
THEOREM CoinsStayAccounted == BuilderSpec => []CoinsAreAccounted
<1>1. CoinsInv => CoinsAreAccounted
  BY DEF CoinsInv, CoinsAreAccounted
<1> QED  BY CoinsInvInitially, CoinsInvIsKept, <1>1, PTL DEF BuilderSpec

-----------------------------------------------------------------------------
(* The sums of the builder. *)

\* Induction, as the well-foundedness of the natural numbers: a set of them has a least one.
LEMMA LeastNumber ==
  ASSUME NEW T, T \subseteq Nat, T # {}
  PROVE  \E n \in T : \A m \in T : n <= m
<1> DEFINE R == OpToRel(<, Nat)
<1>1. IsWellFoundedOn(R, Nat)
  BY NatLessThanWellFounded
<1>2. \A x, y \in Nat : <<x, y>> \in R <=> x < y
  BY DEF OpToRel
<1> HIDE DEF R
<1>3. PICK n \in T : \A m \in T : ~ (<<m, n>> \in R)
  BY <1>1, WFMin, Zenon
<1>4. ASSUME NEW m \in T PROVE n <= m
  <2>1. ~ (m < n)
    BY <1>2, <1>3, Zenon
  <2> QED  BY <2>1
<1> QED  BY <1>4

\* sum[i] is the sum of the first i numbers of s.
Sums(sum, s) ==
  /\ sum \in [0..Len(s) -> Nat]
  /\ sum[0] = 0
  /\ \A i \in 1..Len(s) : sum[i] = sum[i - 1] + s[i]

\* The sums along any sequence exist: the least length without them would have them.
LEMMA SumsExist == ASSUME NEW s \in Seq(Nat) PROVE \E sum : Sums(sum, s)
<1> DEFINE n == Len(s)
           Upto(k) == \E sum \in [0..k -> Nat] :
                        sum[0] = 0 /\ \A i \in 1..k : sum[i] = sum[i - 1] + s[i]
           T == {k \in 0..n : ~ Upto(k)}
<1>1. n \in Nat /\ \A i \in 1..n : s[i] \in Nat
  OBVIOUS
<1>2. ASSUME T # {} PROVE FALSE
  <2>1. T \subseteq Nat
    BY <1>1
  <2>2. PICK k \in T : \A j \in T : k <= j
    BY <1>2, <2>1, LeastNumber, Zenon
  <2>3. k # 0
    <3>1. [i \in 0..0 |-> 0] \in [0..0 -> Nat] /\ [i \in 0..0 |-> 0][0] = 0 /\ 1..0 = {}
      OBVIOUS
    <3>2. Upto(0)
      BY <3>1, Zenon
    <3> QED  BY <2>2, <3>2, Zenon
  <2>4. /\ k \in 1..n /\ k - 1 \in 0..n /\ ~ (k <= k - 1)
        /\ \A i \in 0..k : i = k \/ i \in 0..(k - 1)
        /\ \A i \in 1..k : i = k \/ i \in 1..(k - 1)
        /\ \A i \in 1..k : i - 1 \in 0..(k - 1)
        /\ k \notin 0..(k - 1) /\ 0 \in 0..(k - 1) /\ 0 # k
    BY <1>1, <2>2, <2>3
  <2>5. Upto(k - 1)
    BY <2>2, <2>4, Zenon
  <2>6. PICK sum \in [0..(k - 1) -> Nat] :
          sum[0] = 0 /\ \A i \in 1..(k - 1) : sum[i] = sum[i - 1] + s[i]
    BY <2>5, Zenon
  <2> DEFINE next == [i \in 0..k |-> IF i = k THEN sum[k - 1] + s[k] ELSE sum[i]]
  <2>7. next \in [0..k -> Nat] /\ next[0] = 0
    BY <1>1, <2>4, <2>6
  <2>8. ASSUME NEW i \in 1..k PROVE next[i] = next[i - 1] + s[i]
    <3>1. i \in 0..k /\ i - 1 \in 0..k /\ i - 1 \in 0..(k - 1) /\ i - 1 # k
      BY <2>4
    <3>2. next[i - 1] = sum[i - 1]
      BY <3>1
    <3>3. CASE i = k
      BY <3>1, <3>2, <3>3
    <3>4. CASE i # k
      BY <2>4, <2>6, <3>1, <3>2, <3>4
    <3> QED  BY <3>3, <3>4
  <2> HIDE DEF next
  <2>9. Upto(k)
    BY <2>7, <2>8, Zenon
  <2> QED  BY <2>2, <2>9, Zenon
<1>3. Upto(n)
  <2>1. n \in 0..n
    BY <1>1
  <2> HIDE DEF n, Upto
  <2> QED  BY <1>2, <2>1, Zenon
<1> QED  BY <1>3 DEF Sums

\* They are determined, so SumOf computes them.
LEMMA SumOfIs ==
  ASSUME NEW s \in Seq(Nat), NEW sum, Sums(sum, s)
  PROVE  SumOf(s) = sum[Len(s)] /\ SumOf(s) \in Nat
<1> DEFINE k == Len(s)
           Step(f) == [i \in 0..k |-> IF i = 0 THEN 0 ELSE f[i - 1] + s[i]]
           g == CHOOSE f : f = Step(f)
<1>1. k \in Nat
  OBVIOUS
<1>2. SumOf(s) = g[k]
  BY DEF SumOf
<1>3. sum = Step(sum)
  <2>1. \A i \in 0..k : i # 0 => i \in 1..k
    BY <1>1
  <2> QED  BY <2>1 DEF Sums
<1>4. g = Step(g)
  <2>1. \E f : f = Step(f)
    BY <1>3, Zenon
  <2> QED  BY <2>1, Zenon
<1> HIDE DEF g
<1>5. g[0] = 0 /\ \A i \in 1..k : g[i] = g[i - 1] + s[i]
  BY <1>1, <1>4
<1> DEFINE T == {i \in 0..k : g[i] # sum[i]}
<1>6. ASSUME T # {} PROVE FALSE
  <2>1. T \subseteq Nat
    BY <1>1
  <2>2. PICK i \in T : \A j \in T : i <= j
    BY <1>6, <2>1, LeastNumber, Zenon
  <2>3. i \in 1..k /\ i - 1 \in 0..k /\ ~ (i <= i - 1)
    BY <1>1, <1>5, <2>2 DEF Sums
  <2>4. g[i - 1] = sum[i - 1]
    BY <2>2, <2>3
  <2> QED  BY <1>5, <2>2, <2>3, <2>4 DEF Sums
<1>7. g[k] = sum[k] /\ sum[k] \in Nat
  BY <1>1, <1>6 DEF Sums
<1> QED  BY <1>2, <1>7

LEMMA SumIsNat == ASSUME NEW s \in Seq(Nat) PROVE SumOf(s) \in Nat
BY SumsExist, SumOfIs

LEMMA Multiples ==
  ASSUME NEW a \in Nat, NEW b \in Nat, a < b
  PROVE  a * MaxPush \in Nat /\ b * MaxPush \in Nat /\ a * MaxPush + MaxPush <= b * MaxPush
<1>1. PICK d \in Nat : b = a + 1 + d
  <2>1. b - a - 1 \in Nat /\ b = a + 1 + (b - a - 1)
    OBVIOUS
  <2> QED  BY <2>1
<1>2. d * MaxPush \in Nat /\ a * MaxPush \in Nat
  BY InscriptionConstants
<1>3. b * MaxPush = a * MaxPush + MaxPush + d * MaxPush
  BY InscriptionConstants, <1>1
<1> QED  BY InscriptionConstants, <1>2, <1>3

LEMMA Division ==
  ASSUME NEW a \in Nat
  PROVE  /\ a \div MaxPush \in Nat /\ a % MaxPush \in 0..(MaxPush - 1)
         /\ a = (a \div MaxPush) * MaxPush + (a % MaxPush)
BY InscriptionConstants

\* payload.chunks cuts a payload into pushes of 1 to MAX_PUSH_SIZE bytes that add up to it:
\* the first i of them carry i * MaxPush bytes, or all.
LEMMA ChunksCarry ==
  ASSUME NEW n \in Nat
  PROVE  /\ Chunks(n) \in Seq(Nat) /\ SumOf(Chunks(n)) = n
         /\ \A j \in DOMAIN Chunks(n) : Chunks(n)[j] \in 1..MaxPush
<1> DEFINE M == MaxPush
           c == (n + M - 1) \div M
           q == n \div M
           r == n % M
           ch == [i \in 1..c |-> IF i * M <= n THEN M ELSE r]
           sum == [i \in 0..c |-> IF i * M <= n THEN i * M ELSE n]
<1>1. M \in Nat /\ M >= 1
  BY InscriptionConstants
<1>2. c \in Nat /\ c * M \in Nat /\ n <= c * M /\ c * M <= n + M - 1
  <2> DEFINE a == n + M - 1
  <2>1. a \in Nat
    BY <1>1
  <2>2. /\ a \div M \in Nat /\ a % M \in 0..(M - 1)
        /\ a = (a \div M) * M + (a % M)
    BY <2>1, Division, Zenon
  <2>3. c * M \in Nat
    BY <1>1, <2>2
  <2> QED  BY <1>1, <2>2, <2>3
<1>3. q \in Nat /\ r \in 0..(M - 1) /\ n = q * M + r /\ q * M \in Nat
  <2>1. q \in Nat /\ r \in 0..(M - 1) /\ n = q * M + r
    BY Division, Zenon
  <2> QED  BY <1>1, <2>1
<1> HIDE DEF c, q, r
<1>4. ASSUME NEW i \in Nat, i < c PROVE i * M \in Nat /\ i * M <= n
  <2>1. i * M \in Nat /\ i * M + M <= c * M
    BY <1>2, <1>4, Multiples
  <2> QED  BY <1>1, <1>2, <2>1
<1>5. ASSUME ~ (c * M <= n) PROVE c - 1 = q /\ r >= 1
  <2>1. q < c
    <3> SUFFICES ASSUME c <= q PROVE FALSE
      BY <1>2, <1>3
    <3>1. c = q \/ c * M + M <= q * M
      BY <1>2, <1>3, Multiples
    <3> QED  BY <1>1, <1>2, <1>3, <1>5, <3>1
  <2>2. ~ (q + 1 < c)
    <3> SUFFICES ASSUME q + 1 < c PROVE FALSE
      OBVIOUS
    <3>1. (q + 1) * M + M <= c * M
      BY <1>2, <1>3, Multiples
    <3>2. (q + 1) * M = q * M + M
      BY <1>1, <1>3
    <3> QED  BY <1>1, <1>2, <1>3, <3>1, <3>2
  <2>3. c = q + 1 /\ c * M = q * M + M
    BY <1>1, <1>2, <1>3, <2>1, <2>2
  <2> QED  BY <1>1, <1>2, <1>3, <2>3
<1>6. \A i \in 1..c : ~ (i * M <= n) => i = c
  BY <1>2, <1>4
<1>7. \A i \in 1..c : ch[i] \in 1..M
  BY <1>1, <1>2, <1>3, <1>5, <1>6
<1>8. Chunks(n) = ch /\ DOMAIN ch = 1..c
  BY DEF Chunks, c, r
<1>9. ch \in Seq(Nat) /\ Len(ch) = c
  BY <1>1, <1>2, <1>7
<1>10. Sums(sum, ch)
  <2>1. sum \in [0..c -> Nat] /\ sum[0] = 0
    <3>1. 0 * M = 0 /\ 0 \in 0..c
      BY <1>1, <1>2
    <3>2. \A i \in 0..c : i * M \in Nat
      BY <1>1, <1>2
    <3> QED  BY <3>1, <3>2
  <2>2. ASSUME NEW i \in 1..c PROVE sum[i] = sum[i - 1] + ch[i]
    <3>1. /\ i \in 0..c /\ i - 1 \in 0..c /\ i - 1 \in Nat /\ i - 1 < c
          /\ (i - 1) * M \in Nat /\ i * M = (i - 1) * M + M
      BY <1>1, <1>2
    <3>2. sum[i - 1] = (i - 1) * M
      BY <1>4, <3>1
    <3>3. CASE i * M <= n
      BY <3>1, <3>2, <3>3
    <3>4. CASE ~ (i * M <= n)
      <4>1. i = c /\ i - 1 = q
        BY <1>5, <1>6, <3>4
      <4>2. sum[i] = n /\ ch[i] = r
        BY <3>1, <3>4
      <4> QED  BY <1>3, <3>2, <4>1, <4>2
    <3> QED  BY <3>3, <3>4
  <2> HIDE DEF sum, ch
  <2> QED  BY <1>9, <2>1, <2>2 DEF Sums
<1>11. sum[c] = n
  <2>1. c \in 0..c
    BY <1>2
  <2> QED  BY <1>2, <2>1
<1> HIDE DEF sum, ch
<1> QED  BY <1>7, <1>8, <1>9, <1>10, <1>11, SumOfIs

\* The size of a script is a sum of sums, and the fee for it a natural number.
LEMMA FeeIsNat ==
  ASSUME NEW ps \in Seq(Nat)
  PROVE  FeeRate * RevealSize(SignatureSize, build_reveal_script(ps)) \in Nat
<1> DEFINE script == build_reveal_script(ps)
           sizes == [i \in DOMAIN script |-> 3 + Len(script[i]) + SumOf(script[i])]
<1>1. DOMAIN script = 1..Len(ps) /\ Len(ps) \in Nat
  BY DEF build_reveal_script
<1>2. ASSUME NEW i \in 1..Len(ps) PROVE sizes[i] \in Nat
  <2>1. ps[i] \in Nat /\ script[i] = Chunks(ps[i])
    BY <1>1 DEF build_reveal_script
  <2>2. script[i] \in Seq(Nat) /\ SumOf(script[i]) \in Nat
    BY <2>1, ChunksCarry, SMTT(20)
  <2>3. Len(script[i]) \in Nat
    BY <2>2
  <2> QED  BY <1>1, <2>2, <2>3
<1>3. sizes \in Seq(Nat)
  BY <1>1, <1>2
<1>4. ScriptSize(script) \in Nat
  BY <1>3, SumIsNat DEF ScriptSize
<1> HIDE DEF script
<1>5. RevealSize(SignatureSize, script) \in Nat
  BY <1>4, InscriptionConstants DEF RevealSize, SignatureSize
<1> QED  BY <1>5, InscriptionConstants DEF script

-----------------------------------------------------------------------------
(* The reveal transactions. *)

\* From its preparation on, a commit transaction has the script and the value of the
\* payloads of its call, and the reveal transaction is made from it.
RevealInv ==
  /\ payloads \in [Builders -> Seq(Nat)]
  /\ DOMAIN reveal = Builders
  /\ \A b \in Builders : stage[b] \in {"fund", "closure", "unlock", "ok"} =>
       /\ commit[b].script = build_reveal_script(payloads[b])
       /\ commit[b].value = calculate_reveal_input_value(commit[b].script)
  /\ \A b \in Builders : stage[b] = "ok" => reveal[b] = build_and_sign_reveal_tx(commit[b])

LEMMA RevealInvInitially == BuilderInit => RevealInv
BY InscriptionConstants DEF BuilderInit, RevealInv

LEMMA RevealInvIsKept == CoinsInv /\ RevealInv /\ [BuilderNext]_builderVars => RevealInv'
<1> SUFFICES ASSUME Shape, RevealInv, [BuilderNext]_builderVars PROVE RevealInv'
  BY DEF CoinsInv
<1>1. ASSUME NEW b \in Builders, Prepare(b) PROVE RevealInv'
  <2>1. PICK s \in {"fund", "err"} : Goto(b, s)
    BY <1>1 DEF Prepare
  <2>2. stage'[b] = s /\ \A d \in Builders : d # b => stage'[d] = stage[d]
    BY <2>1, OthersAreLeft DEF Stages
  <2>3. payloads' = payloads /\ reveal' = reveal
    BY <1>1 DEF Prepare
  <2>4. \A d \in Builders : d # b => commit'[d] = commit[d]
    BY <1>1 DEF Prepare, Shape
  <2>5. s = "fund" => /\ commit'[b].script = build_reveal_script(payloads[b])
                      /\ commit'[b].value = calculate_reveal_input_value(commit'[b].script)
    BY <1>1, <2>2 DEF Prepare, Goto, Shape
  <2>6. \A d \in Builders : stage'[d] \in {"fund", "closure", "unlock", "ok"} =>
          /\ commit'[d].script = build_reveal_script(payloads[d])
          /\ commit'[d].value = calculate_reveal_input_value(commit'[d].script)
    BY <2>2, <2>4, <2>5, Zenon DEF RevealInv
  <2>7. \A d \in Builders : stage'[d] = "ok" => reveal[d] = build_and_sign_reveal_tx(commit'[d])
    BY <2>2, <2>4, Zenon DEF RevealInv
  <2> QED  BY <2>3, <2>6, <2>7, Zenon DEF RevealInv
<1>2. ASSUME NEW b \in Builders, fund_tx(b) PROVE RevealInv'
  <2>1. PICK s \in {"closure", "err"} : Goto(b, s)
    BY <1>2 DEF fund_tx
  <2>2. stage'[b] = s /\ \A d \in Builders : d # b => stage'[d] = stage[d]
    BY <2>1, OthersAreLeft DEF Stages
  <2>3. stage[b] = "fund" /\ payloads' = payloads /\ reveal' = reveal
    BY <1>2 DEF fund_tx
  <2>4. /\ \A d \in Builders : d # b => commit'[d] = commit[d]
        /\ commit'[b].script = commit[b].script /\ commit'[b].value = commit[b].value
    <3>1. CASE commit' = commit
      BY <3>1
    <3>2. ASSUME NEW c, commit' = [commit EXCEPT ![b].inputs = {c}]
          PROVE  /\ \A d \in Builders : d # b => commit'[d] = commit[d]
                 /\ commit'[b].script = commit[b].script /\ commit'[b].value = commit[b].value
      BY <3>2 DEF Shape
    <3> QED  BY <1>2, <3>1, <3>2 DEF fund_tx
  <2>5. ASSUME NEW d \in Builders, stage'[d] \in {"fund", "closure", "unlock", "ok"}
        PROVE  /\ commit'[d].script = build_reveal_script(payloads[d])
               /\ commit'[d].value = calculate_reveal_input_value(commit'[d].script)
    <3>1. stage[d] \in {"fund", "closure", "unlock", "ok"}
      BY <2>2, <2>3, <2>5
    <3>2. commit'[d].script = commit[d].script /\ commit'[d].value = commit[d].value
      BY <2>4
    <3> QED  BY <3>1, <3>2, Zenon DEF RevealInv
  <2>6. \A d \in Builders : stage'[d] = "ok" => reveal[d] = build_and_sign_reveal_tx(commit'[d])
    BY <2>2, <2>4, Zenon DEF RevealInv
  <2> QED  BY <2>3, <2>5, <2>6, Zenon DEF RevealInv
<1>3. ASSUME NEW b \in Builders, Closure(b) PROVE RevealInv'
  <2>1. PICK s \in {"ok", "unlock"} : Goto(b, s)
    BY <1>3 DEF Closure
  <2>2. stage'[b] = s /\ \A d \in Builders : d # b => stage'[d] = stage[d]
    BY <2>1, OthersAreLeft DEF Stages
  <2>3. stage[b] = "closure" /\ payloads' = payloads /\ commit' = commit
    BY <1>3 DEF Closure
  <2>4. /\ DOMAIN reveal' = Builders
        /\ \A d \in Builders : d # b => reveal'[d] = reveal[d]
    BY <1>3 DEF Closure, RevealInv
  <2>5. s = "ok" => reveal'[b] = build_and_sign_reveal_tx(commit[b])
    BY <1>3, <2>2 DEF Closure, RevealInv, Goto, Shape
  <2> QED  BY <2>2, <2>3, <2>4, <2>5, Zenon DEF RevealInv
<1>4. ASSUME NEW b \in Builders, Unlock(b) PROVE RevealInv'
  <2>1. Goto(b, "err") /\ payloads' = payloads /\ commit' = commit /\ reveal' = reveal
    BY <1>4 DEF Unlock
  <2>2. stage'[b] = "err" /\ \A d \in Builders : d # b => stage'[d] = stage[d]
    BY <2>1, OthersAreLeft DEF Stages
  <2> QED  BY <2>1, <2>2, Zenon DEF RevealInv
<1>5. CASE UNCHANGED builderVars
  BY <1>5 DEF builderVars, RevealInv
<1> QED  BY <1>1, <1>2, <1>3, <1>4, <1>5 DEF BuilderNext

LEMMA RevealInvIsValid == RevealInv => RevealIsValid
<1> SUFFICES ASSUME RevealInv, NEW b \in Builders, stage[b] = "ok"
             PROVE  /\ reveal[b].spends = commit[b]
                    /\ \A i \in DOMAIN payloads[b] :
                         /\ SumOf(reveal[b].script[i]) = payloads[b][i]
                         /\ \A j \in DOMAIN reveal[b].script[i] :
                              reveal[b].script[i][j] \in 1..MaxPush
                    /\ commit[b].value - reveal[b].value >=
                         FeeRate * RevealSize(reveal[b].signature, reveal[b].script)
  BY DEF RevealIsValid
<1> DEFINE ps == payloads[b]
           script == build_reveal_script(ps)
           fee == FeeRate * RevealSize(SignatureSize, script)
<1>1. ps \in Seq(Nat)
  BY DEF RevealInv
<1>2. /\ reveal[b].spends = commit[b] /\ reveal[b].script = script
      /\ reveal[b].signature = SignatureSize /\ reveal[b].value = Amount
      /\ commit[b].value = fee + Amount
  BY DEF RevealInv, build_and_sign_reveal_tx, calculate_reveal_input_value
<1>3. ASSUME NEW i \in DOMAIN ps
      PROVE  /\ SumOf(script[i]) = ps[i]
             /\ \A j \in DOMAIN script[i] : script[i][j] \in 1..MaxPush
  <2>1. ps[i] \in Nat /\ script[i] = Chunks(ps[i])
    BY <1>1 DEF build_reveal_script
  <2> QED  BY <2>1, ChunksCarry
<1>4. fee \in Nat
  BY <1>1, FeeIsNat
<1> HIDE DEF ps, script, fee
<1>5. commit[b].value - reveal[b].value >= fee
  BY <1>2, <1>4, InscriptionConstants
<1> QED  BY <1>2, <1>3, <1>5 DEF ps, fee

\* builder.rs: for any payloads and size of a push, the reveal transaction of a call that
\* succeeds spends its commit transaction, carries every byte of the payloads in pushes
\* that Bitcoin accepts, and pays the fee of its actual size.
THEOREM RevealStaysValid == BuilderSpec => []RevealIsValid
BY CoinsInvInitially, CoinsInvIsKept, RevealInvInitially, RevealInvIsKept, RevealInvIsValid,
   PTL DEF BuilderSpec

=============================================================================

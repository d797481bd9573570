------------------------ MODULE WorkerSessionProofs ------------------------
(***************************************************************************)
(* Proofs about WorkerSession, for any sets of calls and invocations, any  *)
(* limits, either kind of sink and all faults, unless a theorem says       *)
(* otherwise.  In this order: types; what the host keeps whatever well-    *)
(* typed envelopes the worker sends (HandlerInv); what the two ends know   *)
(* of each other (SessionInv); the connection implements BridgeContract;   *)
(* work alone never costs the connection (WorkInv).                        *)
(***************************************************************************)
EXTENDS WorkerSession, SequencesExt, SequenceTheorems, FiniteSetTheorems, TLAPS

----------------------------------------------------------------------------
(* The writer in front of the worker's input keeps its type.               *)

\* Pumping keeps the type of a channel.
LEMMA PumpType ==
  ASSUME NEW t \in InputPipes
  PROVE  Pump(t) \in InputPipes
<1>1. CASE t.writing \/ (t.reserved = <<>> /\ t.ordinary = <<>>)
  BY <1>1 DEF Pump
<1>2. CASE /\ ~(t.writing \/ (t.reserved = <<>> /\ t.ordinary = <<>>))
           /\ t.reserved # <<>> /\ (t.ordinary = <<>> \/ ~t.lastReserved)
  <2>1. Head(t.reserved) \in HostFrames /\ Tail(t.reserved) \in Seq(HostFrames)
    BY <1>2 DEF InputPipes
  <2>2. Append(t.wire, Head(t.reserved)) \in Seq(HostFrames)
    BY <2>1 DEF InputPipes
  <2> QED
    BY <1>2, <2>1, <2>2 DEF Pump, InputPipes
<1>3. CASE /\ ~(t.writing \/ (t.reserved = <<>> /\ t.ordinary = <<>>))
           /\ ~(t.reserved # <<>> /\ (t.ordinary = <<>> \/ ~t.lastReserved))
  <2>1. Head(t.ordinary) \in HostFrames /\ Tail(t.ordinary) \in Seq(HostFrames)
    BY <1>3 DEF InputPipes
  <2>2. Append(t.wire, Head(t.ordinary)) \in Seq(HostFrames)
    BY <2>1 DEF InputPipes
  <2> QED
    BY <1>3, <2>1, <2>2 DEF Pump, InputPipes
<1> QED
  BY <1>1, <1>2, <1>3

\* Writing keeps the type of a channel.
LEMMA WriteType ==
  ASSUME NEW t \in InputPipes, NEW frame \in HostFrames
  PROVE  Write(t, frame) \in InputPipes
<1>1. /\ Append(t.reserved, frame) \in Seq(HostFrames)
      /\ Append(t.ordinary, frame) \in Seq(HostFrames)
  BY DEF InputPipes
<1>2. [t EXCEPT !.reserved = Append(@, frame)] \in InputPipes
  BY <1>1 DEF InputPipes
<1>3. [t EXCEPT !.ordinary = Append(@, frame)] \in InputPipes
  BY <1>1 DEF InputPipes
<1>4. CASE Reserved(frame)
  BY <1>2, <1>4, PumpType DEF Write
<1>5. CASE ~Reserved(frame)
  BY <1>3, <1>5, PumpType DEF Write
<1> QED
  BY <1>4, <1>5

\* Closing the transport keeps the type of a channel.
LEMMA CloseTransportType ==
  ASSUME NEW t \in InputPipes
  PROVE  CloseTransport(t) \in InputPipes
<1>1. <<>> \in Seq(HostFrames)
  OBVIOUS
<1> QED
  BY <1>1 DEF CloseTransport, InputPipes

\* The frames either side writes are frames.
LEMMA FrameTypes ==
  /\ \A c \in Calls : Request(c) \in HostFrames
  /\ \A a \in Actions, ok \in BOOLEAN : Outcome(a, ok) \in HostFrames
  /\ \A c \in Calls, v \in Replies \cup {"duplicate"} : Result(c, v) \in WorkerFrames
  /\ \A a \in Actions : Action(a) \in WorkerFrames
BY DEF Request, Outcome, Result, Action, HostFrames, WorkerFrames

\* What the worker receives is a frame.
LEMMA WorkerReceivesType ==
  ASSUME toWorker \in InputPipes, toWorker.wire # <<>>
  PROVE  /\ Head(toWorker.wire) \in HostFrames
         /\ [toWorker EXCEPT !.wire = Tail(@)] \in InputPipes
<1>1. Head(toWorker.wire) \in HostFrames /\ Tail(toWorker.wire) \in Seq(HostFrames)
  BY DEF InputPipes
<1> QED
  BY <1>1 DEF InputPipes

\* What the host receives is a frame.
LEMMA HostReceivesType ==
  ASSUME toHost \in OutputPipes, toHost.wire # <<>>
  PROVE  /\ Head(toHost.wire) \in WorkerFrames
         /\ [toHost EXCEPT !.wire = Tail(@)] \in OutputPipes
<1>1. Head(toHost.wire) \in WorkerFrames /\ Tail(toHost.wire) \in Seq(WorkerFrames)
  BY DEF OutputPipes
<1> QED
  BY <1>1 DEF OutputPipes

\* A failed connection keeps the types.
LEMMA FailType ==
  ASSUME TypeOK, NEW code \in {"worker_lost", "adapter_failure"}, Fail(code)
  PROVE  /\ hostState' \in {"ready", "closing", "closed", "failed"}
         /\ result' \in [Calls -> {"idle", "pending"} \cup Replies \cup Refusals]
         /\ toWorker' \in InputPipes
<1>1. CASE hostState \in {"closed", "failed"}
  BY <1>1 DEF Fail, TypeOK, HostTypeOK, ChannelTypeOK
<1>2. CASE hostState \notin {"closed", "failed"}
  <2>1. code \in Refusals
    BY DEF Refusals
  <2> QED
    BY <1>2, <2>1, CloseTransportType DEF Fail, TypeOK, HostTypeOK, ChannelTypeOK
<1> QED
  BY <1>1, <1>2

----------------------------------------------------------------------------
(* Type correctness of the host's steps.                                   *)

\* A step of the host keeps the types.
LEMMA HostStepType ==
  ASSUME TypeOK, HostNext
  PROVE  HostTypeOK' /\ ChannelTypeOK'
<1> USE DEF TypeOK, HostTypeOK, ChannelTypeOK
<1>0. \A c \in Calls, code \in Refusals :
        Refuse(c, code) => HostTypeOK' /\ ChannelTypeOK'
  BY DEF Refuse
<1>s. \A c \in Calls : Submit(c) =>
        /\ result' \in [Calls -> {"idle", "pending"} \cup Replies \cup Refusals]
        /\ handler' \in [Actions -> {"none", "running", "settled"}]
        /\ seenRequests' \subseteq Invocations \X Nat
        /\ ChannelTypeOK'
  BY WriteType, FrameTypes DEF Submit
<1>r. /\ ClosedCode \in Refusals
      /\ {"duplicate", "capacity_exceeded", "invalid_request"} \subseteq Refusals
  BY DEF ClosedCode, Refusals
<1>c. DataCalls \subseteq Calls /\ Cancels \subseteq Calls /\ Close \in Calls
  BY DEF Calls
<1>1. ASSUME NEW c \in DataCalls, CallData(c)
      PROVE  HostTypeOK' /\ ChannelTypeOK'
  BY <1>1, <1>0, <1>s, <1>r, <1>c DEF CallData
<1>2. ASSUME NEW x \in Cancels, CallCancel(x)
      PROVE  HostTypeOK' /\ ChannelTypeOK'
  BY <1>2, <1>0, <1>s, <1>r, <1>c DEF CallCancel
<1>3. CASE CallClose
  BY <1>3, <1>0, <1>s, <1>r, <1>c DEF CallClose
<1>4. CASE HostReceives
  <2> DEFINE frame == Head(toHost.wire)
  <2>1. frame \in WorkerFrames /\ toHost' \in OutputPipes
    BY <1>4, HostReceivesType DEF HostReceives
  <2>2. CASE frame.kind = "action" /\ AcceptAction(frame.action)
    <3>1. frame.action \in Actions
      BY <2>1, <2>2 DEF WorkerFrames
    <3>2. RequestId(frame.action) \in Invocations \X Nat
      BY <3>1, ChannelAssumption DEF RequestId, Actions
    <3> QED
      BY <2>1, <2>2, <3>1, <3>2, FailType DEF AcceptAction
  <2>3. CASE /\ frame.kind = "result"
             /\ AcceptResult(frame.call, frame.value)
             /\ UNCHANGED <<handler, seenRequests>>
    <3>1. frame.call \in Calls /\ frame.value \in Replies \cup Refusals
      BY <2>1, <2>3 DEF WorkerFrames, Refusals
    <3> QED
      BY <2>1, <2>3, <3>1, FailType, CloseTransportType DEF AcceptResult
  <2> QED
    BY <1>4, <2>2, <2>3 DEF HostReceives
<1>5. CASE HostReadsEnd
  BY <1>5, FailType DEF HostReadsEnd
<1>6. ASSUME NEW a \in Actions, NEW ok \in BOOLEAN, HandlerSettles(a, ok)
      PROVE  HostTypeOK' /\ ChannelTypeOK'
  BY <1>6, FailType, WriteType, FrameTypes DEF HandlerSettles
<1>7. ASSUME NEW a \in Actions, HandlerOutcomeRejected(a)
      PROVE  HostTypeOK' /\ ChannelTypeOK'
  BY <1>7, FailType DEF HandlerOutcomeRejected
<1>8. CASE HostSinkSettles
  <2>1. [toWorker EXCEPT !.writing = FALSE] \in InputPipes
    BY DEF InputPipes
  <2> QED
    BY <1>8, <2>1, PumpType DEF HostSinkSettles, hostVars
<1>9. CASE HostWriteFails
  BY <1>9, FailType DEF HostWriteFails
<1>10. CASE Terminate
  BY <1>10, FailType DEF Terminate
<1> QED
  BY <1>1, <1>2, <1>3, <1>4, <1>5, <1>6, <1>7, <1>8, <1>9, <1>10 DEF HostNext

----------------------------------------------------------------------------
(* Type correctness of the worker's steps.                                 *)

\* What the worker writes keeps the types.
LEMMA SentType ==
  ASSUME toHost \in OutputPipes, NEW frame \in WorkerFrames
  PROVE  Sent(frame) \in OutputPipes
<1>1. Append(toHost.wire, frame) \in Seq(WorkerFrames)
  BY DEF OutputPipes
<1> QED
  BY <1>1 DEF Sent, OutputPipes

\* A prefix of the workers' frames is a sequence of frames.
LEMMA PrefixType ==
  ASSUME toHost \in OutputPipes, NEW n \in 0..Len(toHost.wire)
  PROVE  SubSeq(toHost.wire, 1, n) \in Seq(WorkerFrames)
<1> DEFINE w == toHost.wire
<1>1. w \in Seq(WorkerFrames) /\ n \in Nat /\ n <= Len(w) /\ Len(w) \in Nat
  BY DEF OutputPipes
<1>2. \A i \in 1..n : w[i] \in WorkerFrames
  BY <1>1
<1> QED
  BY <1>1, <1>2, SubSeqProperties

\* A failing worker keeps the types.
LEMMA WorkerFailsType ==
  ASSUME TypeOK, WorkerFails
  PROVE  /\ workerState' \in {"ready", "closing", "closed", "failed", "dead"}
         /\ cancelled' \subseteq Executions
         /\ pendingActions' \subseteq Actions
         /\ toHost' \in OutputPipes
BY PrefixType DEF WorkerFails, OutputPipes, Interpreting, TypeOK, WorkerTypeOK, ChannelTypeOK

\* A reply keeps the types.
LEMMA ReplyType ==
  ASSUME TypeOK, NEW c \in Calls, NEW value \in Replies \cup {"duplicate"}, Reply(c, value)
  PROVE  /\ workerState' \in {"ready", "closing", "closed", "failed", "dead"}
         /\ task' \in [Calls -> {"none", "running", "waiting", "faulted", "replying", "done"}]
         /\ toHost' \in OutputPipes
<1> USE DEF TypeOK, WorkerTypeOK, ChannelTypeOK
<1>1. Sent(Result(c, value)) \in OutputPipes
  BY SentType, FrameTypes
<1>2. [Sent(Result(c, value)) EXCEPT !.eof = "clean"] \in OutputPipes
  BY <1>1 DEF OutputPipes
<1> QED
  BY <1>1, <1>2 DEF Reply

\* A step of the worker keeps the types.
LEMMA WorkerStepType ==
  ASSUME TypeOK, WorkerNext
  PROVE  WorkerTypeOK' /\ ChannelTypeOK'
<1> USE DEF TypeOK, WorkerTypeOK, ChannelTypeOK
<1>c. Executions \subseteq Calls /\ DataCalls \subseteq Calls
      /\ Cancels \subseteq Calls /\ Close \in Calls
  BY DEF Calls, DataCalls
<1>1. CASE WorkerReceives
  <2> DEFINE frame == Head(toWorker.wire)
  <2>1. frame \in HostFrames /\ toWorker' \in InputPipes
    BY <1>1, WorkerReceivesType DEF WorkerReceives
  <2>2. CASE frame.kind = "request" /\ BeginRequest(frame.call)
    <3> DEFINE c == frame.call
    <3>1. c \in Calls
      BY <2>1, <2>2 DEF HostFrames
    <3>2. CASE ~Admitted(c)
      BY <2>1, <2>2, <3>2, WorkerFailsType DEF BeginRequest
    <3>3. CASE Admitted(c) /\ c = Close
      BY <2>1, <2>2, <3>3, <1>c DEF BeginRequest, BeginClose, Interpreting
    <3>4. CASE Admitted(c) /\ c # Close /\ c \in Cancels
      BY <2>1, <2>2, <3>4, <3>1, ReplyType DEF BeginRequest, BeginCancel, Interpreting, Replies
    <3>5. CASE Admitted(c) /\ c # Close /\ c \notin Cancels
      BY <2>1, <2>2, <3>5, <3>1, ReplyType DEF BeginRequest, BeginData
    <3> QED
      BY <3>2, <3>3, <3>4, <3>5
  <2>3. CASE frame.kind = "outcome" /\ AcceptOutcome(frame.action, frame.ok)
    <3>1. CASE frame.action \notin pendingActions
      BY <2>1, <2>3, <3>1, WorkerFailsType DEF AcceptOutcome
    <3>2. CASE frame.action \in pendingActions
      BY <2>1, <2>3, <3>2 DEF AcceptOutcome
    <3> QED
      BY <3>1, <3>2
  <2> QED
    BY <1>1, <2>2, <2>3 DEF WorkerReceives
<1>2. CASE WorkerReadsEnd
  BY <1>2, WorkerFailsType DEF WorkerReadsEnd
<1>3. ASSUME NEW e \in Executions, RequestAction(e)
      PROVE  WorkerTypeOK' /\ ChannelTypeOK'
  <2> DEFINE a == <<e, sequence[e] + 1>>
  <2>1. a \in Actions /\ a[2] \in 0..MaxActions
    BY <1>3, ChannelAssumption DEF RequestAction, Actions
  <2>2. Sent(Action(a)) \in OutputPipes
    BY <2>1, SentType, FrameTypes
  <2> QED
    BY <1>3, <1>c, <2>1, <2>2 DEF RequestAction
<1>4. ASSUME NEW c \in Calls, NEW value \in Replies, EngineSettles(c, value)
      PROVE  WorkerTypeOK' /\ ChannelTypeOK'
  BY <1>4, ReplyType DEF EngineSettles
<1>5. ASSUME NEW c \in Calls, ReplyWritten(c)
      PROVE  WorkerTypeOK' /\ ChannelTypeOK'
  <2>1. [toHost EXCEPT !.eof = "clean"] \in OutputPipes
    BY DEF OutputPipes
  <2> QED
    BY <1>5, <2>1 DEF ReplyWritten
<1>6. ASSUME NEW c \in DataCalls, ResultNotEncodable(c)
      PROVE  WorkerTypeOK' /\ ChannelTypeOK'
  BY <1>6, <1>c, WorkerFailsType DEF ResultNotEncodable
<1>7. CASE Crash
  BY <1>7, PrefixType DEF Crash, OutputPipes
<1> QED
  BY <1>1, <1>2, <1>3, <1>4, <1>5, <1>6, <1>7 DEF WorkerNext

----------------------------------------------------------------------------
\* In every reachable state both peers and both pipes hold values of their type.
THEOREM TypeCorrect == Spec => []TypeOK
<1>1. Init => TypeOK
  <2>1. <<>> \in Seq(HostFrames) /\ <<>> \in Seq(WorkerFrames)
    OBVIOUS
  <2> QED
    BY <2>1, ChannelAssumption
    DEF Init, HostInit, WorkerInit, ChannelInit, TypeOK, HostTypeOK, WorkerTypeOK,
        ChannelTypeOK, InputPipes, OutputPipes
<1>2. TypeOK /\ [Next]_vars => TypeOK'
  <2> SUFFICES ASSUME TypeOK, [Next]_vars PROVE TypeOK'
    OBVIOUS
  <2>1. CASE HostStep
    BY <2>1, HostStepType DEF HostStep, workerVars, TypeOK, WorkerTypeOK
  <2>2. CASE WorkerStep
    BY <2>2, WorkerStepType DEF WorkerStep, hostVars, TypeOK, HostTypeOK
  <2>3. CASE UNCHANGED vars
    BY <2>3 DEF vars, hostVars, workerVars, TypeOK, HostTypeOK, WorkerTypeOK, ChannelTypeOK
  <2> QED
    BY <2>1, <2>2, <2>3 DEF Next
<1> QED
  BY <1>1, <1>2, PTL DEF Spec

----------------------------------------------------------------------------
(* Handlers.  HandlersOfPendingOnly and NoRepeatedRequest are not          *)
(* inductive: a closed connection must also owe nothing, or a handler      *)
(* could outlive it, and a handler that was started must be remembered by  *)
(* seenRequests, or a second one could start.                              *)

HandlerInv ==
  /\ HandlersOfPendingOnly
  /\ hostState = "closed" => Pending = {}
  /\ \A a \in Actions : handler[a] # "none" => RequestId(a) \in seenRequests
  /\ NoRepeatedRequest

\* #fail leaves the handlers alone, and no obligation to a failed connection.
LEMMA FailKeepsHandlerInv ==
  ASSUME TypeOK, HandlerInv, NEW code \in {"worker_lost", "adapter_failure"}, Fail(code),
         UNCHANGED <<handler, seenRequests>>
  PROVE  HandlerInv'
<1>1. CASE hostState \in {"closed", "failed"}
  BY <1>1 DEF Fail, HandlerInv, HandlersOfPendingOnly, NoRepeatedRequest, Pending, Running
<1>2. CASE hostState \notin {"closed", "failed"}
  BY <1>2 DEF Fail, HandlerInv, HandlersOfPendingOnly, NoRepeatedRequest, Running
<1> QED
  BY <1>1, <1>2

\* A handler that settles can only relax the invariant.
LEMMA SettleKeepsHandlerInv ==
  ASSUME TypeOK, HandlerInv, NEW b \in Actions, handler[b] = "running",
         handler' = [handler EXCEPT ![b] = "settled"], UNCHANGED seenRequests,
         \/ UNCHANGED <<hostState, result>>
         \/ \E code \in {"worker_lost", "adapter_failure"} : Fail(code)
  PROVE  HandlerInv'
<1> USE DEF TypeOK, HostTypeOK, HandlerInv, HandlersOfPendingOnly, Running
<1>1. \A a \in Actions : /\ handler'[a] # "none" => handler[a] # "none"
                         /\ handler'[a] = "running" => handler[a] = "running"
  OBVIOUS
<1>2. NoRepeatedRequest'
  BY <1>1 DEF NoRepeatedRequest
<1>3. CASE UNCHANGED <<hostState, result>>
  BY <1>1, <1>2, <1>3 DEF Pending
<1>4. CASE \E code \in {"worker_lost", "adapter_failure"} : Fail(code)
  BY <1>1, <1>2, <1>4 DEF Fail, Pending
<1> QED
  BY <1>3, <1>4

\* A step of the host keeps the handler invariant.
LEMMA HostStepKeepsHandlerInv ==
  ASSUME TypeOK, HandlerInv, HostNext
  PROVE  HandlerInv'
<1> USE DEF TypeOK, HostTypeOK
<1>c. DataCalls \subseteq Calls /\ Cancels \subseteq Calls /\ Close \in Calls
  BY DEF Calls
<1>0. ASSUME NEW c \in Calls, result[c] = "idle", NEW code \in Refusals, Refuse(c, code)
      PROVE  HandlerInv'
  BY <1>0 DEF Refuse, HandlerInv, HandlersOfPendingOnly, NoRepeatedRequest, Pending, Running, Refusals
<1>s. ASSUME NEW c \in Calls, result[c] = "idle", Submit(c), hostState = "ready",
             hostState' \in {"ready", "closing"}
      PROVE  HandlerInv'
  BY <1>s DEF Submit, HandlerInv, HandlersOfPendingOnly, NoRepeatedRequest, Running
<1>r. /\ ClosedCode \in Refusals
      /\ {"duplicate", "capacity_exceeded", "invalid_request"} \subseteq Refusals
  BY DEF ClosedCode, Refusals
<1>1. ASSUME NEW c \in DataCalls, CallData(c)
      PROVE  HandlerInv'
  BY <1>1, <1>0, <1>s, <1>r, <1>c DEF CallData
<1>2. ASSUME NEW x \in Cancels, CallCancel(x)
      PROVE  HandlerInv'
  BY <1>2, <1>0, <1>s, <1>r, <1>c DEF CallCancel
<1>3. CASE CallClose
  BY <1>3, <1>0, <1>s, <1>r, <1>c DEF CallClose
<1>4. CASE HostReceives
  <2> DEFINE frame == Head(toHost.wire)
  <2>1. frame \in WorkerFrames /\ hostState \in {"ready", "closing"}
    BY <1>4, HostReceivesType DEF HostReceives, ChannelTypeOK
  <2>2. CASE frame.kind = "action" /\ AcceptAction(frame.action)
    <3> DEFINE b == frame.action
    <3>1. b \in Actions
      BY <2>1, <2>2 DEF WorkerFrames
    <3>2. CASE ActionAccepted(b)
      <4>1. RequestId(b) \notin seenRequests /\ handler[b] = "none"
        BY <3>1, <3>2 DEF ActionAccepted, HandlerInv
      <4>2. /\ handler' = [handler EXCEPT ![b] = "running"]
            /\ seenRequests' = seenRequests \cup {RequestId(b)}
            /\ UNCHANGED <<hostState, result>>
        BY <2>2, <3>2 DEF AcceptAction
      <4>3. HandlersOfPendingOnly'
        BY <3>1, <3>2, <4>2 DEF ActionAccepted, HandlerInv, HandlersOfPendingOnly, Running
      <4>4. NoRepeatedRequest'
        BY <3>1, <4>1, <4>2 DEF HandlerInv, NoRepeatedRequest
      <4>5. \A a \in Actions : handler'[a] # "none" => RequestId(a) \in seenRequests'
        BY <3>1, <4>2 DEF HandlerInv
      <4> QED
        BY <2>1, <4>2, <4>3, <4>4, <4>5 DEF HandlerInv, RequestId
    <3>3. CASE ~ActionAccepted(b)
      BY <2>2, <3>3, FailKeepsHandlerInv DEF AcceptAction
    <3> QED
      BY <3>2, <3>3
  <2>3. CASE /\ frame.kind = "result"
             /\ AcceptResult(frame.call, frame.value)
             /\ UNCHANGED <<handler, seenRequests>>
    <3> DEFINE c == frame.call
    <3>1. c \in Calls /\ frame.value \in Replies \cup {"duplicate"} /\ frame.value # "pending"
      BY <2>1, <2>3 DEF WorkerFrames, Replies
    <3>2. CASE ResultAccepted(c)
      <4>1. /\ result' = [result EXCEPT ![c] = frame.value]
            /\ hostState' = IF c = Close THEN "closed" ELSE hostState
        BY <2>3, <3>2 DEF AcceptResult
      <4>2. HandlersOfPendingOnly'
        BY <2>1, <2>3, <3>1, <3>2, <4>1 DEF ResultAccepted, HandlerInv, HandlersOfPendingOnly, Running
      <4>3. hostState' = "closed" => Pending' = {}
        BY <2>1, <3>1, <3>2, <4>1 DEF ResultAccepted, Pending
      <4> QED
        BY <2>3, <4>2, <4>3 DEF HandlerInv, NoRepeatedRequest
    <3>3. CASE ~ResultAccepted(c)
      BY <2>3, <3>3, FailKeepsHandlerInv DEF AcceptResult
    <3> QED
      BY <3>2, <3>3
  <2> QED
    BY <1>4, <2>2, <2>3 DEF HostReceives
<1>5. CASE HostReadsEnd
  BY <1>5, FailKeepsHandlerInv DEF HostReadsEnd
<1>6. ASSUME NEW a \in Actions, NEW ok \in BOOLEAN, HandlerSettles(a, ok)
      PROVE  HandlerInv'
  BY <1>6, SettleKeepsHandlerInv DEF HandlerSettles
<1>7. ASSUME NEW a \in Actions, HandlerOutcomeRejected(a)
      PROVE  HandlerInv'
  BY <1>7, SettleKeepsHandlerInv DEF HandlerOutcomeRejected
<1>8. CASE HostSinkSettles
  BY <1>8 DEF HostSinkSettles, hostVars, HandlerInv, HandlersOfPendingOnly, NoRepeatedRequest, Pending, Running
<1>9. CASE HostWriteFails
  BY <1>9, FailKeepsHandlerInv DEF HostWriteFails
<1>10. CASE Terminate
  BY <1>10, FailKeepsHandlerInv DEF Terminate
<1> QED
  BY <1>1, <1>2, <1>3, <1>4, <1>5, <1>6, <1>7, <1>8, <1>9, <1>10 DEF HostNext

\* The handler invariant holds in every reachable state.
LEMMA HandlerInvariant == Spec => []HandlerInv
<1>1. Init => HandlerInv
  BY DEF Init, HostInit, HandlerInv, HandlersOfPendingOnly, NoRepeatedRequest, Pending, Running
<1>2. TypeOK /\ HandlerInv /\ [Next]_vars => HandlerInv'
  <2> SUFFICES ASSUME TypeOK, HandlerInv, [Next]_vars PROVE HandlerInv'
    OBVIOUS
  <2>1. CASE HostStep
    BY <2>1, HostStepKeepsHandlerInv DEF HostStep
  <2>2. CASE UNCHANGED hostVars
    BY <2>2 DEF hostVars, HandlerInv, HandlersOfPendingOnly, NoRepeatedRequest, Pending, Running
  <2> QED
    BY <2>1, <2>2 DEF Next, WorkerStep, vars
<1> QED
  BY <1>1, <1>2, TypeCorrect, PTL DEF Spec

\* While the connection stands no handler runs for an execution that was already
\* given its result, whatever the worker sends (#accept, #resolveAction).
THEOREM HandlersOnlyForPending == Spec => []HandlersOfPendingOnly
BY HandlerInvariant, PTL DEF HandlerInv

\* No action request ever runs two handlers, whatever the worker repeats and
\* however the host uses invocation ids (#acceptAction's seenActionRequests).
THEOREM RequestsRunOnce == Spec => []NoRepeatedRequest
BY HandlerInvariant, PTL DEF HandlerInv

----------------------------------------------------------------------------
(* What the two ends know of each other: the frames under way, the calls,   *)
(* the actions and the cancellations.                                      *)

\* The connection is neither closed nor failed.
Open == hostState \in {"ready", "closing"}

\* Two frames of the same request, outcome, action or result.
Same(f, g) ==
  /\ f.kind = g.kind
  /\ IF f.kind \in {"request", "result"} THEN f.call = g.call ELSE f.action = g.action

\* No two frames of s say the same; no frame of s says what one of t says.
Once(s) == \A i, j \in DOMAIN s : i < j => ~Same(s[i], s[j])
Apart(s, t) == \A f \in ToSet(s), g \in ToSet(t) : ~Same(f, g)

\* Nothing is said twice in the host's writer and its pipe.
PipeOnce(t) ==
  /\ Once(t.ordinary) /\ Once(t.reserved) /\ Once(t.wire)
  /\ Apart(t.ordinary, t.reserved) /\ Apart(t.ordinary, t.wire) /\ Apart(t.reserved, t.wire)

\* The frames under way to the worker, and to the host.
FramesOf(t) == ToSet(t.ordinary) \cup ToSet(t.reserved) \cup ToSet(t.wire)
Inbound  == FramesOf(toWorker)
Outbound == ToSet(toHost.wire)

\* Every request, outcome, action and result is under way once at most.
OnceInv == PipeOnce(toWorker) /\ Once(toHost.wire)

\* A call the worker may work for.
Asked(c) == result[c] # "idle" /\ (Open => result[c] = "pending")
AtWork == {"running", "waiting", "faulted"}
\* An execution that is under way to the worker or at work there.
Live(e) == Request(e) \in Inbound \/ task[e] \in AtWork

\* What the worker may answer.
ValueOf(c) == IF c = Close THEN {"closed"} ELSE Replies \ {"closed"}

\* A call is in one place: its request under way, at work, or answered; the worker
\* only works for what the host waits for, and at most one execution of an
\* invocation is live.
CallsInv ==
  /\ \A c \in Calls : Request(c) \in Inbound => task[c] = "none" /\ Asked(c)
  /\ \A c \in Calls : task[c] \in AtWork => Asked(c)
  /\ \A c \in Calls : task[c] # "none" => result[c] # "idle"
  /\ \A f \in Outbound : f.kind = "result" =>
       task[f.call] \in {"replying", "done"} /\ Asked(f.call) /\ f.value \in ValueOf(f.call)
  /\ \A c, d \in Executions : c # d /\ InvocationOf[c] = InvocationOf[d] => ~(Live(c) /\ Live(d))

\* An execution is at its last action: the earlier ones have settled, and that one
\* is asked for, performed or its outcome under way.
ActionsInv ==
  /\ \A e \in Executions : task[e] = "none" => sequence[e] = 0
  /\ \A a \in pendingActions : a[2] = sequence[a[1]] /\ task[a[1]] # "running"
  /\ \A e \in Executions, n \in 1..MaxActions :
       n < sequence[e] \/ (n = sequence[e] /\ task[e] = "running") => handler[<<e, n>>] = "settled"
  /\ \A e \in Executions, n \in 1..MaxActions : handler[<<e, n>>] # "none" => n <= sequence[e]
  /\ \A f \in Outbound : f.kind = "action" =>
       f.action[2] = sequence[f.action[1]] /\ handler[f.action] = "none"
  /\ \A f \in Inbound : f.kind = "outcome" => handler[f.action] = "settled"

\* That c is cancelled shows in the results r, or in the first frames of w.
Shown(c, i, w, r) ==
  \/ r[Close] = "pending"
  \/ \E x \in Cancels : /\ InvocationOf[x] = InvocationOf[c]
                        /\ \/ r[x] = "accepted"
                           \/ \E j \in DOMAIN w : j < i /\ w[j] = Result(x, "accepted")

\* Of every cancelled execution the host knows, or will know; and it knows before
\* it reads that the execution was cancelled.
CancelledKnown(w, r) == \A c \in cancelled : Shown(c, Len(w) + 1, w, r)

AnswersKnown(w, r) ==
  \A i \in DOMAIN w : w[i].kind = "result" /\ w[i].value = "cancelled" =>
                        w[i].call \in Executions /\ Shown(w[i].call, i, w, r)

\* While the worker listens its output is open, and the host learns of every
\* cancellation in time.
CancelInv ==
  /\ Listening => toHost.eof = "open"
  /\ Open /\ toHost.eof = "open" => CancelledKnown(toHost.wire, result)
  /\ Open => AnswersKnown(toHost.wire, result)

\* The inductive invariant of the connection.
SessionInv == OnceInv /\ CallsInv /\ ActionsInv /\ CancelInv

----------------------------------------------------------------------------
(* Frames in order.                                                        *)

\* The two arguments of Same may change places.
LEMMA SameBothWays == \A f, g : Same(f, g) <=> Same(g, f)
BY DEF Same

\* A frame that is not there yet goes to the end.
LEMMA OnceAppend ==
  ASSUME NEW S, NEW s \in Seq(S), Once(s), NEW x \in S, \A y \in ToSet(s) : ~Same(y, x)
  PROVE  Once(Append(s, x)) /\ ToSet(Append(s, x)) = ToSet(s) \cup {x}
<1> DEFINE q == Append(s, x)
<1>1. /\ DOMAIN s = 1..Len(s) /\ Len(s) \in Nat
      /\ DOMAIN q = 1..(Len(s) + 1)
      /\ \A i \in 1..Len(s) : q[i] = s[i]
      /\ q[Len(s) + 1] = x
  BY AppendProperties, LenProperties
<1> HIDE DEF q
<1>2. /\ \A i \in DOMAIN q : i \in DOMAIN s \/ i = Len(s) + 1
      /\ \A i \in DOMAIN s : i \in DOMAIN q /\ i < Len(s) + 1
      /\ Len(s) + 1 \in DOMAIN q
  BY <1>1
<1>3. ToSet(q) = ToSet(s) \cup {x}
  BY <1>1, <1>2 DEF ToSet
<1>4. ASSUME NEW i \in DOMAIN q, NEW j \in DOMAIN q, i < j PROVE ~Same(q[i], q[j])
  <2>1. i \in DOMAIN s
    BY <1>1, <1>4
  <2>2. CASE j \in DOMAIN s
    BY <1>1, <1>4, <2>1, <2>2 DEF Once
  <2>3. CASE j = Len(s) + 1
    <3>1. q[j] = x /\ q[i] \in ToSet(s)
      BY <1>1, <2>1, <2>3 DEF ToSet
    <3> QED
      BY <3>1
  <2> QED
    BY <1>2, <2>2, <2>3
<1> QED
  BY <1>3, <1>4 DEF Once, q

\* The first frame is taken.
LEMMA OnceTail ==
  ASSUME NEW S, NEW s \in Seq(S), s # <<>>, Once(s)
  PROVE  /\ Head(s) \in S /\ Tail(s) \in Seq(S) /\ Once(Tail(s))
         /\ ToSet(s) = {Head(s)} \cup ToSet(Tail(s))
         /\ \A y \in ToSet(Tail(s)) : y \in S /\ ~Same(y, Head(s))
         /\ Len(Tail(s)) + 1 = Len(s) /\ Len(s) \in Nat /\ DOMAIN Tail(s) = 1..Len(Tail(s))
         /\ DOMAIN s = 1..Len(s) /\ 1 \in DOMAIN s /\ Head(s) = s[1]
         /\ \A i \in DOMAIN Tail(s) : i + 1 \in DOMAIN s /\ Tail(s)[i] = s[i + 1]
<1>1. /\ Head(s) = s[1] /\ Head(s) \in S /\ Tail(s) \in Seq(S)
      /\ Len(s) \in Nat \ {0} /\ DOMAIN s = 1..Len(s) /\ DOMAIN Tail(s) = 1..(Len(s) - 1)
      /\ Len(Tail(s)) = Len(s) - 1
      /\ \A i \in 1..(Len(s) - 1) : Tail(s)[i] = s[i + 1]
      /\ \A i \in 1..Len(s) : s[i] \in S
  BY HeadTailProperties, LenProperties, EmptySeq, ElementOfSeq
<1>2. /\ \A i \in DOMAIN Tail(s) : i + 1 \in DOMAIN s /\ 1 < i + 1 /\ Tail(s)[i] = s[i + 1]
      /\ \A i \in DOMAIN s : i = 1 \/ (i - 1 \in DOMAIN Tail(s) /\ Tail(s)[i - 1] = s[i])
      /\ 1 \in DOMAIN s
  BY <1>1
<1>3. Once(Tail(s))
  <2> SUFFICES ASSUME NEW i \in DOMAIN Tail(s), NEW j \in DOMAIN Tail(s), i < j
               PROVE  ~Same(Tail(s)[i], Tail(s)[j])
    BY DEF Once
  <2>1. i + 1 < j + 1
    BY <1>1
  <2> QED
    BY <1>2, <2>1 DEF Once
<1>4. ToSet(s) = {Head(s)} \cup ToSet(Tail(s))
  BY <1>1, <1>2 DEF ToSet
<1>5. ASSUME NEW y \in ToSet(Tail(s)) PROVE y \in S /\ ~Same(y, Head(s))
  <2>1. PICK i \in DOMAIN Tail(s) : y = s[i + 1] /\ i + 1 \in DOMAIN s /\ 1 < i + 1
    BY <1>2 DEF ToSet
  <2>2. ~Same(s[1], y)
    BY <1>2, <2>1 DEF Once
  <2> QED
    BY <1>1, <2>1, <2>2, SameBothWays
<1>6. Len(Tail(s)) + 1 = Len(s) /\ DOMAIN Tail(s) = 1..Len(Tail(s))
  BY <1>1
<1> QED
  BY <1>1, <1>2, <1>3, <1>4, <1>5, <1>6

\* The first frames remain.
LEMMA OncePrefix ==
  ASSUME NEW S, NEW s \in Seq(S), NEW n \in 0..Len(s)
  PROVE  /\ SubSeq(s, 1, n) \in Seq(S) /\ Len(SubSeq(s, 1, n)) = n
         /\ DOMAIN SubSeq(s, 1, n) \subseteq DOMAIN s
         /\ \A i \in DOMAIN SubSeq(s, 1, n) : SubSeq(s, 1, n)[i] = s[i]
         /\ \A i \in DOMAIN SubSeq(s, 1, n), j \in DOMAIN s : j < i => j \in DOMAIN SubSeq(s, 1, n)
         /\ Once(s) => Once(SubSeq(s, 1, n))
         /\ ToSet(SubSeq(s, 1, n)) \subseteq ToSet(s)
<1> DEFINE q == SubSeq(s, 1, n)
<1>1. /\ Len(s) \in Nat /\ DOMAIN s = 1..Len(s) /\ n \in Nat /\ n <= Len(s)
      /\ \A i \in 1..n : s[i] \in S
  BY LenProperties, ElementOfSeq
<1>2. q \in Seq(S) /\ Len(q) = n /\ DOMAIN q = 1..n /\ \A i \in 1..n : q[i] = s[i]
  BY <1>1, SubSeqProperties
<1> HIDE DEF q
<1>3. \A i \in DOMAIN q : i \in DOMAIN s /\ q[i] = s[i]
  BY <1>1, <1>2
<1>4. \A i \in DOMAIN q, j \in DOMAIN s : j < i => j \in DOMAIN q
  BY <1>1, <1>2
<1>5. Once(s) => Once(q)
  BY <1>3 DEF Once
<1>6. ToSet(q) \subseteq ToSet(s)
  BY <1>3 DEF ToSet
<1> QED
  BY <1>2, <1>3, <1>4, <1>5, <1>6 DEF q

----------------------------------------------------------------------------
(* The frames in the host's writer and its pipe.                           *)

\* The head of one queue moves behind another.
LEMMA MoveHead ==
  ASSUME NEW S, NEW s \in Seq(S), NEW w \in Seq(S), NEW o \in Seq(S), s # <<>>,
         Once(s), Once(w), Apart(s, w), Apart(o, s), Apart(o, w)
  PROVE  /\ Once(Tail(s)) /\ Once(Append(w, Head(s)))
         /\ Apart(Tail(s), Append(w, Head(s))) /\ Apart(o, Tail(s)) /\ Apart(o, Append(w, Head(s)))
         /\ ToSet(Tail(s)) \cup ToSet(Append(w, Head(s))) = ToSet(s) \cup ToSet(w)
<1>1. /\ Head(s) \in S /\ Once(Tail(s)) /\ ToSet(s) = {Head(s)} \cup ToSet(Tail(s))
      /\ \A y \in ToSet(Tail(s)) : ~Same(y, Head(s))
  BY OnceTail
<1>2. \A y \in ToSet(w) : ~Same(y, Head(s))
  BY <1>1, SameBothWays DEF Apart
<1>3. Once(Append(w, Head(s))) /\ ToSet(Append(w, Head(s))) = ToSet(w) \cup {Head(s)}
  BY <1>1, <1>2, OnceAppend
<1> QED
  BY <1>1, <1>3 DEF Apart

\* The writer's pump moves a frame, and loses none.
LEMMA PumpFrames ==
  ASSUME NEW t \in InputPipes, PipeOnce(t)
  PROVE  PipeOnce(Pump(t)) /\ FramesOf(Pump(t)) = FramesOf(t) /\ Pump(t).closed = t.closed
<1>0. /\ t.ordinary \in Seq(HostFrames) /\ t.reserved \in Seq(HostFrames) /\ t.wire \in Seq(HostFrames)
      /\ t = [ordinary |-> t.ordinary, reserved |-> t.reserved, lastReserved |-> t.lastReserved,
              writing |-> t.writing, wire |-> t.wire, closed |-> t.closed]
  BY DEF InputPipes
<1>1. CASE t.writing \/ (t.reserved = <<>> /\ t.ordinary = <<>>)
  BY <1>1 DEF Pump
<1>2. CASE /\ ~(t.writing \/ (t.reserved = <<>> /\ t.ordinary = <<>>))
           /\ t.reserved # <<>> /\ (t.ordinary = <<>> \/ ~t.lastReserved)
  <2> DEFINE q == Pump(t)
  <2>1. /\ q.wire = Append(t.wire, Head(t.reserved)) /\ q.reserved = Tail(t.reserved)
        /\ q.ordinary = t.ordinary /\ q.closed = t.closed
    BY <1>0, <1>2 DEF Pump
  <2>2. Apart(t.ordinary, t.reserved) /\ Apart(t.ordinary, t.wire) /\ Apart(t.reserved, t.wire)
        /\ Once(t.ordinary) /\ Once(t.reserved) /\ Once(t.wire)
    BY DEF PipeOnce
  <2>3. /\ Once(Tail(t.reserved)) /\ Once(Append(t.wire, Head(t.reserved)))
        /\ Apart(Tail(t.reserved), Append(t.wire, Head(t.reserved)))
        /\ Apart(t.ordinary, Tail(t.reserved)) /\ Apart(t.ordinary, Append(t.wire, Head(t.reserved)))
        /\ ToSet(Tail(t.reserved)) \cup ToSet(Append(t.wire, Head(t.reserved))) = ToSet(t.reserved) \cup ToSet(t.wire)
    BY <1>0, <1>2, <2>2, MoveHead
  <2> HIDE DEF q
  <2>4. PipeOnce(q)
    BY <2>1, <2>2, <2>3 DEF PipeOnce
  <2>5. FramesOf(q) = FramesOf(t)
    BY <2>1, <2>3 DEF FramesOf
  <2> QED
    BY <2>1, <2>4, <2>5 DEF q
<1>3. CASE /\ ~(t.writing \/ (t.reserved = <<>> /\ t.ordinary = <<>>))
           /\ ~(t.reserved # <<>> /\ (t.ordinary = <<>> \/ ~t.lastReserved))
  <2> DEFINE q == Pump(t)
  <2>1. /\ q.wire = Append(t.wire, Head(t.ordinary)) /\ q.ordinary = Tail(t.ordinary)
        /\ q.reserved = t.reserved /\ q.closed = t.closed /\ t.ordinary # <<>>
    BY <1>0, <1>3 DEF Pump
  <2>2. Apart(t.ordinary, t.reserved) /\ Apart(t.ordinary, t.wire) /\ Apart(t.reserved, t.wire)
        /\ Once(t.ordinary) /\ Once(t.reserved) /\ Once(t.wire) /\ Apart(t.reserved, t.ordinary)
    BY SameBothWays DEF PipeOnce, Apart
  <2>3. /\ Once(Tail(t.ordinary)) /\ Once(Append(t.wire, Head(t.ordinary)))
        /\ Apart(Tail(t.ordinary), Append(t.wire, Head(t.ordinary)))
        /\ Apart(t.reserved, Tail(t.ordinary)) /\ Apart(t.reserved, Append(t.wire, Head(t.ordinary)))
        /\ ToSet(Tail(t.ordinary)) \cup ToSet(Append(t.wire, Head(t.ordinary))) = ToSet(t.ordinary) \cup ToSet(t.wire)
    BY <1>0, <2>1, <2>2, MoveHead
  <2> HIDE DEF q
  <2>4. Apart(Tail(t.ordinary), t.reserved)
    BY <2>3, SameBothWays DEF Apart
  <2>5. PipeOnce(q)
    BY <2>1, <2>2, <2>3, <2>4 DEF PipeOnce
  <2>6. FramesOf(q) = FramesOf(t)
    BY <2>1, <2>3 DEF FramesOf
  <2> QED
    BY <2>1, <2>5, <2>6 DEF q
<1> QED
  BY <1>1, <1>2, <1>3

\* Writing a frame that is not there yet adds it.
LEMMA WriteFrames ==
  ASSUME NEW t \in InputPipes, PipeOnce(t), NEW frame \in HostFrames,
         \A f \in FramesOf(t) : ~Same(f, frame)
  PROVE  PipeOnce(Write(t, frame)) /\ FramesOf(Write(t, frame)) = FramesOf(t) \cup {frame}
<1>0. /\ t.ordinary \in Seq(HostFrames) /\ t.reserved \in Seq(HostFrames) /\ t.wire \in Seq(HostFrames)
      /\ Append(t.reserved, frame) \in Seq(HostFrames) /\ Append(t.ordinary, frame) \in Seq(HostFrames)
  BY DEF InputPipes
<1>1. /\ Once(t.ordinary) /\ Once(t.reserved) /\ Once(t.wire)
      /\ Apart(t.ordinary, t.reserved) /\ Apart(t.ordinary, t.wire) /\ Apart(t.reserved, t.wire)
  BY DEF PipeOnce
<1>2. /\ \A f \in ToSet(t.ordinary) : ~Same(f, frame) /\ ~Same(frame, f)
      /\ \A f \in ToSet(t.reserved) : ~Same(f, frame) /\ ~Same(frame, f)
      /\ \A f \in ToSet(t.wire) : ~Same(f, frame) /\ ~Same(frame, f)
  BY SameBothWays DEF FramesOf
<1>3. CASE Reserved(frame)
  <2> DEFINE q == [t EXCEPT !.reserved = Append(@, frame)]
  <2>1. /\ q \in InputPipes /\ q.reserved = Append(t.reserved, frame)
        /\ q.ordinary = t.ordinary /\ q.wire = t.wire
    BY <1>0 DEF InputPipes
  <2>2. Once(Append(t.reserved, frame)) /\ ToSet(Append(t.reserved, frame)) = ToSet(t.reserved) \cup {frame}
    BY <1>0, <1>1, <1>2, OnceAppend
  <2>3. Write(t, frame) = Pump(q)
    BY <1>3 DEF Write
  <2> HIDE DEF q
  <2>4. PipeOnce(q)
    BY <1>1, <1>2, <2>1, <2>2 DEF PipeOnce, Apart
  <2>5. FramesOf(q) = FramesOf(t) \cup {frame}
    BY <2>1, <2>2 DEF FramesOf
  <2> QED
    BY <2>1, <2>3, <2>4, <2>5, PumpFrames
<1>4. CASE ~Reserved(frame)
  <2> DEFINE q == [t EXCEPT !.ordinary = Append(@, frame)]
  <2>1. /\ q \in InputPipes /\ q.ordinary = Append(t.ordinary, frame)
        /\ q.reserved = t.reserved /\ q.wire = t.wire
    BY <1>0 DEF InputPipes
  <2>2. Once(Append(t.ordinary, frame)) /\ ToSet(Append(t.ordinary, frame)) = ToSet(t.ordinary) \cup {frame}
    BY <1>0, <1>1, <1>2, OnceAppend
  <2>3. Write(t, frame) = Pump(q)
    BY <1>4 DEF Write
  <2> HIDE DEF q
  <2>4. PipeOnce(q)
    BY <1>1, <1>2, <2>1, <2>2 DEF PipeOnce, Apart
  <2>5. FramesOf(q) = FramesOf(t) \cup {frame}
    BY <2>1, <2>2 DEF FramesOf
  <2> QED
    BY <2>1, <2>3, <2>4, <2>5, PumpFrames
<1> QED
  BY <1>3, <1>4

\* Closing the transport loses the frames that wait.
LEMMA CloseFrames ==
  ASSUME NEW t \in InputPipes, PipeOnce(t)
  PROVE  PipeOnce(CloseTransport(t)) /\ FramesOf(CloseTransport(t)) \subseteq FramesOf(t)
<1> DEFINE q == CloseTransport(t)
<1>1. q.ordinary = <<>> /\ q.reserved = <<>> /\ q.wire = t.wire
  BY DEF CloseTransport, InputPipes
<1>2. ToSet(<<>>) = {} /\ Once(<<>>)
  BY DEF ToSet, Once
<1> HIDE DEF q
<1>3. PipeOnce(q)
  BY <1>1, <1>2 DEF PipeOnce, Apart
<1>4. FramesOf(q) \subseteq FramesOf(t)
  BY <1>1, <1>2 DEF FramesOf
<1> QED
  BY <1>3, <1>4 DEF q

\* The worker takes the first frame of its input.
LEMMA TakeInput ==
  ASSUME NEW t \in InputPipes, PipeOnce(t), t.wire # <<>>, NEW q, q = [t EXCEPT !.wire = Tail(@)]
  PROVE  /\ PipeOnce(q) /\ Head(t.wire) \in FramesOf(t) /\ Head(t.wire) \in HostFrames
         /\ FramesOf(q) \subseteq FramesOf(t)
         /\ \A f \in FramesOf(q) : ~Same(f, Head(t.wire))
<1>1. t.wire \in Seq(HostFrames)
  BY DEF InputPipes
<1>2. q.ordinary = t.ordinary /\ q.reserved = t.reserved /\ q.wire = Tail(t.wire)
  BY DEF InputPipes
<1>3. /\ Once(t.ordinary) /\ Once(t.reserved) /\ Once(t.wire)
      /\ Apart(t.ordinary, t.reserved) /\ Apart(t.ordinary, t.wire) /\ Apart(t.reserved, t.wire)
  BY DEF PipeOnce
<1>4. /\ Head(t.wire) \in HostFrames /\ Once(Tail(t.wire))
      /\ ToSet(t.wire) = {Head(t.wire)} \cup ToSet(Tail(t.wire))
      /\ \A y \in ToSet(Tail(t.wire)) : ~Same(y, Head(t.wire))
  BY <1>1, <1>3, OnceTail
<1>5. PipeOnce(q)
  BY <1>2, <1>3, <1>4 DEF PipeOnce, Apart
<1>6. FramesOf(q) \subseteq FramesOf(t) /\ Head(t.wire) \in FramesOf(t)
  BY <1>2, <1>4 DEF FramesOf
<1>7. \A f \in FramesOf(q) : ~Same(f, Head(t.wire))
  BY <1>2, <1>3, <1>4 DEF FramesOf, Apart
<1> QED
  BY <1>4, <1>5, <1>6, <1>7

----------------------------------------------------------------------------
(* What a step may do without harm.                                        *)

\* The frames under way are frames.
LEMMA FramesTyped ==
  ASSUME TypeOK
  PROVE  /\ Inbound \subseteq HostFrames /\ Outbound \subseteq WorkerFrames
         /\ \A f \in Inbound : f.kind = "request" => f.call \in Calls /\ f = Request(f.call)
         /\ \A f \in Inbound : f.kind = "outcome" => f.action \in Actions
         /\ \A f \in Outbound : f.kind = "result" => f.call \in Calls
         /\ \A f \in Outbound : f.kind = "action" => f.action \in Actions
<1>1. /\ toWorker.ordinary \in Seq(HostFrames) /\ toWorker.reserved \in Seq(HostFrames)
      /\ toWorker.wire \in Seq(HostFrames) /\ toHost.wire \in Seq(WorkerFrames)
  BY DEF TypeOK, ChannelTypeOK, InputPipes, OutputPipes
<1>2. \A S : \A s \in Seq(S) : ToSet(s) \subseteq S
  BY LenProperties DEF ToSet
<1>3. Inbound \subseteq HostFrames /\ Outbound \subseteq WorkerFrames
  BY <1>1, <1>2 DEF Inbound, Outbound, FramesOf
<1>4. \A f \in HostFrames : /\ f.kind = "request" => f.call \in Calls /\ f = Request(f.call)
                            /\ f.kind = "outcome" => f.action \in Actions
  BY DEF HostFrames, Request
<1>5. \A f \in WorkerFrames : /\ f.kind = "result" => f.call \in Calls
                              /\ f.kind = "action" => f.action \in Actions
  BY DEF WorkerFrames
<1> QED
  BY <1>3, <1>4, <1>5

\* What is known of the calls when nothing new is under way.
LEMMA CallsLess ==
  ASSUME TypeOK, TypeOK', CallsInv,
         \A c \in Calls : result[c] # "idle" => result'[c] # "idle",
         Open' => Open /\ \A c \in Calls : result[c] = "pending" => result'[c] = "pending",
         \A c \in Calls : \/ task'[c] = task[c]
                          \/ task[c] # "none" /\ task'[c] = "done"
                          \/ task[c] \in AtWork /\ task'[c] \in AtWork,
         \A c \in Calls : Request(c) \in Inbound' => Request(c) \in Inbound,
         \A f \in Outbound' : f.kind = "result" => f \in Outbound
  PROVE  CallsInv'
<1>1. \A c \in Calls : Asked(c) => Asked(c)'
  BY DEF Asked
<1>2. \A c \in Calls : Request(c) \in Inbound' => task'[c] = "none" /\ Asked(c)'
  BY <1>1 DEF CallsInv, AtWork
<1>3. \A c \in Calls : task'[c] \in AtWork => Asked(c)' /\ task[c] \in AtWork
  BY <1>1 DEF CallsInv, AtWork
<1>4. \A c \in Calls : task'[c] # "none" => result'[c] # "idle"
  BY DEF CallsInv, AtWork
<1>5. ASSUME NEW f \in Outbound', f.kind = "result"
      PROVE  task'[f.call] \in {"replying", "done"} /\ Asked(f.call)' /\ f.value \in ValueOf(f.call)
  <2>1. f \in Outbound /\ f.call \in Calls
    BY <1>5, FramesTyped
  <2>2. task[f.call] \in {"replying", "done"} /\ Asked(f.call) /\ f.value \in ValueOf(f.call)
    BY <1>5, <2>1 DEF CallsInv
  <2>3. task'[f.call] \in {"replying", "done"}
    BY <2>1, <2>2 DEF AtWork
  <2> QED
    BY <1>1, <2>1, <2>2, <2>3
<1>6. \A c \in Executions : c \in Calls
  BY DEF Calls, DataCalls
<1>7. \A c \in Executions : Live(c)' => Live(c)
  BY <1>3, <1>6 DEF Live
<1>8. \A c, d \in Executions : c # d /\ InvocationOf[c] = InvocationOf[d] => ~(Live(c)' /\ Live(d)')
  BY <1>7 DEF CallsInv
<1> QED
  BY <1>2, <1>3, <1>4, <1>5, <1>8 DEF CallsInv, ValueOf

\* What is known of the actions when nobody requests or performs one.
LEMMA ActionsLess ==
  ASSUME TypeOK, ActionsInv, UNCHANGED <<sequence, handler>>,
         \A e \in Executions : \/ task'[e] = task[e]
                               \/ task[e] # "none" /\ task'[e] \notin {"none", "running"},
         pendingActions' \subseteq pendingActions,
         \A f \in Outbound' : f.kind = "action" => f \in Outbound,
         \A f \in Inbound' : f.kind = "outcome" => f \in Inbound
  PROVE  ActionsInv'
<1>1. \A e \in Executions : task'[e] = "none" => sequence[e] = 0
  BY DEF ActionsInv
<1>2. \A a \in pendingActions' : a[2] = sequence[a[1]] /\ task'[a[1]] # "running"
  <2> SUFFICES ASSUME NEW a \in pendingActions' PROVE a[2] = sequence[a[1]] /\ task'[a[1]] # "running"
    OBVIOUS
  <2>1. a[1] \in Executions /\ a \in pendingActions
    BY DEF TypeOK, WorkerTypeOK, Actions
  <2>2. a[2] = sequence[a[1]] /\ task[a[1]] # "running"
    BY <2>1 DEF ActionsInv
  <2> QED
    BY <2>1, <2>2
<1>3. \A e \in Executions, n \in 1..MaxActions :
        n < sequence[e] \/ (n = sequence[e] /\ task'[e] = "running") => handler[<<e, n>>] = "settled"
  BY DEF ActionsInv
<1>4. \A e \in Executions, n \in 1..MaxActions : handler[<<e, n>>] # "none" => n <= sequence[e]
  BY DEF ActionsInv
<1>5. \A f \in Outbound' : f.kind = "action" => f.action[2] = sequence[f.action[1]] /\ handler[f.action] = "none"
  BY DEF ActionsInv
<1>6. \A f \in Inbound' : f.kind = "outcome" => handler[f.action] = "settled"
  BY DEF ActionsInv
<1>7. sequence' = sequence /\ handler' = handler
  OBVIOUS
<1> QED
  BY <1>1, <1>2, <1>3, <1>4, <1>5, <1>6, <1>7 DEF ActionsInv

\* A handler that settles, and whose outcome may be under way then.
LEMMA ActionsSettled ==
  ASSUME TypeOK, TypeOK', ActionsInv, UNCHANGED <<sequence, task, pendingActions>>,
         NEW a \in Actions, handler[a] = "running", handler' = [handler EXCEPT ![a] = "settled"],
         \A f \in Outbound' : f.kind = "action" => f \in Outbound,
         \A f \in Inbound' : f.kind = "outcome" => f \in Inbound \/ f.action = a
  PROVE  ActionsInv'
<1>1. /\ handler'[a] = "settled"
      /\ \A b \in Actions : /\ handler[b] = "settled" => handler'[b] = "settled"
                            /\ handler'[b] # "none" => handler[b] # "none"
                            /\ handler[b] = "none" => handler'[b] = "none"
  BY DEF TypeOK, HostTypeOK
<1>2. \A e \in Executions, n \in 1..MaxActions : <<e, n>> \in Actions
  BY DEF Actions
<1>3. ASSUME NEW f \in Outbound', f.kind = "action"
      PROVE  f.action[2] = sequence[f.action[1]] /\ handler'[f.action] = "none"
  <2>1. f \in Outbound /\ f.action \in Actions
    BY <1>3, FramesTyped
  <2>2. f.action[2] = sequence[f.action[1]] /\ handler[f.action] = "none"
    BY <1>3, <2>1 DEF ActionsInv
  <2> QED
    BY <1>1, <2>1, <2>2
<1>4. ASSUME NEW f \in Inbound', f.kind = "outcome" PROVE handler'[f.action] = "settled"
  <2>1. CASE f \in Inbound
    <3>1. f.action \in Actions /\ handler[f.action] = "settled"
      BY <1>4, <2>1, FramesTyped DEF ActionsInv
    <3> QED
      BY <1>1, <3>1
  <2>2. CASE f.action = a
    BY <1>1, <2>2
  <2> QED
    BY <1>4, <2>1, <2>2
<1>5. /\ \A e \in Executions, n \in 1..MaxActions :
           n < sequence[e] \/ (n = sequence[e] /\ task[e] = "running") => handler'[<<e, n>>] = "settled"
      /\ \A e \in Executions, n \in 1..MaxActions : handler'[<<e, n>>] # "none" => n <= sequence[e]
  BY <1>1, <1>2 DEF ActionsInv
<1>6. /\ \A e \in Executions : task[e] = "none" => sequence[e] = 0
      /\ \A b \in pendingActions : b[2] = sequence[b[1]] /\ task[b[1]] # "running"
  BY DEF ActionsInv
<1> QED
  BY <1>3, <1>4, <1>5, <1>6 DEF ActionsInv

\* What is known of the cancellations when the worker says nothing.
LEMMA CancelsKept ==
  ASSUME CancelInv, UNCHANGED <<workerState, cancelled, toHost>>,
         Open' => Open /\ (result[Close] = "pending" => result'[Close] = "pending"),
         Open' => \A x \in Cancels : result[x] = "accepted" => result'[x] = "accepted"
  PROVE  CancelInv'
<1>1. Listening' <=> Listening
  BY DEF Listening
<1>2. ASSUME Open' PROVE \A c, i : Shown(c, i, toHost.wire, result) => Shown(c, i, toHost.wire, result')
  BY <1>2 DEF Shown
<1>3. Open' /\ toHost.eof = "open" => CancelledKnown(toHost.wire, result)' /\ CancelledKnown(toHost'.wire, result')
  BY <1>2 DEF CancelInv, CancelledKnown
<1>4. Open' => AnswersKnown(toHost'.wire, result')
  BY <1>2 DEF CancelInv, AnswersKnown
<1> QED
  BY <1>1, <1>3, <1>4 DEF CancelInv

\* A connection that is over needs no evidence.
LEMMA CancelsOver ==
  ASSUME ~Open', Listening' => toHost'.eof = "open"
  PROVE  CancelInv'
BY DEF CancelInv

----------------------------------------------------------------------------
(* The host's steps.                                                       *)

\* #fail answers what is pending and is the end of the connection.
LEMMA FailEffect ==
  ASSUME TypeOK, PipeOnce(toWorker), NEW code \in {"worker_lost", "adapter_failure"}, Fail(code)
  PROVE  /\ hostState' \in {"closed", "failed"}
         /\ \A c \in Calls : result[c] # "idle" => result'[c] # "idle"
         /\ PipeOnce(toWorker') /\ FramesOf(toWorker') \subseteq FramesOf(toWorker)
<1>1. CASE hostState \in {"closed", "failed"}
  BY <1>1 DEF Fail
<1>2. CASE hostState \notin {"closed", "failed"}
  <2>1. /\ hostState' = "failed" /\ toWorker' = CloseTransport(toWorker)
        /\ result' = [c \in Calls |-> IF result[c] = "pending" THEN code ELSE result[c]]
    BY <1>2 DEF Fail
  <2>2. toWorker \in InputPipes
    BY DEF TypeOK, ChannelTypeOK
  <2> QED
    BY <2>1, <2>2, CloseFrames
<1> QED
  BY <1>1, <1>2

\* The host fails, having read the first frame or none, and perhaps with a handler
\* that settled.
LEMMA FailStep ==
  ASSUME TypeOK, TypeOK', SessionInv, NEW code \in {"worker_lost", "adapter_failure"}, Fail(code),
         UNCHANGED <<workerVars, seenRequests>>,
         toHost' = toHost \/ (toHost.wire # <<>> /\ toHost' = [toHost EXCEPT !.wire = Tail(@)]),
         \/ UNCHANGED handler
         \/ \E a \in Actions : handler[a] = "running" /\ handler' = [handler EXCEPT ![a] = "settled"]
  PROVE  SessionInv'
<1>1. /\ hostState' \in {"closed", "failed"} /\ ~Open'
      /\ \A c \in Calls : result[c] # "idle" => result'[c] # "idle"
      /\ PipeOnce(toWorker') /\ Inbound' \subseteq Inbound
  BY FailEffect DEF Open, SessionInv, OnceInv, Inbound
<1>2. Once(toHost'.wire) /\ Outbound' \subseteq Outbound /\ toHost'.eof = toHost.eof
  <2>1. CASE toHost' = toHost
    BY <2>1 DEF SessionInv, OnceInv, Outbound
  <2>2. CASE toHost.wire # <<>> /\ toHost' = [toHost EXCEPT !.wire = Tail(@)]
    <3>1. toHost'.wire = Tail(toHost.wire) /\ toHost'.eof = toHost.eof /\ toHost.wire \in Seq(WorkerFrames)
      BY <2>2 DEF TypeOK, ChannelTypeOK, OutputPipes
    <3>2. Once(Tail(toHost.wire)) /\ ToSet(toHost.wire) = {Head(toHost.wire)} \cup ToSet(Tail(toHost.wire))
      BY <2>2, <3>1, OnceTail DEF SessionInv, OnceInv
    <3> QED
      BY <3>1, <3>2 DEF Outbound
  <2> QED
    BY <2>1, <2>2
<1>3. UNCHANGED <<workerState, task, cancelled, sequence, pendingActions>>
  BY DEF workerVars
<1>4. CallsInv'
  BY <1>1, <1>2, <1>3, CallsLess DEF SessionInv
<1>5. ActionsInv'
  <2>1. CASE UNCHANGED handler
    BY <1>1, <1>2, <1>3, <2>1, ActionsLess DEF SessionInv
  <2>2. CASE \E a \in Actions : handler[a] = "running" /\ handler' = [handler EXCEPT ![a] = "settled"]
    BY <1>1, <1>2, <1>3, <2>2, ActionsSettled DEF SessionInv
  <2> QED
    BY <2>1, <2>2
<1>6. CancelInv'
  <2>1. Listening' => toHost'.eof = "open"
    BY <1>2, <1>3 DEF SessionInv, CancelInv, Listening
  <2> QED
    BY <1>1, <2>1, CancelsOver
<1> QED
  BY <1>1, <1>2, <1>4, <1>5, <1>6 DEF SessionInv, OnceInv

\* A call is refused.
LEMMA RefuseStep ==
  ASSUME TypeOK, TypeOK', SessionInv, NEW c \in Calls, result[c] = "idle",
         NEW code \in Refusals, Refuse(c, code), UNCHANGED workerVars
  PROVE  SessionInv'
<1>1. /\ result' = [result EXCEPT ![c] = code]
      /\ UNCHANGED <<hostState, handler, seenRequests, toWorker, toHost>>
      /\ UNCHANGED <<workerState, task, cancelled, sequence, pendingActions>>
  BY DEF Refuse, workerVars
<1>2. result'[c] = code /\ \A d \in Calls \ {c} : result'[d] = result[d]
  BY <1>1 DEF TypeOK, HostTypeOK
<1>3. code # "idle" /\ code # "pending"
  BY DEF Refusals
<1>4. OnceInv' /\ (Open' <=> Open) /\ Inbound' = Inbound /\ Outbound' = Outbound
  BY <1>1 DEF SessionInv, OnceInv, Open, Inbound, Outbound
<1>5. CallsInv'
  BY <1>1, <1>2, <1>3, <1>4, CallsLess DEF SessionInv
<1>6. ActionsInv'
  BY <1>1, <1>4, ActionsLess DEF SessionInv
<1>7. CancelInv'
  <2>1. Close \in Calls /\ Cancels \subseteq Calls
    BY DEF Calls
  <2> QED
    BY <1>1, <1>2, <1>4, <2>1, CancelsKept DEF SessionInv
<1> QED
  BY <1>4, <1>5, <1>6, <1>7 DEF SessionInv

\* A call is submitted: its request is new to the writer, and no execution of the
\* same invocation is under way.
LEMMA SubmitStep ==
  ASSUME TypeOK, TypeOK', SessionInv, NEW c \in Calls, result[c] = "idle", Open,
         Submit(c), UNCHANGED workerVars, Open',
         c \in Executions => \A e \in Executions : result[e] = "pending" => InvocationOf[e] # InvocationOf[c]
  PROVE  SessionInv'
<1>1. /\ result' = [result EXCEPT ![c] = "pending"] /\ toWorker' = Write(toWorker, Request(c))
      /\ UNCHANGED <<handler, seenRequests, toHost>>
      /\ UNCHANGED <<workerState, task, cancelled, sequence, pendingActions>>
  BY DEF Submit, workerVars
<1>2. result'[c] = "pending" /\ \A d \in Calls \ {c} : result'[d] = result[d]
  BY <1>1 DEF TypeOK, HostTypeOK
<1>3. \A f \in Inbound : ~Same(f, Request(c))
  <2> SUFFICES ASSUME NEW f \in Inbound, Same(f, Request(c)) PROVE FALSE
    OBVIOUS
  <2>1. f.kind = "request" /\ f.call = c
    BY DEF Same, Request
  <2>2. f = Request(c)
    BY <2>1, FramesTyped
  <2> QED
    BY <2>2 DEF SessionInv, CallsInv, Asked
<1>4. PipeOnce(toWorker') /\ Inbound' = Inbound \cup {Request(c)}
  <2>1. toWorker \in InputPipes /\ Request(c) \in HostFrames
    BY FrameTypes DEF TypeOK, ChannelTypeOK
  <2> QED
    BY <1>1, <1>3, <2>1, WriteFrames DEF SessionInv, OnceInv, Inbound
<1>5. OnceInv' /\ Outbound' = Outbound
  BY <1>1, <1>4 DEF SessionInv, OnceInv, Outbound
<1>6. \A d \in Calls : Request(d) \in Inbound' => Request(d) \in Inbound \/ d = c
  BY <1>4 DEF Request
<1>7. \A d \in Calls : Asked(d) => Asked(d)'
  BY <1>2 DEF Asked
<1>8. Asked(c)' /\ task[c] = "none" /\ ~Live(c)
  <2>1. task[c] = "none"
    BY DEF SessionInv, CallsInv
  <2>2. Request(c) \notin Inbound
    BY DEF SessionInv, CallsInv, Asked
  <2> QED
    BY <1>2, <2>1, <2>2 DEF Asked, Live, AtWork
<1>9. \A d \in Calls : Live(d) => Asked(d)
  BY DEF SessionInv, CallsInv, Live
<1>10. Executions \subseteq Calls
  BY DEF Calls, DataCalls
<1>11. CallsInv'
  <2>1. \A d \in Calls : Request(d) \in Inbound' => task'[d] = "none" /\ Asked(d)'
    BY <1>1, <1>6, <1>7, <1>8 DEF SessionInv, CallsInv
  <2>2. \A d \in Calls : task'[d] \in AtWork => Asked(d)'
    BY <1>1, <1>7 DEF SessionInv, CallsInv
  <2>3. \A d \in Calls : task'[d] # "none" => result'[d] # "idle"
    BY <1>1, <1>2 DEF SessionInv, CallsInv
  <2>4. ASSUME NEW f \in Outbound', f.kind = "result"
        PROVE  task'[f.call] \in {"replying", "done"} /\ Asked(f.call)' /\ f.value \in ValueOf(f.call)
    <3>1. f \in Outbound /\ f.call \in Calls
      BY <1>5, <2>4, FramesTyped
    <3>2. task[f.call] \in {"replying", "done"} /\ Asked(f.call) /\ f.value \in ValueOf(f.call)
      BY <2>4, <3>1 DEF SessionInv, CallsInv
    <3> QED
      BY <1>1, <1>7, <3>1, <3>2
  <2>5. \A d \in Executions : Live(d)' => Live(d) \/ d = c
    BY <1>1, <1>6, <1>10 DEF Live
  <2>6. ASSUME NEW d \in Executions, NEW e \in Executions, d # e, InvocationOf[d] = InvocationOf[e],
               Live(d)', Live(e)'
        PROVE  FALSE
    <3>1. CASE d = c
      <4>1. Live(e)
        BY <2>5, <2>6, <3>1
      <4>2. result[e] = "pending"
        BY <1>9, <1>10, <4>1 DEF Asked
      <4> QED
        BY <2>6, <3>1, <4>2
    <3>2. CASE e = c
      <4>1. Live(d)
        BY <2>5, <2>6, <3>2
      <4>2. result[d] = "pending"
        BY <1>9, <1>10, <4>1 DEF Asked
      <4> QED
        BY <2>6, <3>2, <4>2
    <3>3. CASE d # c /\ e # c
      BY <2>5, <2>6, <3>3 DEF SessionInv, CallsInv
    <3> QED
      BY <3>1, <3>2, <3>3
  <2> QED
    BY <2>1, <2>2, <2>3, <2>4, <2>6 DEF CallsInv, ValueOf
<1>12. ActionsInv'
  <2>1. \A f \in Inbound' : f.kind = "outcome" => f \in Inbound
    BY <1>4 DEF Request
  <2> QED
    BY <1>1, <1>5, <2>1, ActionsLess DEF SessionInv
<1>13. CancelInv'
  <2>1. Close \in Calls /\ Cancels \subseteq Calls
    BY DEF Calls
  <2> QED
    BY <1>1, <1>2, <2>1, CancelsKept DEF SessionInv
<1> QED
  BY <1>5, <1>11, <1>12, <1>13 DEF SessionInv

\* The host reads a frame: what it tells of a cancellation is in the results then.
LEMMA KnownTail ==
  ASSUME NEW w \in Seq(WorkerFrames), w # <<>>, Once(w), NEW r, NEW q,
         r[Close] = "pending" => q[Close] = "pending",
         \A x \in Cancels : r[x] = "accepted" => q[x] = "accepted",
         \A x \in Cancels : Head(w) = Result(x, "accepted") => q[x] = "accepted"
  PROVE  /\ CancelledKnown(w, r) => CancelledKnown(Tail(w), q)
         /\ AnswersKnown(w, r) => AnswersKnown(Tail(w), q)
<1>1. /\ Len(Tail(w)) + 1 = Len(w) /\ Len(w) \in Nat
      /\ DOMAIN w = 1..Len(w) /\ Head(w) = w[1]
      /\ DOMAIN Tail(w) = 1..Len(Tail(w))
      /\ \A i \in DOMAIN Tail(w) : i + 1 \in DOMAIN w /\ Tail(w)[i] = w[i + 1]
  BY OnceTail
<1>2. Len(Tail(w)) \in Nat
  BY OnceTail, LenProperties
<1>3. ASSUME NEW c, NEW i \in Nat, Shown(c, i + 1, w, r) PROVE Shown(c, i, Tail(w), q)
  <2>1. CASE r[Close] = "pending"
    BY <2>1 DEF Shown
  <2>2. ASSUME NEW x \in Cancels, InvocationOf[x] = InvocationOf[c], r[x] = "accepted"
        PROVE  Shown(c, i, Tail(w), q)
    BY <2>2 DEF Shown
  <2>3. ASSUME NEW x \in Cancels, InvocationOf[x] = InvocationOf[c],
               NEW j \in DOMAIN w, j < i + 1, w[j] = Result(x, "accepted")
        PROVE  Shown(c, i, Tail(w), q)
    <3>1. CASE j = 1
      <4>1. q[x] = "accepted"
        BY <1>1, <2>3, <3>1
      <4> QED
        BY <2>3, <4>1 DEF Shown
    <3>2. CASE j # 1
      <4>1. j - 1 \in DOMAIN Tail(w) /\ j - 1 < i /\ (j - 1) + 1 = j
        BY <1>1, <1>2, <2>3, <3>2
      <4>2. Tail(w)[j - 1] = w[j]
        BY <1>1, <4>1
      <4> QED
        BY <2>3, <4>1, <4>2 DEF Shown
    <3> QED
      BY <3>1, <3>2
  <2> QED
    BY <1>3, <2>1, <2>2, <2>3 DEF Shown
<1>4. CancelledKnown(w, r) => CancelledKnown(Tail(w), q)
  <2> SUFFICES ASSUME CancelledKnown(w, r), NEW c \in cancelled PROVE Shown(c, Len(Tail(w)) + 1, Tail(w), q)
    BY DEF CancelledKnown
  <2>1. PICK i \in Nat : i = Len(w)
    BY <1>1
  <2>2. Shown(c, i + 1, w, r)
    BY <2>1 DEF CancelledKnown
  <2>3. Shown(c, i, Tail(w), q)
    BY <1>3, <2>2
  <2> QED
    BY <1>1, <2>1, <2>3
<1>5. AnswersKnown(w, r) => AnswersKnown(Tail(w), q)
  <2> SUFFICES ASSUME AnswersKnown(w, r), NEW i \in DOMAIN Tail(w),
                      Tail(w)[i].kind = "result", Tail(w)[i].value = "cancelled"
               PROVE  Tail(w)[i].call \in Executions /\ Shown(Tail(w)[i].call, i, Tail(w), q)
    BY DEF AnswersKnown
  <2>1. i \in Nat /\ i + 1 \in DOMAIN w /\ Tail(w)[i] = w[i + 1]
    BY <1>1, <1>2
  <2>2. Tail(w)[i].call \in Executions /\ Shown(Tail(w)[i].call, i + 1, w, r)
    BY <2>1 DEF AnswersKnown
  <2> QED
    BY <1>3, <2>1, <2>2
<1> QED
  BY <1>4, <1>5

\* The host serves a request for an action.
LEMMA ServeStep ==
  ASSUME TypeOK, TypeOK', SessionInv, toHost.wire # <<>>, NEW a, a = Head(toHost.wire).action,
         Head(toHost.wire).kind = "action", handler' = [handler EXCEPT ![a] = "running"],
         toHost' = [toHost EXCEPT !.wire = Tail(@)],
         UNCHANGED <<hostState, result, toWorker, workerVars>>
  PROVE  SessionInv'
<1>1. PICK w : w = toHost.wire
  OBVIOUS
<1>2. /\ w \in Seq(WorkerFrames) /\ w # <<>> /\ Once(w)
      /\ toHost'.wire = Tail(w) /\ toHost'.eof = toHost.eof
      /\ UNCHANGED <<workerState, task, cancelled, sequence, pendingActions>>
      /\ Inbound' = Inbound /\ (Open' <=> Open) /\ (Listening' <=> Listening)
  BY <1>1 DEF TypeOK, ChannelTypeOK, OutputPipes, SessionInv, OnceInv, workerVars, Inbound, Open, Listening
<1>3. /\ Once(Tail(w)) /\ ToSet(w) = {Head(w)} \cup ToSet(Tail(w))
      /\ \A y \in ToSet(Tail(w)) : ~Same(y, Head(w))
  BY <1>2, OnceTail
<1>4. Outbound' \subseteq Outbound /\ Head(w) \in Outbound /\ \A f \in Outbound' : ~Same(f, Head(w))
  BY <1>1, <1>2, <1>3 DEF Outbound
<1>5. a \in Actions /\ a[2] = sequence[a[1]] /\ handler[a] = "none"
  BY <1>1, <1>4, FramesTyped DEF SessionInv, ActionsInv
<1>6. OnceInv'
  BY <1>2, <1>3 DEF SessionInv, OnceInv
<1>7. CallsInv'
  BY <1>2, <1>4, CallsLess DEF SessionInv
<1>8. handler'[a] = "running" /\ \A b \in Actions \ {a} : handler'[b] = handler[b]
  BY <1>5 DEF TypeOK, HostTypeOK
<1>9. ActionsInv'
  <2>1. \A e \in Executions, n \in 1..MaxActions : <<e, n>> \in Actions
    BY DEF Actions
  <2>2. ASSUME NEW e \in Executions, NEW n \in 1..MaxActions,
               n < sequence[e] \/ (n = sequence[e] /\ task[e] = "running")
        PROVE  handler'[<<e, n>>] = "settled"
    <3>1. handler[<<e, n>>] = "settled"
      BY <2>2 DEF SessionInv, ActionsInv
    <3>2. <<e, n>> # a
      BY <1>5, <3>1
    <3> QED
      BY <1>8, <2>1, <3>1, <3>2
  <2>3. ASSUME NEW e \in Executions, NEW n \in 1..MaxActions, handler'[<<e, n>>] # "none"
        PROVE  n <= sequence[e]
    <3>1. CASE <<e, n>> = a
      <4>1. n = sequence[e]
        BY <1>5, <3>1
      <4> QED
        BY <4>1
    <3>2. CASE <<e, n>> # a
      BY <1>8, <2>1, <2>3, <3>2 DEF SessionInv, ActionsInv
    <3> QED
      BY <3>1, <3>2
  <2>4. ASSUME NEW f \in Outbound', f.kind = "action"
        PROVE  f.action[2] = sequence[f.action[1]] /\ handler'[f.action] = "none"
    <3>1. f \in Outbound /\ f.action \in Actions
      BY <1>4, <2>4, FramesTyped
    <3>2. f.action # a
      BY <1>1, <1>4, <2>4 DEF Same
    <3>3. f.action[2] = sequence[f.action[1]] /\ handler[f.action] = "none"
      BY <2>4, <3>1 DEF SessionInv, ActionsInv
    <3> QED
      BY <1>8, <3>1, <3>2, <3>3
  <2>5. ASSUME NEW f \in Inbound', f.kind = "outcome" PROVE handler'[f.action] = "settled"
    <3>1. f \in Inbound /\ f.action \in Actions
      BY <1>2, <2>5, FramesTyped
    <3>2. handler[f.action] = "settled"
      BY <2>5, <3>1 DEF SessionInv, ActionsInv
    <3>3. f.action # a
      BY <1>5, <3>2
    <3> QED
      BY <1>8, <3>1, <3>2, <3>3
  <2>6. /\ \A e \in Executions : task[e] = "none" => sequence[e] = 0
        /\ \A b \in pendingActions : b[2] = sequence[b[1]] /\ task[b[1]] # "running"
    BY DEF SessionInv, ActionsInv
  <2> QED
    BY <1>2, <2>2, <2>3, <2>4, <2>5, <2>6 DEF ActionsInv
<1>10. CancelInv'
  <2>1. \A x \in Cancels : Head(w) # Result(x, "accepted")
    BY <1>1 DEF Result
  <2>2. /\ CancelledKnown(w, result) => CancelledKnown(Tail(w), result)
        /\ AnswersKnown(w, result) => AnswersKnown(Tail(w), result)
    BY <1>2, <2>1, KnownTail
  <2>3. CancelledKnown(Tail(w), result) => CancelledKnown(Tail(w), result)'
    BY <1>1, <1>2 DEF CancelledKnown
  <2>4. /\ Listening => toHost.eof = "open"
        /\ Open /\ toHost.eof = "open" => CancelledKnown(w, result)
        /\ Open => AnswersKnown(w, result)
    BY <1>1 DEF SessionInv, CancelInv
  <2>5. CancelledKnown(Tail(w), result) => CancelledKnown(toHost.wire, result)'
    BY <1>1, <1>2 DEF CancelledKnown
  <2>6. AnswersKnown(Tail(w), result) => AnswersKnown(toHost.wire, result)'
    BY <1>1, <1>2 DEF AnswersKnown
  <2> QED
    BY <1>2, <2>2, <2>4, <2>5, <2>6 DEF CancelInv
<1> QED
  BY <1>6, <1>7, <1>9, <1>10 DEF SessionInv

\* The host takes an answer.
LEMMA AnswerStep ==
  ASSUME TypeOK, TypeOK', SessionInv, toHost.wire # <<>>, Head(toHost.wire).kind = "result",
         NEW c, c = Head(toHost.wire).call, NEW v, v = Head(toHost.wire).value, Open,
         result' = [result EXCEPT ![c] = v],
         toHost' = [toHost EXCEPT !.wire = Tail(@)],
         \/ c # Close /\ UNCHANGED <<hostState, toWorker>>
         \/ c = Close /\ hostState' = "closed" /\ toWorker' = CloseTransport(toWorker),
         UNCHANGED <<handler, workerVars>>
  PROVE  SessionInv'
<1>1. PICK w : w = toHost.wire
  OBVIOUS
<1>2. /\ w \in Seq(WorkerFrames) /\ w # <<>> /\ Once(w)
      /\ toHost'.wire = Tail(w) /\ toHost'.eof = toHost.eof
      /\ UNCHANGED <<workerState, task, cancelled, sequence, pendingActions>>
      /\ (Listening' <=> Listening)
  BY <1>1 DEF TypeOK, ChannelTypeOK, OutputPipes, SessionInv, OnceInv, workerVars, Listening
<1>3. /\ Once(Tail(w)) /\ ToSet(w) = {Head(w)} \cup ToSet(Tail(w))
      /\ \A y \in ToSet(Tail(w)) : ~Same(y, Head(w))
  BY <1>2, OnceTail
<1>4. Outbound' \subseteq Outbound /\ Head(w) \in Outbound /\ \A f \in Outbound' : ~Same(f, Head(w))
  BY <1>1, <1>2, <1>3 DEF Outbound
<1>5. /\ c \in Calls /\ task[c] \in {"replying", "done"} /\ result[c] = "pending" /\ v \in ValueOf(c)
  BY <1>1, <1>4, FramesTyped DEF SessionInv, CallsInv, Asked
<1>6. PipeOnce(toWorker') /\ Inbound' \subseteq Inbound /\ (Open' => c # Close)
  <2>1. CASE c # Close /\ UNCHANGED <<hostState, toWorker>>
    BY <2>1 DEF SessionInv, OnceInv, Inbound
  <2>2. CASE c = Close /\ hostState' = "closed" /\ toWorker' = CloseTransport(toWorker)
    <3>1. toWorker \in InputPipes /\ PipeOnce(toWorker)
      BY DEF TypeOK, ChannelTypeOK, SessionInv, OnceInv
    <3> QED
      BY <2>2, <3>1, CloseFrames DEF Inbound, Open
  <2> QED
    BY <2>1, <2>2
<1>7. OnceInv'
  BY <1>2, <1>3, <1>6 DEF OnceInv
<1>8. result'[c] = v /\ \A d \in Calls \ {c} : result'[d] = result[d]
  BY <1>5 DEF TypeOK, HostTypeOK
<1>9. v # "idle" /\ v # "pending"
  BY <1>5 DEF ValueOf, Replies
<1>10. \A d \in Calls : d # c /\ Asked(d) => Asked(d)'
  BY <1>8 DEF Asked
<1>11. Request(c) \notin Inbound /\ task[c] \notin AtWork
  BY <1>5 DEF SessionInv, CallsInv, AtWork
<1>12. CallsInv'
  <2>1. \A d \in Calls : Request(d) \in Inbound' => task'[d] = "none" /\ Asked(d)'
    BY <1>2, <1>6, <1>10, <1>11 DEF SessionInv, CallsInv
  <2>2. \A d \in Calls : task'[d] \in AtWork => Asked(d)'
    BY <1>2, <1>10, <1>11 DEF SessionInv, CallsInv
  <2>3. \A d \in Calls : task'[d] # "none" => result'[d] # "idle"
    BY <1>2, <1>8, <1>9 DEF SessionInv, CallsInv
  <2>4. ASSUME NEW f \in Outbound', f.kind = "result"
        PROVE  task'[f.call] \in {"replying", "done"} /\ Asked(f.call)' /\ f.value \in ValueOf(f.call)
    <3>1. f \in Outbound /\ f.call \in Calls
      BY <1>4, <2>4, FramesTyped
    <3>2. task[f.call] \in {"replying", "done"} /\ Asked(f.call) /\ f.value \in ValueOf(f.call)
      BY <2>4, <3>1 DEF SessionInv, CallsInv
    <3>3. f.call # c
      BY <1>1, <1>4, <2>4 DEF Same
    <3> QED
      BY <1>2, <1>10, <3>1, <3>2, <3>3
  <2>5. \A d \in Executions : Live(d)' => Live(d)
    BY <1>2, <1>6 DEF Live
  <2>6. \A d, e \in Executions : d # e /\ InvocationOf[d] = InvocationOf[e] => ~(Live(d)' /\ Live(e)')
    BY <2>5 DEF SessionInv, CallsInv
  <2> QED
    BY <2>1, <2>2, <2>3, <2>4, <2>6 DEF CallsInv, ValueOf
<1>13. ActionsInv'
  BY <1>2, <1>4, <1>6, ActionsLess DEF SessionInv
<1>14. CancelInv'
  <2>0. Close \in Calls /\ Cancels \subseteq Calls
    BY DEF Calls
  <2>1. CASE ~Open'
    BY <1>2, <2>1, CancelsOver DEF SessionInv, CancelInv
  <2>2. CASE Open'
    <3>1. result[Close] = "pending" => result'[Close] = "pending"
      BY <1>6, <1>8, <2>0, <2>2
    <3>2. \A x \in Cancels : result[x] = "accepted" => result'[x] = "accepted"
      BY <1>5, <1>8, <2>0
    <3>3. \A x \in Cancels : Head(w) = Result(x, "accepted") => result'[x] = "accepted"
      BY <1>1, <1>8 DEF Result
    <3>4. PICK r, q : r = result /\ q = result'
      OBVIOUS
    <3>5. /\ CancelledKnown(w, r) => CancelledKnown(Tail(w), q)
          /\ AnswersKnown(w, r) => AnswersKnown(Tail(w), q)
      BY <1>2, <3>1, <3>2, <3>3, <3>4, KnownTail
    <3>6. CancelledKnown(Tail(w), q) => CancelledKnown(toHost.wire, result)'
      BY <1>2, <3>4 DEF CancelledKnown
    <3>7. AnswersKnown(Tail(w), q) => AnswersKnown(toHost.wire, result)'
      BY <1>2, <3>4 DEF AnswersKnown
    <3>8. /\ Listening => toHost.eof = "open"
          /\ toHost.eof = "open" => CancelledKnown(w, r)
          /\ AnswersKnown(w, r)
      BY <1>1, <3>4 DEF SessionInv, CancelInv
    <3> QED
      BY <1>2, <3>5, <3>6, <3>7, <3>8 DEF CancelInv
  <2> QED
    BY <2>1, <2>2
<1> QED
  BY <1>7, <1>12, <1>13, <1>14 DEF SessionInv

\* A handler settles and its outcome is sent.
LEMMA OutcomeStep ==
  ASSUME TypeOK, TypeOK', SessionInv, NEW a \in Actions, NEW ok \in BOOLEAN, handler[a] = "running",
         handler' = [handler EXCEPT ![a] = "settled"],
         toWorker' = Write(toWorker, Outcome(a, ok)),
         UNCHANGED <<hostState, result, toHost, workerVars>>
  PROVE  SessionInv'
<1>1. UNCHANGED <<workerState, task, cancelled, sequence, pendingActions>>
  BY DEF workerVars
<1>2. \A f \in Inbound : ~Same(f, Outcome(a, ok))
  BY DEF Same, Outcome, SessionInv, ActionsInv
<1>3. PipeOnce(toWorker') /\ Inbound' = Inbound \cup {Outcome(a, ok)}
  <2>1. toWorker \in InputPipes /\ Outcome(a, ok) \in HostFrames
    BY FrameTypes DEF TypeOK, ChannelTypeOK
  <2> QED
    BY <1>2, <2>1, WriteFrames DEF SessionInv, OnceInv, Inbound
<1>4. OnceInv' /\ Outbound' = Outbound /\ (Open' <=> Open)
  BY <1>3 DEF SessionInv, OnceInv, Outbound, Open
<1>5. CallsInv'
  <2>1. \A c \in Calls : Request(c) \in Inbound' => Request(c) \in Inbound
    BY <1>3 DEF Request, Outcome
  <2> QED
    BY <1>1, <1>4, <2>1, CallsLess DEF SessionInv
<1>6. ActionsInv'
  <2>1. \A f \in Inbound' : f.kind = "outcome" => f \in Inbound \/ f.action = a
    BY <1>3 DEF Outcome
  <2> QED
    BY <1>1, <1>4, <2>1, ActionsSettled DEF SessionInv
<1>7. CancelInv'
  BY <1>1, <1>4, CancelsKept DEF SessionInv
<1> QED
  BY <1>4, <1>5, <1>6, <1>7 DEF SessionInv

\* The sink settles a write.
LEMMA SinkStep == ASSUME TypeOK, TypeOK', SessionInv, HostSinkSettles, UNCHANGED workerVars PROVE SessionInv'
<1>1. /\ UNCHANGED <<workerState, task, cancelled, sequence, pendingActions>>
      /\ UNCHANGED <<hostState, result, handler, seenRequests, toHost>>
      /\ toWorker' = Pump([toWorker EXCEPT !.writing = FALSE])
  BY DEF workerVars, HostSinkSettles, hostVars
<1>2. PICK q : q = [toWorker EXCEPT !.writing = FALSE]
  OBVIOUS
<1>3. q \in InputPipes /\ PipeOnce(q) /\ FramesOf(q) = FramesOf(toWorker)
  <2>1. /\ q \in InputPipes /\ q.ordinary = toWorker.ordinary /\ q.reserved = toWorker.reserved
        /\ q.wire = toWorker.wire
    BY <1>2 DEF TypeOK, ChannelTypeOK, InputPipes
  <2> QED
    BY <2>1 DEF SessionInv, OnceInv, PipeOnce, FramesOf
<1>4. PipeOnce(toWorker') /\ Inbound' = Inbound
  BY <1>1, <1>2, <1>3, PumpFrames DEF Inbound
<1>5. OnceInv' /\ Outbound' = Outbound /\ (Open' <=> Open)
  BY <1>1, <1>4 DEF SessionInv, OnceInv, Outbound, Open
<1>6. CallsInv'
  BY <1>1, <1>4, <1>5, CallsLess DEF SessionInv
<1>7. ActionsInv'
  BY <1>1, <1>4, <1>5, ActionsLess DEF SessionInv
<1>8. CancelInv'
  BY <1>1, <1>5, CancelsKept DEF SessionInv
<1> QED
  BY <1>5, <1>6, <1>7, <1>8 DEF SessionInv

\* Every step of the host.
LEMMA HostStepKeeps == ASSUME TypeOK, TypeOK', SessionInv, HostStep PROVE SessionInv'
<1>0. HostNext /\ UNCHANGED workerVars
  BY DEF HostStep
<1>1. ClosedCode \in Refusals /\ {"duplicate", "capacity_exceeded", "invalid_request"} \subseteq Refusals
  BY DEF ClosedCode, Refusals
<1>2. DataCalls \subseteq Calls /\ Cancels \subseteq Calls /\ Close \in Calls
  BY DEF Calls
<1>3. ASSUME NEW c \in DataCalls, CallData(c) PROVE SessionInv'
  <2>1. CASE \E code \in Refusals : Refuse(c, code)
    BY <1>0, <1>2, <1>3, <2>1, RefuseStep DEF CallData
  <2>2. CASE /\ hostState = "ready" /\ Submit(c) /\ UNCHANGED hostState
             /\ ~(c \in Executions /\ InvocationActive(InvocationOf[c]))
    <3>1. c \in Executions => \A e \in Executions : result[e] = "pending" => InvocationOf[e] # InvocationOf[c]
      BY <2>2 DEF InvocationActive, Pending, Calls, DataCalls
    <3>2. Open /\ Open' /\ result[c] = "idle"
      BY <1>3, <2>2 DEF Open, CallData
    <3> QED
      BY <1>0, <1>2, <2>2, <3>1, <3>2, SubmitStep
  <2> QED
    BY <1>1, <1>3, <2>1, <2>2 DEF CallData
<1>4. ASSUME NEW x \in Cancels, CallCancel(x) PROVE SessionInv'
  <2>1. CASE \E code \in Refusals : Refuse(x, code)
    BY <1>0, <1>2, <1>4, <2>1, RefuseStep DEF CallCancel
  <2>2. CASE hostState = "ready" /\ Submit(x) /\ UNCHANGED hostState
    <3>1. x \notin Executions
      BY ChannelAssumption DEF DataCalls
    <3>2. Open /\ Open' /\ result[x] = "idle"
      BY <1>4, <2>2 DEF Open, CallCancel
    <3> QED
      BY <1>0, <1>2, <2>2, <3>1, <3>2, SubmitStep
  <2> QED
    BY <1>1, <1>4, <2>1, <2>2 DEF CallCancel
<1>5. CASE CallClose
  <2>1. CASE \E code \in Refusals : Refuse(Close, code)
    BY <1>0, <1>2, <1>5, <2>1, RefuseStep DEF CallClose
  <2>2. CASE hostState = "ready" /\ Submit(Close) /\ hostState' = "closing"
    <3>1. Close \notin Executions
      BY ChannelAssumption DEF DataCalls
    <3>2. Open /\ Open' /\ result[Close] = "idle"
      BY <1>5, <2>2 DEF Open, CallClose
    <3> QED
      BY <1>0, <1>2, <2>2, <3>1, <3>2, SubmitStep
  <2> QED
    BY <1>1, <1>5, <2>1, <2>2 DEF CallClose
<1>6. CASE HostReceives
  <2>1. toHost.wire # <<>> /\ toHost' = [toHost EXCEPT !.wire = Tail(@)] /\ Open
    BY <1>6 DEF HostReceives, Open
  <2>2. PICK frame : frame = Head(toHost.wire)
    OBVIOUS
  <2>3. CASE frame.kind = "action" /\ AcceptAction(frame.action)
    <3>1. CASE ActionAccepted(frame.action)
      <4>1. handler' = [handler EXCEPT ![frame.action] = "running"] /\ UNCHANGED <<hostState, result, toWorker>>
        BY <2>3, <3>1 DEF AcceptAction
      <4> QED
        BY <1>0, <2>1, <2>2, <2>3, <4>1, ServeStep
    <3>2. CASE ~ActionAccepted(frame.action)
      <4>1. Fail("adapter_failure") /\ UNCHANGED <<handler, seenRequests>>
        BY <2>3, <3>2 DEF AcceptAction
      <4> QED
        BY <1>0, <2>1, <4>1, FailStep
    <3> QED
      BY <3>1, <3>2
  <2>4. CASE /\ frame.kind = "result" /\ AcceptResult(frame.call, frame.value)
             /\ UNCHANGED <<handler, seenRequests>>
    <3>1. CASE ResultAccepted(frame.call)
      <4>1. PICK c, v : c = frame.call /\ v = frame.value
        OBVIOUS
      <4>2. /\ result' = [result EXCEPT ![c] = v]
            /\ \/ c # Close /\ UNCHANGED <<hostState, toWorker>>
               \/ c = Close /\ hostState' = "closed" /\ toWorker' = CloseTransport(toWorker)
        BY <2>4, <3>1, <4>1 DEF AcceptResult
      <4> QED
        BY <1>0, <2>1, <2>2, <2>4, <4>1, <4>2, AnswerStep
    <3>2. CASE ~ResultAccepted(frame.call)
      <4>1. Fail("adapter_failure")
        BY <2>4, <3>2 DEF AcceptResult
      <4> QED
        BY <1>0, <2>1, <2>4, <4>1, FailStep
    <3> QED
      BY <3>1, <3>2
  <2> QED
    BY <1>6, <2>2, <2>3, <2>4 DEF HostReceives
<1>7. CASE HostReadsEnd
  <2>1. \E code \in {"worker_lost", "adapter_failure"} : Fail(code)
    BY <1>7 DEF HostReadsEnd
  <2> QED
    BY <1>0, <1>7, <2>1, FailStep DEF HostReadsEnd
<1>8. ASSUME NEW a \in Actions, NEW ok \in BOOLEAN, HandlerSettles(a, ok) PROVE SessionInv'
  <2>1. /\ handler[a] = "running" /\ handler' = [handler EXCEPT ![a] = "settled"]
        /\ UNCHANGED <<seenRequests, toHost>>
    BY <1>8 DEF HandlerSettles
  <2>2. CASE result[a[1]] = "pending"
    BY <1>0, <1>8, <2>1, <2>2, OutcomeStep DEF HandlerSettles
  <2>3. CASE result[a[1]] # "pending"
    BY <1>0, <1>8, <2>1, <2>3, FailStep DEF HandlerSettles
  <2> QED
    BY <2>2, <2>3
<1>9. ASSUME NEW a \in Actions, HandlerOutcomeRejected(a) PROVE SessionInv'
  BY <1>0, <1>9, FailStep DEF HandlerOutcomeRejected
<1>10. CASE HostSinkSettles
  BY <1>0, <1>10, SinkStep
<1>11. CASE HostWriteFails
  BY <1>0, <1>11, FailStep DEF HostWriteFails
<1>12. CASE Terminate
  BY <1>0, <1>12, FailStep DEF Terminate
<1> QED
  BY <1>0, <1>3, <1>4, <1>5, <1>6, <1>7, <1>8, <1>9, <1>10, <1>11, <1>12 DEF HostNext

----------------------------------------------------------------------------
(* The worker's steps.                                                     *)

\* The worker leaves its input or takes the first frame of it.
LEMMA InputLess ==
  ASSUME TypeOK, SessionInv,
         \/ toWorker' = toWorker
         \/ toWorker.wire # <<>> /\ toWorker' = [toWorker EXCEPT !.wire = Tail(@)]
  PROVE  PipeOnce(toWorker') /\ Inbound' \subseteq Inbound
<1>1. toWorker \in InputPipes /\ PipeOnce(toWorker)
  BY DEF TypeOK, ChannelTypeOK, SessionInv, OnceInv
<1>2. CASE toWorker' = toWorker
  BY <1>1, <1>2 DEF Inbound
<1>3. CASE toWorker.wire # <<>> /\ toWorker' = [toWorker EXCEPT !.wire = Tail(@)]
  BY <1>1, <1>3, TakeInput DEF Inbound
<1> QED
  BY <1>2, <1>3

\* The worker stops: what it wrote ends somewhere.
LEMMA StopStep ==
  ASSUME TypeOK, TypeOK', SessionInv, UNCHANGED <<hostState, result, handler, sequence>>,
         PipeOnce(toWorker'), Inbound' \subseteq Inbound, pendingActions' \subseteq pendingActions,
         NEW n \in 0..Len(toHost.wire), toHost'.wire = SubSeq(toHost.wire, 1, n),
         toHost'.eof # "open", ~Listening',
         \A c \in Calls : task'[c] = task[c] \/ (task[c] # "none" /\ task'[c] = "done")
  PROVE  SessionInv'
<1>1. PICK w, q : w = toHost.wire /\ q = SubSeq(toHost.wire, 1, n)
  OBVIOUS
<1>2. w \in Seq(WorkerFrames) /\ Once(w) /\ n \in 0..Len(w) /\ q = SubSeq(w, 1, n) /\ toHost'.wire = q
  BY <1>1 DEF TypeOK, ChannelTypeOK, OutputPipes, SessionInv, OnceInv
<1>3. /\ DOMAIN q \subseteq DOMAIN w /\ \A i \in DOMAIN q : q[i] = w[i]
      /\ \A i \in DOMAIN q, j \in DOMAIN w : j < i => j \in DOMAIN q
      /\ Once(q) /\ ToSet(q) \subseteq ToSet(w)
  BY SMTT(30), <1>2, OncePrefix
<1>4. OnceInv' /\ Outbound' \subseteq Outbound /\ (Open' <=> Open)
  BY <1>1, <1>2, <1>3 DEF OnceInv, Outbound, Open
<1>5. CallsInv'
  BY <1>4, CallsLess DEF SessionInv, Open
<1>6. Executions \subseteq Calls
  BY DEF Calls, DataCalls
<1>7. ActionsInv'
  BY <1>4, <1>6, ActionsLess DEF SessionInv
<1>8. CancelInv'
  <2>1. ASSUME NEW c, NEW i \in DOMAIN q, Shown(c, i, w, result) PROVE Shown(c, i, q, result)
    BY <1>3, <2>1 DEF Shown
  <2>2. Open => AnswersKnown(w, result)
    BY <1>1 DEF SessionInv, CancelInv
  <2>3. Open => AnswersKnown(q, result)
    BY <1>3, <2>1, <2>2 DEF AnswersKnown
  <2>4. AnswersKnown(q, result) => AnswersKnown(toHost'.wire, result')
    BY <1>2 DEF AnswersKnown
  <2> QED
    BY <1>4, <2>3, <2>4 DEF CancelInv
<1> QED
  BY <1>4, <1>5, <1>7, <1>8 DEF SessionInv

\* The worker fails, having read the first frame or none.
LEMMA WorkerFailsStep ==
  ASSUME TypeOK, TypeOK', SessionInv, UNCHANGED <<hostVars, sequence>>, WorkerFails,
         \/ toWorker' = toWorker
         \/ toWorker.wire # <<>> /\ toWorker' = [toWorker EXCEPT !.wire = Tail(@)],
         \A c \in Calls : task'[c] = task[c] \/ (task[c] # "none" /\ task'[c] = "done")
  PROVE  SessionInv'
<1>1. PICK n \in 0..Len(toHost.wire) : toHost' = [wire |-> SubSeq(toHost.wire, 1, n), eof |-> "clean"]
  BY DEF WorkerFails
<1>2. toHost'.wire = SubSeq(toHost.wire, 1, n) /\ toHost'.eof # "open"
  BY <1>1
<1>3. ~Listening' /\ pendingActions' \subseteq pendingActions
  BY DEF WorkerFails, Listening
<1> QED
  BY <1>2, <1>3, InputLess, StopStep DEF hostVars

\* The process dies.
LEMMA CrashStep == ASSUME TypeOK, TypeOK', SessionInv, UNCHANGED hostVars, Crash PROVE SessionInv'
<1>1. PICK n \in 0..Len(toHost.wire), cut \in {"clean", "partial"} :
        toHost' = [wire |-> SubSeq(toHost.wire, 1, n), eof |-> cut]
  BY DEF Crash
<1>2. toHost'.wire = SubSeq(toHost.wire, 1, n) /\ toHost'.eof # "open"
  BY <1>1
<1>3. ~Listening' /\ UNCHANGED <<task, cancelled, sequence, pendingActions, toWorker>>
  BY DEF Crash, Listening
<1> QED
  BY <1>2, <1>3, InputLess, StopStep DEF hostVars

\* The worker says one thing more.
LEMMA KnownAppend ==
  ASSUME NEW w \in Seq(WorkerFrames), NEW x \in WorkerFrames, NEW r
  PROVE  /\ Len(Append(w, x)) = Len(w) + 1 /\ Len(w) \in Nat
         /\ \A c : Shown(c, Len(w) + 1, w, r) => Shown(c, Len(Append(w, x)) + 1, Append(w, x), r)
         /\ \A c, y : y \in Cancels /\ InvocationOf[y] = InvocationOf[c] /\ x = Result(y, "accepted")
                        => Shown(c, Len(Append(w, x)) + 1, Append(w, x), r)
         /\ AnswersKnown(w, r) /\ (x.kind = "result" /\ x.value = "cancelled"
                                     => x.call \in Executions /\ Shown(x.call, Len(w) + 1, w, r))
              => AnswersKnown(Append(w, x), r)
<1> DEFINE q == Append(w, x)
<1>1. /\ DOMAIN w = 1..Len(w) /\ Len(w) \in Nat
      /\ DOMAIN q = 1..(Len(w) + 1) /\ Len(q) = Len(w) + 1
      /\ \A i \in 1..Len(w) : q[i] = w[i]
      /\ q[Len(w) + 1] = x
  BY AppendProperties, LenProperties
<1> HIDE DEF q
<1>2. /\ \A i \in DOMAIN q : i \in DOMAIN w \/ i = Len(w) + 1
      /\ \A i \in DOMAIN w : i \in DOMAIN q /\ q[i] = w[i] /\ i < Len(q) + 1
      /\ Len(w) + 1 \in DOMAIN q /\ Len(w) + 1 < Len(q) + 1
  BY <1>1
<1>3. ASSUME NEW c, NEW i, Shown(c, i, w, r) PROVE Shown(c, i, q, r)
  BY <1>2, <1>3 DEF Shown
<1>4. ASSUME NEW c, Shown(c, Len(w) + 1, w, r) PROVE Shown(c, Len(q) + 1, q, r)
  BY <1>2, <1>4 DEF Shown
<1>5. ASSUME NEW c, NEW y \in Cancels, InvocationOf[y] = InvocationOf[c], x = Result(y, "accepted")
      PROVE  Shown(c, Len(q) + 1, q, r)
  BY <1>1, <1>2, <1>5 DEF Shown
<1>6. ASSUME AnswersKnown(w, r),
             x.kind = "result" /\ x.value = "cancelled" => x.call \in Executions /\ Shown(x.call, Len(w) + 1, w, r)
      PROVE  AnswersKnown(q, r)
  <2> SUFFICES ASSUME NEW i \in DOMAIN q, q[i].kind = "result", q[i].value = "cancelled"
               PROVE  q[i].call \in Executions /\ Shown(q[i].call, i, q, r)
    BY DEF AnswersKnown
  <2>1. CASE i \in DOMAIN w
    <3>1. q[i] = w[i]
      BY <1>2, <2>1
    <3>2. w[i].call \in Executions /\ Shown(w[i].call, i, w, r)
      BY <1>6, <2>1, <3>1 DEF AnswersKnown
    <3> QED
      BY <1>3, <3>1, <3>2
  <2>2. CASE i = Len(w) + 1
    <3>1. q[i] = x
      BY <1>1, <2>2
    <3>2. x.call \in Executions /\ Shown(x.call, i, w, r)
      BY <1>6, <2>2, <3>1
    <3> QED
      BY <1>3, <3>1, <3>2
  <2> QED
    BY <1>2, <2>1, <2>2
<1> QED
  BY <1>1, <1>4, <1>5, <1>6 DEF q

\* A frame more on the worker's output, which nobody wrote before.
LEMMA SendOnce ==
  ASSUME TypeOK, SessionInv, NEW x \in WorkerFrames, \A f \in Outbound : ~Same(f, x),
         toHost'.wire = Append(toHost.wire, x)
  PROVE  Once(toHost'.wire) /\ Outbound' = Outbound \cup {x}
<1>1. toHost.wire \in Seq(WorkerFrames) /\ Once(toHost.wire)
  BY DEF TypeOK, ChannelTypeOK, OutputPipes, SessionInv, OnceInv
<1>2. \A f \in ToSet(toHost.wire) : ~Same(f, x)
  BY DEF Outbound
<1>3. Once(Append(toHost.wire, x)) /\ ToSet(Append(toHost.wire, x)) = ToSet(toHost.wire) \cup {x}
  BY <1>1, <1>2, OnceAppend
<1> QED
  BY <1>3 DEF Outbound

\* What the output tells once it has one frame more.
LEMMA SendKnown ==
  ASSUME TypeOK, SessionInv, UNCHANGED <<hostState, result>>, NEW x \in WorkerFrames,
         toHost'.wire = Append(toHost.wire, x), Listening' => toHost'.eof = "open",
         toHost.eof = "open",
         x.kind = "result" /\ x.value = "cancelled" => x.call \in Executions /\ x.call \in cancelled,
         \/ cancelled' = cancelled
         \/ \E y \in Cancels : /\ x = Result(y, "accepted")
                               /\ \A c \in cancelled' \ cancelled : InvocationOf[y] = InvocationOf[c]
  PROVE  CancelInv'
<1>1. PICK w, q, r : w = toHost.wire /\ q = Append(toHost.wire, x) /\ r = result
  OBVIOUS
<1>2. w \in Seq(WorkerFrames) /\ q = Append(w, x) /\ toHost'.wire = q /\ result' = r /\ (Open' <=> Open)
  BY <1>1 DEF TypeOK, ChannelTypeOK, OutputPipes, Open
<1>3. /\ \A c : Shown(c, Len(w) + 1, w, r) => Shown(c, Len(q) + 1, q, r)
      /\ \A c, y : y \in Cancels /\ InvocationOf[y] = InvocationOf[c] /\ x = Result(y, "accepted")
                        => Shown(c, Len(q) + 1, q, r)
      /\ AnswersKnown(w, r) /\ (x.kind = "result" /\ x.value = "cancelled"
                                     => x.call \in Executions /\ Shown(x.call, Len(w) + 1, w, r))
              => AnswersKnown(q, r)
  <2>1. w \in Seq(WorkerFrames) /\ x \in WorkerFrames /\ q = Append(w, x)
    BY <1>2
  <2> QED
    BY ONLY <2>1, KnownAppend
<1>4. Open => CancelledKnown(w, r) /\ AnswersKnown(w, r)
  BY <1>1 DEF SessionInv, CancelInv
<1>5. Open => AnswersKnown(q, r)
  BY <1>3, <1>4 DEF CancelledKnown
<1>6. Open => \A c \in cancelled' : Shown(c, Len(q) + 1, q, r)
  BY <1>3, <1>4 DEF CancelledKnown
<1>7. Open => CancelledKnown(toHost.wire, result)'
  BY <1>2, <1>6 DEF CancelledKnown
<1>8. Open => AnswersKnown(toHost.wire, result)'
  BY <1>2, <1>5 DEF AnswersKnown
<1> QED
  BY <1>2, <1>7, <1>8 DEF CancelInv

\* The worker answers a request it owes an answer; once its output has ended nobody
\* hears.
LEMMA ReplyStep ==
  ASSUME TypeOK, TypeOK', SessionInv, UNCHANGED <<hostVars, sequence, pendingActions>>,
         NEW c \in Calls, NEW v \in ValueOf(c), Reply(c, v),
         PipeOnce(toWorker'), Inbound' \subseteq Inbound, Request(c) \notin Inbound',
         \/ task[c] \in AtWork
         \/ task[c] = "none" /\ c \notin Executions /\ Asked(c),
         v = "cancelled" => c \in Executions /\ c \in cancelled,
         \/ cancelled' = cancelled
         \/ /\ c \in Cancels /\ v = "accepted" /\ toHost.eof = "open"
            /\ \A e \in cancelled' \ cancelled : InvocationOf[c] = InvocationOf[e]
  PROVE  SessionInv'
<1>1. UNCHANGED <<hostState, result, handler>> /\ (Open' <=> Open)
  BY DEF hostVars, Open
<1>2. Asked(c) /\ (task[c] \notin {"replying", "done"})
  BY DEF SessionInv, CallsInv, AtWork
<1>3. task'[c] \in {"replying", "done"} /\ \A d \in Calls \ {c} : task'[d] = task[d]
  BY DEF Reply, TypeOK, WorkerTypeOK
<1>4. Executions \subseteq Calls
  BY DEF Calls, DataCalls
<1>5. PICK x : x = Result(c, v)
  OBVIOUS
<1>6. x \in WorkerFrames /\ x.kind = "result" /\ x.call = c /\ x.value = v
  BY <1>5, FrameTypes DEF ValueOf, Replies, Result
<1>7. \A f \in Outbound : ~Same(f, x)
  BY <1>2, <1>6 DEF Same, SessionInv, CallsInv
<1>8. \/ toHost.eof # "open" /\ toHost' = toHost /\ workerState' = workerState
      \/ toHost.eof = "open" /\ toHost'.wire = Append(toHost.wire, x) /\ (Listening' => toHost'.eof = "open")
  <2>1. CASE toHost.eof # "open"
    BY <2>1 DEF Reply
  <2>2. CASE toHost.eof = "open"
    <3>1. toHost = [wire |-> toHost.wire, eof |-> "open"]
      BY <2>2 DEF TypeOK, ChannelTypeOK, OutputPipes
    <3>2. Sent(x) = [wire |-> Append(toHost.wire, x), eof |-> "open"]
      BY SMTT(30), <3>1 DEF Sent
    <3>3. CASE toHost' = Sent(x)
      BY <2>2, <3>2, <3>3
    <3>4. CASE toHost' = [Sent(x) EXCEPT !.eof = "clean"] /\ workerState' = "closed"
      BY <2>2, <3>2, <3>4 DEF Listening
    <3> QED
      BY <1>5, <2>2, <3>3, <3>4 DEF Reply
  <2> QED
    BY <2>1, <2>2
<1>9. /\ Once(toHost'.wire)
      /\ \A f \in Outbound' : f \in Outbound \/ f = x
  <2>1. CASE toHost' = toHost
    BY <2>1 DEF SessionInv, OnceInv, Outbound
  <2>2. CASE toHost'.wire = Append(toHost.wire, x)
    BY <1>6, <1>7, <2>2, SendOnce
  <2> QED
    BY <1>8, <2>1, <2>2
<1>10. OnceInv'
  BY <1>9 DEF OnceInv
<1>11. CallsInv'
  <2>1. \A d \in Calls : Asked(d)' <=> Asked(d)
    BY <1>1 DEF Asked
  <2>2. \A d \in Calls : Request(d) \in Inbound' => task'[d] = "none" /\ Asked(d)'
    BY <1>3, <2>1 DEF SessionInv, CallsInv
  <2>3. \A d \in Calls : task'[d] \in AtWork => d # c /\ task[d] \in AtWork
    BY <1>3 DEF AtWork
  <2>4. \A d \in Calls : task'[d] \in AtWork => Asked(d)'
    BY <2>1, <2>3 DEF SessionInv, CallsInv
  <2>5. \A d \in Calls : task'[d] # "none" => result'[d] # "idle"
    BY <1>1, <1>2, <1>3 DEF SessionInv, CallsInv, Asked
  <2>6. ASSUME NEW f \in Outbound', f.kind = "result"
        PROVE  task'[f.call] \in {"replying", "done"} /\ Asked(f.call)' /\ f.value \in ValueOf(f.call)
    <3>1. CASE f \in Outbound
      <4>1. f.call \in Calls
        BY <2>6, <3>1, FramesTyped
      <4>2. task[f.call] \in {"replying", "done"} /\ Asked(f.call) /\ f.value \in ValueOf(f.call)
        BY <2>6, <3>1 DEF SessionInv, CallsInv
      <4> QED
        BY <1>2, <1>3, <2>1, <4>1, <4>2
    <3>2. CASE f = x
      BY <1>2, <1>3, <1>6, <2>1, <3>2
    <3> QED
      BY <1>9, <3>1, <3>2
  <2>7. \A d \in Executions : Live(d)' => Live(d)
    BY <1>4, <2>3 DEF Live
  <2>8. \A d, e \in Executions : d # e /\ InvocationOf[d] = InvocationOf[e] => ~(Live(d)' /\ Live(e)')
    BY <2>7 DEF SessionInv, CallsInv
  <2> QED
    BY <2>2, <2>4, <2>5, <2>6, <2>8 DEF CallsInv, ValueOf
<1>12. ActionsInv'
  <2>1. \A e \in Executions : \/ task'[e] = task[e]
                              \/ task[e] # "none" /\ task'[e] \notin {"none", "running"}
    BY <1>3, <1>4 DEF AtWork
  <2>2. \A f \in Outbound' : f.kind = "action" => f \in Outbound
    BY <1>6, <1>9
  <2> QED
    BY <1>1, <2>1, <2>2, ActionsLess DEF SessionInv
<1>13. CancelInv'
  <2>1. CASE toHost.eof # "open" /\ toHost' = toHost /\ workerState' = workerState
    BY <1>1, <2>1, CancelsKept DEF SessionInv
  <2>2. CASE /\ toHost.eof = "open" /\ toHost'.wire = Append(toHost.wire, x)
             /\ (Listening' => toHost'.eof = "open")
    <3>1. \/ cancelled' = cancelled
          \/ \E y \in Cancels : /\ x = Result(y, "accepted")
                                /\ \A e \in cancelled' \ cancelled : InvocationOf[y] = InvocationOf[e]
      BY <1>5
    <3> QED
      BY <1>1, <1>6, <2>2, <3>1, SendKnown
  <2> QED
    BY <1>8, <2>1, <2>2
<1> QED
  BY <1>10, <1>11, <1>12, <1>13 DEF SessionInv

\* A request the worker has taken is under way; a close cancels the executions.
LEMMA StartStep ==
  ASSUME TypeOK, TypeOK', SessionInv, UNCHANGED <<hostVars, sequence, pendingActions, toHost>>,
         NEW c \in Calls, task[c] = "none", task' = [task EXCEPT ![c] = "running"],
         PipeOnce(toWorker'), Inbound' \subseteq Inbound,
         Request(c) \in Inbound, Request(c) \notin Inbound',
         Listening' => Listening,
         cancelled' = cancelled \/ c = Close
  PROVE  SessionInv'
<1>1. UNCHANGED <<hostState, result, handler>> /\ (Open' <=> Open) /\ Outbound' = Outbound
  BY DEF hostVars, Open, Outbound
<1>2. task'[c] = "running" /\ \A d \in Calls \ {c} : task'[d] = task[d]
  BY DEF TypeOK, WorkerTypeOK
<1>3. Executions \subseteq Calls /\ Close \in Calls
  BY DEF Calls, DataCalls
<1>4. Asked(c)
  BY DEF SessionInv, CallsInv
<1>5. OnceInv'
  BY DEF SessionInv, OnceInv
<1>6. CallsInv'
  <2>1. \A d \in Calls : Asked(d)' <=> Asked(d)
    BY <1>1 DEF Asked
  <2>2. \A d \in Calls : Request(d) \in Inbound' => task'[d] = "none" /\ Asked(d)'
    BY <1>2, <2>1 DEF SessionInv, CallsInv
  <2>3. \A d \in Calls : task'[d] \in AtWork => d = c \/ task[d] \in AtWork
    BY <1>2
  <2>4. \A d \in Calls : task'[d] \in AtWork => Asked(d)'
    BY <1>4, <2>1, <2>3 DEF SessionInv, CallsInv
  <2>5. \A d \in Calls : task'[d] # "none" => result'[d] # "idle"
    BY <1>1, <1>2, <1>4 DEF SessionInv, CallsInv, Asked
  <2>6. ASSUME NEW f \in Outbound', f.kind = "result"
        PROVE  task'[f.call] \in {"replying", "done"} /\ Asked(f.call)' /\ f.value \in ValueOf(f.call)
    <3>1. f.call \in Calls
      BY <1>1, <2>6, FramesTyped
    <3>2. task[f.call] \in {"replying", "done"} /\ Asked(f.call) /\ f.value \in ValueOf(f.call)
      BY <1>1, <2>6 DEF SessionInv, CallsInv
    <3> QED
      BY <1>2, <2>1, <3>1, <3>2
  <2>7. \A d \in Executions : Live(d)' => Live(d)
    BY <1>3, <2>3 DEF Live
  <2>8. \A d, e \in Executions : d # e /\ InvocationOf[d] = InvocationOf[e] => ~(Live(d)' /\ Live(e)')
    BY <2>7 DEF SessionInv, CallsInv
  <2> QED
    BY <2>2, <2>4, <2>5, <2>6, <2>8 DEF CallsInv, ValueOf
<1>7. ActionsInv'
  <2>1. \A e \in Executions : task'[e] = "none" => sequence[e] = 0
    BY <1>2, <1>3 DEF SessionInv, ActionsInv
  <2>2. ASSUME NEW a \in pendingActions PROVE a[2] = sequence[a[1]] /\ task'[a[1]] # "running"
    <3>1. a[1] \in Executions /\ a[2] \in 1..MaxActions
      BY DEF TypeOK, WorkerTypeOK, Actions
    <3>2. a[2] = sequence[a[1]] /\ task[a[1]] # "running"
      BY DEF SessionInv, ActionsInv
    <3>3. a[1] # c
      BY <3>1, <3>2 DEF SessionInv, ActionsInv
    <3> QED
      BY <1>2, <1>3, <3>1, <3>2, <3>3
  <2>3. ASSUME NEW e \in Executions, NEW n \in 1..MaxActions,
               n < sequence[e] \/ (n = sequence[e] /\ task'[e] = "running")
        PROVE  handler[<<e, n>>] = "settled"
    <3>1. CASE e = c
      <4>1. sequence[e] = 0 /\ n \in Nat \ {0}
        BY <3>1 DEF SessionInv, ActionsInv
      <4> QED
        BY <2>3, <4>1
    <3>2. CASE e # c
      BY <1>2, <1>3, <2>3, <3>2 DEF SessionInv, ActionsInv
    <3> QED
      BY <3>1, <3>2
  <2>4. /\ \A e \in Executions, n \in 1..MaxActions : handler[<<e, n>>] # "none" => n <= sequence[e]
        /\ \A f \in Outbound : f.kind = "action" => f.action[2] = sequence[f.action[1]] /\ handler[f.action] = "none"
        /\ \A f \in Inbound' : f.kind = "outcome" => handler[f.action] = "settled"
    BY DEF SessionInv, ActionsInv
  <2> QED
    BY <1>1, <2>1, <2>2, <2>3, <2>4 DEF ActionsInv
<1>8. CancelInv'
  <2>1. CASE cancelled' = cancelled
    <3>1. Open => (toHost.eof = "open" => CancelledKnown(toHost.wire, result)) /\ AnswersKnown(toHost.wire, result)
      BY DEF SessionInv, CancelInv
    <3>2. CancelledKnown(toHost.wire, result) => CancelledKnown(toHost.wire, result)'
      BY <1>1, <2>1 DEF CancelledKnown
    <3>3. AnswersKnown(toHost.wire, result) => AnswersKnown(toHost.wire, result)'
      BY <1>1 DEF AnswersKnown
    <3> QED
      BY <1>1, <3>1, <3>2, <3>3 DEF SessionInv, CancelInv
  <2>2. CASE c = Close
    <3>1. Open => result[Close] = "pending"
      BY <1>4, <2>2 DEF Asked
    <3>2. Open => CancelledKnown(toHost.wire, result)'
      BY <1>1, <3>1 DEF CancelledKnown, Shown
    <3>3. AnswersKnown(toHost.wire, result) => AnswersKnown(toHost.wire, result)'
      BY <1>1 DEF AnswersKnown
    <3> QED
      BY <1>1, <3>2, <3>3 DEF SessionInv, CancelInv
  <2> QED
    BY <2>1, <2>2
<1> QED
  BY <1>5, <1>6, <1>7, <1>8 DEF SessionInv

\* An outcome that is waited for lets its execution go on.
LEMMA OutcomeTaken ==
  ASSUME TypeOK, TypeOK', SessionInv, UNCHANGED <<hostVars, workerState, cancelled, sequence, toHost>>,
         PipeOnce(toWorker'), Inbound' \subseteq Inbound,
         NEW a \in pendingActions, handler[a] = "settled",
         pendingActions' = pendingActions \ {a},
         \/ task' = task
         \/ /\ task[a[1]] = "waiting"
            /\ \E t \in {"running", "faulted"} : task' = [task EXCEPT ![a[1]] = t]
  PROVE  SessionInv'
<1>1. UNCHANGED <<hostState, result, handler>> /\ (Open' <=> Open) /\ Outbound' = Outbound
  BY DEF hostVars, Open, Outbound
<1>2. a \in Actions /\ a[1] \in Executions /\ a[2] \in 1..MaxActions /\ a = <<a[1], a[2]>>
      /\ a[2] = sequence[a[1]] /\ Executions \subseteq Calls
  BY DEF TypeOK, WorkerTypeOK, Actions, SessionInv, ActionsInv, Calls, DataCalls
<1>3. /\ \A d \in Calls \ {a[1]} : task'[d] = task[d]
      /\ task'[a[1]] = task[a[1]] \/ (task[a[1]] = "waiting" /\ task'[a[1]] \in {"running", "faulted"})
  BY <1>2 DEF TypeOK, WorkerTypeOK
<1>4. OnceInv'
  BY DEF SessionInv, OnceInv
<1>5. CallsInv'
  <2>1. \A c \in Calls : task'[c] = task[c] \/ (task[c] \in AtWork /\ task'[c] \in AtWork)
    BY <1>3 DEF AtWork
  <2> QED
    BY <1>1, <2>1, CallsLess DEF SessionInv
<1>6. ActionsInv'
  <2>1. \A e \in Executions : task'[e] = "none" => sequence[e] = 0
    BY <1>2, <1>3 DEF SessionInv, ActionsInv
  <2>2. ASSUME NEW b \in pendingActions' PROVE b[2] = sequence[b[1]] /\ task'[b[1]] # "running"
    <3>1. b \in pendingActions /\ b # a /\ b[1] \in Executions /\ b = <<b[1], b[2]>>
      BY DEF TypeOK, WorkerTypeOK, Actions
    <3>2. b[2] = sequence[b[1]] /\ task[b[1]] # "running"
      BY <3>1 DEF SessionInv, ActionsInv
    <3>3. b[1] # a[1]
      BY <1>2, <3>1, <3>2
    <3> QED
      BY <1>2, <1>3, <3>1, <3>2, <3>3
  <2>3. ASSUME NEW e \in Executions, NEW n \in 1..MaxActions,
               n < sequence[e] \/ (n = sequence[e] /\ task'[e] = "running")
        PROVE  handler[<<e, n>>] = "settled"
    <3>1. CASE e = a[1] /\ n = sequence[e]
      BY <1>2, <3>1
    <3>2. CASE e # a[1] \/ n < sequence[e]
      BY <1>2, <1>3, <2>3, <3>2 DEF SessionInv, ActionsInv
    <3> QED
      BY <2>3, <3>1, <3>2
  <2>4. /\ \A e \in Executions, n \in 1..MaxActions : handler[<<e, n>>] # "none" => n <= sequence[e]
        /\ \A f \in Outbound : f.kind = "action" => f.action[2] = sequence[f.action[1]] /\ handler[f.action] = "none"
        /\ \A f \in Inbound' : f.kind = "outcome" => handler[f.action] = "settled"
    BY DEF SessionInv, ActionsInv
  <2> QED
    BY <1>1, <2>1, <2>2, <2>3, <2>4 DEF ActionsInv
<1>7. CancelInv'
  BY <1>1, CancelsKept DEF SessionInv
<1> QED
  BY <1>4, <1>5, <1>6, <1>7 DEF SessionInv

\* An execution performs its next action: the engine asks for it, or the action fails.
LEMMA RequestStep ==
  ASSUME TypeOK, TypeOK', SessionInv, UNCHANGED hostVars, NEW e \in Executions, RequestAction(e)
  PROVE  SessionInv'
<1>1. UNCHANGED <<hostState, result, handler, workerState, cancelled, toWorker>>
      /\ (Open' <=> Open) /\ Inbound' = Inbound /\ (Listening' <=> Listening)
  BY DEF hostVars, Open, RequestAction, Inbound, Listening
<1>2. PICK a, n : a = <<e, n>> /\ n = sequence[e] + 1
  OBVIOUS
<1>3. /\ task[e] = "running" /\ n \in 1..MaxActions /\ a \in Actions /\ a[1] = e /\ a[2] = n
      /\ sequence' = [sequence EXCEPT ![e] = n]
      /\ \/ /\ Listening
            /\ task' = [task EXCEPT ![e] = "waiting"]
            /\ pendingActions' = pendingActions \cup {a} /\ toHost' = Sent(Action(a))
         \/ /\ task' = [task EXCEPT ![e] = "faulted"]
            /\ UNCHANGED <<pendingActions, toHost>>
  <2>1. sequence[e] \in Nat /\ MaxActions \in Nat /\ sequence[e] < MaxActions
    BY ChannelAssumption DEF RequestAction, TypeOK, WorkerTypeOK
  <2>2. n \in 1..MaxActions
    BY <1>2, <2>1
  <2> QED
    BY <1>2, <2>2 DEF RequestAction, Actions, Listening
<1>4. Executions \subseteq Calls
  BY DEF Calls, DataCalls
<1>5. /\ sequence'[e] = n /\ \A d \in Executions \ {e} : sequence'[d] = sequence[d]
      /\ task'[e] \in {"waiting", "faulted"} /\ \A d \in Calls \ {e} : task'[d] = task[d]
      /\ sequence[e] \in Nat /\ n = sequence[e] + 1
  BY <1>2, <1>3, <1>4 DEF TypeOK, WorkerTypeOK
<1>6. PICK x : x = Action(a)
  OBVIOUS
<1>7. x \in WorkerFrames /\ x.kind = "action" /\ x.action = a
  BY <1>3, <1>6, FrameTypes DEF Action
<1>8. \A f \in Outbound : f.kind = "action" =>
         f.action \in Actions /\ f.action[1] # e /\ f.action[2] = sequence[f.action[1]] /\ handler[f.action] = "none"
  <2> SUFFICES ASSUME NEW f \in Outbound, f.kind = "action"
               PROVE  /\ f.action \in Actions /\ f.action[1] # e
                      /\ f.action[2] = sequence[f.action[1]] /\ handler[f.action] = "none"
    OBVIOUS
  <2>1. f.action \in Actions /\ f.action[2] = sequence[f.action[1]] /\ handler[f.action] = "none"
    BY FramesTyped DEF SessionInv, ActionsInv
  <2>2. f.action = <<f.action[1], f.action[2]>> /\ f.action[2] \in 1..MaxActions
    BY <2>1 DEF Actions
  <2>3. f.action[1] # e
    BY ZenonT(40), <1>3, <2>1, <2>2 DEF SessionInv, ActionsInv
  <2> QED
    BY <2>1, <2>3
<1>9. \A f \in Outbound : ~Same(f, x)
  BY <1>3, <1>7, <1>8 DEF Same
<1>10. /\ Once(toHost'.wire)
       /\ \A f \in Outbound' : f \in Outbound \/ f = x
       /\ CancelInv'
  <2>1. CASE toHost' = toHost
    BY <1>1, <2>1, CancelsKept DEF SessionInv, OnceInv, Outbound
  <2>2. CASE toHost' = Sent(Action(a)) /\ Listening
    <3>1. toHost.eof = "open"
      BY <2>2 DEF SessionInv, CancelInv
    <3>2. toHost'.wire = Append(toHost.wire, x) /\ toHost'.eof = "open"
      BY <1>6, <2>2, <3>1 DEF Sent, TypeOK, ChannelTypeOK, OutputPipes
    <3>3. Once(toHost'.wire) /\ Outbound' = Outbound \cup {x}
      BY <1>7, <1>9, <3>2, SendOnce
    <3>4. CancelInv'
      BY <1>1, <1>7, <3>1, <3>2, SendKnown
    <3> QED
      BY <3>3, <3>4
  <2> QED
    BY <1>3, <2>1, <2>2
<1>11. OnceInv'
  BY <1>1, <1>10 DEF SessionInv, OnceInv
<1>12. CallsInv'
  <2>1. \A c \in Calls : task'[c] = task[c] \/ (task[c] \in AtWork /\ task'[c] \in AtWork)
    BY <1>3, <1>5 DEF AtWork
  <2>2. \A f \in Outbound' : f.kind = "result" => f \in Outbound
    BY <1>7, <1>10
  <2> QED
    BY <1>1, <2>1, <2>2, CallsLess DEF SessionInv
<1>13. ActionsInv'
  <2>1. \A d \in Executions : task'[d] = "none" => sequence'[d] = 0
    BY <1>4, <1>5 DEF SessionInv, ActionsInv
  <2>2. ASSUME NEW b \in pendingActions' PROVE b[2] = sequence'[b[1]] /\ task'[b[1]] # "running"
    <3>1. CASE b = a
      BY <1>3, <1>5, <3>1
    <3>2. CASE b \in pendingActions
      <4>1. b[1] \in Executions /\ b[2] = sequence[b[1]] /\ task[b[1]] # "running"
        BY <3>2 DEF TypeOK, WorkerTypeOK, Actions, SessionInv, ActionsInv
      <4>2. b[1] # e
        BY <1>3, <4>1
      <4> QED
        BY <1>4, <1>5, <4>1, <4>2
    <3> QED
      BY <1>3, <3>1, <3>2
  <2>3. ASSUME NEW d \in Executions, NEW i \in 1..MaxActions,
               i < sequence'[d] \/ (i = sequence'[d] /\ task'[d] = "running")
        PROVE  handler[<<d, i>>] = "settled"
    <3>1. CASE d = e
      <4>1. i < sequence[e] \/ i = sequence[e]
        BY <1>5, <2>3, <3>1
      <4> QED
        BY <1>3, <3>1, <4>1 DEF SessionInv, ActionsInv
    <3>2. CASE d # e
      <4>1. i < sequence[d] \/ (i = sequence[d] /\ task[d] = "running")
        BY <1>4, <1>5, <2>3, <3>2
      <4> QED
        BY <4>1 DEF SessionInv, ActionsInv
    <3> QED
      BY <3>1, <3>2
  <2>4. ASSUME NEW d \in Executions, NEW i \in 1..MaxActions, handler[<<d, i>>] # "none"
        PROVE  i <= sequence'[d]
    <3>1. i <= sequence[d]
      BY <2>4 DEF SessionInv, ActionsInv
    <3>2. CASE d = e
      BY <1>5, <3>1, <3>2
    <3>3. CASE d # e
      BY <1>5, <3>1, <3>3
    <3> QED
      BY <3>2, <3>3
  <2>5. handler[a] = "none"
    <3>1. handler[<<e, n>>] # "none" => n <= sequence[e]
      BY <1>3 DEF SessionInv, ActionsInv
    <3> QED
      BY <1>2, <1>5, <3>1
  <2>6. ASSUME NEW f \in Outbound', f.kind = "action"
        PROVE  f.action[2] = sequence'[f.action[1]] /\ handler[f.action] = "none"
    <3>1. CASE f = x
      BY <1>3, <1>5, <1>7, <2>5, <3>1
    <3>2. CASE f \in Outbound
      <4>1. f.action[1] \in Executions \ {e} /\ f.action[2] = sequence[f.action[1]] /\ handler[f.action] = "none"
        BY <1>8, <2>6, <3>2 DEF Actions
      <4> QED
        BY <1>5, <4>1
    <3> QED
      BY <1>10, <3>1, <3>2
  <2>7. \A f \in Inbound : f.kind = "outcome" => handler[f.action] = "settled"
    BY DEF SessionInv, ActionsInv
  <2> QED
    BY <1>1, <2>1, <2>2, <2>3, <2>4, <2>6, <2>7 DEF ActionsInv
<1> QED
  BY <1>10, <1>11, <1>12, <1>13 DEF SessionInv

\* The sink settles the write of a reply.
LEMMA WrittenStep ==
  ASSUME TypeOK, TypeOK', SessionInv, UNCHANGED hostVars, NEW c \in Calls, ReplyWritten(c)
  PROVE  SessionInv'
<1>1. UNCHANGED <<hostState, result, handler, cancelled, sequence, pendingActions, toWorker>>
      /\ (Open' <=> Open) /\ Inbound' = Inbound
  BY DEF hostVars, Open, ReplyWritten, Inbound
<1>2. task[c] = "replying" /\ task'[c] = "done" /\ \A d \in Calls \ {c} : task'[d] = task[d]
  BY DEF ReplyWritten, TypeOK, WorkerTypeOK
<1>3. /\ toHost'.wire = toHost.wire
      /\ \/ UNCHANGED <<workerState, toHost>>
         \/ ~Listening' /\ toHost'.eof = "clean"
  <2>1. toHost = [wire |-> toHost.wire, eof |-> toHost.eof]
    BY DEF TypeOK, ChannelTypeOK, OutputPipes
  <2> QED
    BY <2>1 DEF ReplyWritten, Listening
<1>4. OnceInv' /\ Outbound' = Outbound
  BY <1>1, <1>3 DEF SessionInv, OnceInv, Outbound
<1>5. Executions \subseteq Calls
  BY DEF Calls, DataCalls
<1>6. CallsInv'
  BY <1>1, <1>2, <1>4, CallsLess DEF SessionInv
<1>7. ActionsInv'
  BY <1>1, <1>2, <1>4, <1>5, ActionsLess DEF SessionInv
<1>8. CancelInv'
  <2>1. CASE UNCHANGED <<workerState, toHost>>
    BY <1>1, <2>1, CancelsKept DEF SessionInv
  <2>2. CASE ~Listening' /\ toHost'.eof = "clean"
    <3>1. Open => AnswersKnown(toHost.wire, result)
      BY DEF SessionInv, CancelInv
    <3>2. AnswersKnown(toHost.wire, result) => AnswersKnown(toHost'.wire, result')
      BY <1>1, <1>3 DEF AnswersKnown
    <3> QED
      BY <1>1, <2>2, <3>1, <3>2 DEF CancelInv
  <2> QED
    BY <1>3, <2>1, <2>2
<1> QED
  BY <1>4, <1>6, <1>7, <1>8 DEF SessionInv

\* What a bridge method may settle with.
LEMMA SettlementsOf ==
  ASSUME TypeOK, NEW c \in Calls, NEW v \in Settlements(c)
  PROVE  /\ v \in ValueOf(c) /\ task[c] \in AtWork
         /\ v = "cancelled" => c \in Executions /\ c \in cancelled
<1>1. Close \notin Executions /\ Close \notin Inquiries
  BY ChannelAssumption DEF DataCalls
<1>2. CASE c \in Inquiries /\ task[c] = "running"
  BY <1>1, <1>2 DEF Settlements, ValueOf, Replies, AtWork
<1>3. CASE c \in Executions /\ task[c] = "running"
  <2>1. c \notin Inquiries
    BY <1>3, ChannelAssumption
  <2>2. v \in {"completed", "failed", "not_started"} \/ (v = "cancelled" /\ c \in cancelled)
    <3>1. Settlements(c) = {"completed", "failed"}
                             \cup (IF c \in cancelled THEN {"cancelled"} ELSE {})
                             \cup (IF sequence[c] = 0 THEN {"not_started"} ELSE {})
      BY <1>1, <1>3, <2>1 DEF Settlements
    <3> QED
      BY <3>1
  <2> QED
    BY <1>1, <1>3, <2>2 DEF ValueOf, Replies, AtWork
<1>4. CASE c \in Executions /\ task[c] = "waiting" /\ c \in cancelled
  BY <1>1, <1>4 DEF Settlements, ValueOf, Replies, AtWork
<1>5. CASE c \in Executions /\ task[c] = "faulted"
  BY <1>1, <1>5 DEF Settlements, ValueOf, Replies, AtWork
<1>6. CASE c = Close /\ task[c] = "running"
  BY <1>1, <1>6 DEF Settlements, ValueOf, Replies, AtWork
<1> QED
  BY <1>2, <1>3, <1>4, <1>5, <1>6 DEF Settlements

\* The worker takes a frame.
LEMMA ReceiveStep == ASSUME TypeOK, TypeOK', SessionInv, UNCHANGED hostVars, WorkerReceives PROVE SessionInv'
<1>0. PICK frame : frame = Head(toWorker.wire)
  OBVIOUS
<1>1. /\ PipeOnce(toWorker') /\ Inbound' \subseteq Inbound /\ frame \in Inbound
      /\ \A f \in Inbound' : ~Same(f, frame)
  <2>1. toWorker \in InputPipes /\ PipeOnce(toWorker) /\ toWorker.wire # <<>>
        /\ toWorker' = [toWorker EXCEPT !.wire = Tail(@)]
    BY DEF TypeOK, ChannelTypeOK, SessionInv, OnceInv, WorkerReceives
  <2> QED
    BY <1>0, <2>1, TakeInput DEF Inbound
<1>2. /\ Listening /\ toHost.eof = "open" /\ toWorker.wire # <<>>
      /\ toWorker' = [toWorker EXCEPT !.wire = Tail(@)]
  BY DEF WorkerReceives, SessionInv, CancelInv
<1>3. CASE frame.kind = "request" /\ BeginRequest(frame.call)
  <2>1. PICK c \in Calls : c = frame.call /\ frame = Request(c)
    BY <1>1, <1>3, FramesTyped
  <2>2. /\ Request(c) \in Inbound /\ Request(c) \notin Inbound'
        /\ task[c] = "none" /\ Asked(c)
    BY <1>1, <2>1 DEF Same, SessionInv, CallsInv
  <2>3. CASE ~Admitted(c)
    BY <1>2, <1>3, <2>1, <2>3, WorkerFailsStep DEF BeginRequest
  <2>4. CASE Admitted(c) /\ c = Close
    <3>1. BeginClose
      BY <1>3, <2>1, <2>4 DEF BeginRequest
    <3> QED
      BY <1>1, <1>2, <2>2, <2>4, <3>1, StartStep DEF BeginClose
  <2>5. CASE Admitted(c) /\ c # Close /\ c \in Cancels
    <3>1. BeginCancel(c)
      BY <1>3, <2>1, <2>5 DEF BeginRequest
    <3>2. PICK target : target = {e \in Interpreting : InvocationOf[e] = InvocationOf[c]}
      OBVIOUS
    <3>3. PICK v : v = IF target = {} THEN "not_active" ELSE "accepted"
      OBVIOUS
    <3>4. /\ cancelled' = cancelled \cup target /\ Reply(c, v) /\ UNCHANGED <<sequence, pendingActions>>
          /\ v \in ValueOf(c) /\ v # "cancelled" /\ c \notin Executions
      BY <2>5, <3>1, <3>2, <3>3, ChannelAssumption DEF BeginCancel, ValueOf, Replies, DataCalls
    <3>5. \/ cancelled' = cancelled
          \/ /\ c \in Cancels /\ v = "accepted" /\ toHost.eof = "open"
             /\ \A e \in cancelled' \ cancelled : InvocationOf[c] = InvocationOf[e]
      BY <1>2, <2>5, <3>2, <3>3, <3>4
    <3> QED
      BY <1>1, <2>2, <3>4, <3>5, ReplyStep
  <2>6. CASE Admitted(c) /\ c # Close /\ c \notin Cancels
    <3>1. BeginData(c)
      BY <1>3, <2>1, <2>6 DEF BeginRequest
    <3>2. c \in Executions => \A e \in Interpreting : InvocationOf[e] # InvocationOf[c]
      <4> SUFFICES ASSUME c \in Executions, NEW e \in Interpreting, InvocationOf[e] = InvocationOf[c]
                   PROVE  FALSE
        OBVIOUS
      <4>1. e \in Executions /\ Live(e) /\ Live(c) /\ e # c
        BY <2>2 DEF Interpreting, Live, AtWork
      <4> QED
        BY <4>1 DEF SessionInv, CallsInv
    <3>3. task' = [task EXCEPT ![c] = "running"] /\ UNCHANGED <<workerState, toHost, cancelled, sequence, pendingActions>>
      BY <3>1, <3>2 DEF BeginData
    <3> QED
      BY <1>1, <2>2, <3>3, StartStep DEF Listening
  <2> QED
    BY <2>3, <2>4, <2>5, <2>6
<1>4. CASE frame.kind = "outcome" /\ AcceptOutcome(frame.action, frame.ok)
  <2>1. PICK a, ok : a = frame.action /\ ok = frame.ok
    OBVIOUS
  <2>2. CASE a \notin pendingActions
    BY <1>2, <1>4, <2>1, <2>2, WorkerFailsStep DEF AcceptOutcome
  <2>3. CASE a \in pendingActions
    <3>1. handler[a] = "settled"
      BY <1>1, <1>4, <2>1 DEF SessionInv, ActionsInv
    <3>2. /\ pendingActions' = pendingActions \ {a}
          /\ UNCHANGED <<workerState, cancelled, sequence, toHost>>
          /\ \/ task' = task
             \/ /\ task[a[1]] = "waiting"
                /\ \E t \in {"running", "faulted"} : task' = [task EXCEPT ![a[1]] = t]
      BY <1>4, <2>1, <2>3 DEF AcceptOutcome
    <3> QED
      BY <1>1, <2>3, <3>1, <3>2, OutcomeTaken
  <2> QED
    BY <2>2, <2>3
<1> QED
  BY <1>0, <1>3, <1>4 DEF WorkerReceives

\* Every step of the worker.
LEMMA WorkerStepKeeps == ASSUME TypeOK, TypeOK', SessionInv, WorkerStep PROVE SessionInv'
<1>0. WorkerNext /\ UNCHANGED hostVars
  BY DEF WorkerStep
<1>1. CASE WorkerReceives
  BY <1>0, <1>1, ReceiveStep
<1>2. CASE WorkerReadsEnd
  BY <1>0, <1>2, WorkerFailsStep DEF WorkerReadsEnd
<1>3. ASSUME NEW e \in Executions, RequestAction(e) PROVE SessionInv'
  BY <1>0, <1>3, RequestStep
<1>4. ASSUME NEW c \in Calls, NEW v \in Replies, EngineSettles(c, v) PROVE SessionInv'
  <2>1. /\ v \in ValueOf(c) /\ task[c] \in AtWork
        /\ v = "cancelled" => c \in Executions /\ c \in cancelled
    BY <1>4, SettlementsOf DEF EngineSettles
  <2>2. Reply(c, v) /\ UNCHANGED <<cancelled, sequence, pendingActions, toWorker>>
    BY <1>4 DEF EngineSettles
  <2>3. PipeOnce(toWorker') /\ Inbound' \subseteq Inbound
    BY <2>2, InputLess
  <2>4. Request(c) \notin Inbound'
    BY <2>1, <2>3 DEF SessionInv, CallsInv, AtWork
  <2> QED
    BY <1>0, <2>1, <2>2, <2>3, <2>4, ReplyStep
<1>5. ASSUME NEW c \in Calls, ReplyWritten(c) PROVE SessionInv'
  BY <1>0, <1>5, WrittenStep
<1>6. ASSUME NEW c \in DataCalls, ResultNotEncodable(c) PROVE SessionInv'
  <2>1. c \in Calls
    BY DEF Calls
  <2>2. PICK v : v \in Settlements(c)
    BY <1>6 DEF ResultNotEncodable
  <2>3. task[c] # "none"
    BY <2>1, <2>2, SettlementsOf DEF AtWork
  <2>4. task' = [task EXCEPT ![c] = "done"] /\ WorkerFails /\ UNCHANGED <<sequence, toWorker>>
    BY <1>6 DEF ResultNotEncodable
  <2>5. \A d \in Calls : task'[d] = task[d] \/ (task[d] # "none" /\ task'[d] = "done")
    BY <2>1, <2>3, <2>4 DEF TypeOK, WorkerTypeOK
  <2> QED
    BY <1>0, <2>4, <2>5, WorkerFailsStep
<1>7. CASE Crash
  BY <1>0, <1>7, CrashStep
<1> QED
  BY <1>0, <1>1, <1>2, <1>3, <1>4, <1>5, <1>6, <1>7 DEF WorkerNext

\* At the start nothing is under way.
LEMMA SessionStarts == Init => SessionInv
<1> SUFFICES ASSUME Init PROVE SessionInv
  OBVIOUS
<1>1. /\ toWorker.ordinary = <<>> /\ toWorker.reserved = <<>> /\ toWorker.wire = <<>>
      /\ toHost.wire = <<>> /\ toHost.eof = "open"
      /\ hostState = "ready" /\ result = [c \in Calls |-> "idle"] /\ handler = [a \in Actions |-> "none"]
      /\ task = [c \in Calls |-> "none"] /\ cancelled = {} /\ pendingActions = {}
      /\ sequence = [e \in Executions |-> 0]
  BY DEF Init, HostInit, WorkerInit, ChannelInit
<1>2. ToSet(<<>>) = {} /\ Once(<<>>) /\ DOMAIN <<>> = {}
  BY DEF ToSet, Once
<1>3. OnceInv
  BY <1>1, <1>2 DEF OnceInv, PipeOnce, Apart
<1>4. Inbound = {} /\ Outbound = {}
  BY <1>1, <1>2 DEF Inbound, Outbound, FramesOf
<1>5. CallsInv
  <2>1. Executions \subseteq Calls
    BY DEF Calls, DataCalls
  <2> QED
    BY <1>1, <1>4, <2>1 DEF CallsInv, Live, AtWork
<1>6. ActionsInv
  <2>1. \A e \in Executions, n \in 1..MaxActions : <<e, n>> \in Actions
    BY DEF Actions
  <2>2. Executions \subseteq Calls /\ \A n \in 1..MaxActions : ~(n < 0) /\ n # 0
    BY DEF Calls, DataCalls
  <2> QED
    BY <1>1, <1>4, <2>1, <2>2 DEF ActionsInv
<1>7. CancelInv
  BY <1>1, <1>2 DEF CancelInv, CancelledKnown, AnswersKnown
<1> QED
  BY <1>3, <1>5, <1>6, <1>7 DEF SessionInv

\* Every step, and none.
LEMMA SessionKept == ASSUME TypeOK, TypeOK', SessionInv, [Next]_vars PROVE SessionInv'
<1>1. CASE Next
  BY <1>1, HostStepKeeps, WorkerStepKeeps DEF Next
<1>2. CASE UNCHANGED vars
  <2>1. /\ UNCHANGED <<hostState, result, handler, toWorker, toHost>>
        /\ UNCHANGED <<workerState, task, cancelled, sequence, pendingActions>>
    BY <1>2 DEF vars, hostVars, workerVars
  <2> USE <2>1
  <2>2. /\ OnceInv' = OnceInv /\ CallsInv' = CallsInv
    BY DEF OnceInv, CallsInv, Inbound, Outbound, Asked, Open, Live
  <2>3. ActionsInv' = ActionsInv
    BY DEF ActionsInv, Inbound, Outbound
  <2>4. CancelInv' = CancelInv
    BY DEF CancelInv, Open, Listening, CancelledKnown, AnswersKnown
  <2> QED
    BY <2>2, <2>3, <2>4 DEF SessionInv
<1> QED
  BY <1>1, <1>2

\* The invariant of the connection.
LEMMA SessionInvariant == Spec => []SessionInv
<1>1. Init => SessionInv
  BY SessionStarts
<1>2. TypeOK /\ TypeOK' /\ SessionInv /\ [Next]_vars => SessionInv'
  BY SessionKept
<1> QED
  BY <1>1, <1>2, TypeCorrect, PTL DEF Spec

\* The worker only works for calls the host still waits for.
THEOREM WorksForPending == Spec => []WorkerWorksForPending
<1>1. TypeOK /\ SessionInv => WorkerWorksForPending
  <2> SUFFICES ASSUME TypeOK, SessionInv PROVE WorkerWorksForPending
    OBVIOUS
  <2>1. ASSUME hostState \in {"ready", "closing"}, NEW c \in Tasks, task[c] # "replying"
        PROVE  result[c] = "pending"
    <3>1. c \in Calls /\ task[c] \in AtWork
      BY <2>1 DEF Tasks, AtWork, TypeOK, WorkerTypeOK
    <3> QED
      BY <2>1, <3>1 DEF SessionInv, CallsInv, Asked, Open
  <2>2. ASSUME NEW i \in DOMAIN toHost.wire, toHost.wire[i].kind = "result"
        PROVE  toHost.wire[i].value # "duplicate"
    <3>1. toHost.wire[i] \in Outbound
      BY DEF Outbound, ToSet
    <3>2. toHost.wire[i].value \in ValueOf(toHost.wire[i].call)
      BY <2>2, <3>1 DEF SessionInv, CallsInv
    <3> QED
      BY <3>2 DEF ValueOf, Replies
  <2> QED
    BY <2>1, <2>2 DEF WorkerWorksForPending
<1> QED
  BY <1>1, TypeCorrect, SessionInvariant, PTL

----------------------------------------------------------------------------
(* The connection is a RuntimeBridge.                                      *)

\* A close that is not answered is closing the connection.
CloseInv == result[Close] = "pending" => hostState = "closing"

\* #fail answers what is pending.
LEMMA FailAnswersClose ==
  ASSUME TypeOK, CloseInv, NEW code \in {"worker_lost", "adapter_failure"}, Fail(code)
  PROVE  CloseInv'
<1>1. Close \in Calls
  BY DEF Calls
<1>2. CASE hostState \in {"closed", "failed"}
  BY <1>2 DEF Fail, CloseInv
<1>3. CASE hostState \notin {"closed", "failed"}
  <2>1. result'[Close] = IF result[Close] = "pending" THEN code ELSE result[Close]
    BY <1>1, <1>3 DEF Fail
  <2> QED
    BY <2>1 DEF CloseInv
<1> QED
  BY <1>2, <1>3

\* A step of the host keeps it.
LEMMA HostKeepsClose == ASSUME TypeOK, TypeOK', CloseInv, SessionInv, HostStep PROVE CloseInv'
<1>0. HostNext
  BY DEF HostStep
<1>1. Close \in Calls /\ Close \notin DataCalls /\ Close \notin Cancels /\ DataCalls \subseteq Calls /\ Cancels \subseteq Calls
  BY ChannelAssumption DEF Calls
<1>2. \A code \in Refusals : code # "pending"
  BY DEF Refusals
<1>3. ClosedCode \in Refusals /\ {"duplicate", "capacity_exceeded", "invalid_request"} \subseteq Refusals
  BY DEF ClosedCode, Refusals
<1>4. ASSUME NEW c \in DataCalls, CallData(c) PROVE CloseInv'
  <2>1. result'[Close] = result[Close] /\ hostState' = hostState
    BY <1>1, <1>4 DEF CallData, Refuse, Submit, TypeOK, HostTypeOK
  <2> QED
    BY <2>1 DEF CloseInv
<1>5. ASSUME NEW x \in Cancels, CallCancel(x) PROVE CloseInv'
  <2>1. result'[Close] = result[Close] /\ hostState' = hostState
    BY <1>1, <1>5 DEF CallCancel, Refuse, Submit, TypeOK, HostTypeOK
  <2> QED
    BY <2>1 DEF CloseInv
<1>6. CASE CallClose
  <2>1. CASE hostState # "ready"
    <3>1. result'[Close] = ClosedCode
      BY <1>1, <1>6, <2>1 DEF CallClose, Refuse, TypeOK, HostTypeOK
    <3> QED
      BY <1>2, <1>3, <3>1 DEF CloseInv
  <2>2. CASE hostState = "ready"
    BY <1>6, <2>2 DEF CallClose, CloseInv
  <2> QED
    BY <2>1, <2>2
<1>7. CASE HostReceives
  <2>1. PICK frame : frame = Head(toHost.wire)
    OBVIOUS
  <2>2. CASE frame.kind = "action" /\ AcceptAction(frame.action)
    <3>1. CASE ActionAccepted(frame.action)
      BY <2>2, <3>1 DEF AcceptAction, CloseInv
    <3>2. CASE ~ActionAccepted(frame.action)
      BY <2>2, <3>2, FailAnswersClose DEF AcceptAction
    <3> QED
      BY <3>1, <3>2
  <2>3. CASE frame.kind = "result" /\ AcceptResult(frame.call, frame.value)
    <3>1. CASE ResultAccepted(frame.call)
      <4>1. CASE frame.call = Close
        <5>1. toHost.wire \in Seq(WorkerFrames) /\ toHost.wire # <<>>
          BY <1>7 DEF HostReceives, TypeOK, ChannelTypeOK, OutputPipes
        <5>2. frame \in Outbound
          <6>1. Len(toHost.wire) \in Nat /\ DOMAIN toHost.wire = 1..Len(toHost.wire) /\ Len(toHost.wire) # 0
            BY <5>1, LenProperties, EmptySeq
          <6>2. 1 \in DOMAIN toHost.wire /\ frame = toHost.wire[1]
            BY <2>1, <5>1, <6>1, HeadTailProperties
          <6> QED
            BY <6>2 DEF Outbound, ToSet
        <5>3. frame.value = "closed"
          BY <2>3, <4>1, <5>2 DEF SessionInv, CallsInv, ValueOf
        <5>4. result'[Close] = "closed"
          BY <1>1, <2>3, <3>1, <4>1, <5>3 DEF AcceptResult, TypeOK, HostTypeOK
        <5> QED
          BY <5>4 DEF CloseInv
      <4>2. CASE frame.call # Close
        BY <1>1, <2>3, <3>1, <4>2 DEF AcceptResult, CloseInv, TypeOK, HostTypeOK
      <4> QED
        BY <4>1, <4>2
    <3>2. CASE ~ResultAccepted(frame.call)
      BY <2>3, <3>2, FailAnswersClose DEF AcceptResult
    <3> QED
      BY <3>1, <3>2
  <2> QED
    BY <1>7, <2>1, <2>2, <2>3 DEF HostReceives
<1>8. CASE \E code \in {"worker_lost", "adapter_failure"} : Fail(code)
  BY <1>8, FailAnswersClose
<1>9. CASE UNCHANGED <<hostState, result>>
  BY <1>9 DEF CloseInv
<1>10. ASSUME NEW a \in Actions, NEW ok \in BOOLEAN, HandlerSettles(a, ok) PROVE CloseInv'
  BY <1>8, <1>9, <1>10 DEF HandlerSettles
<1>11. ASSUME NEW a \in Actions, HandlerOutcomeRejected(a) PROVE CloseInv'
  BY <1>8, <1>11 DEF HandlerOutcomeRejected
<1>12. HostReadsEnd \/ HostWriteFails \/ Terminate => \E code \in {"worker_lost", "adapter_failure"} : Fail(code)
  BY DEF HostReadsEnd, HostWriteFails, Terminate
<1>13. HostSinkSettles => UNCHANGED <<hostState, result>>
  BY DEF HostSinkSettles, hostVars
<1> QED
  BY <1>0, <1>4, <1>5, <1>6, <1>7, <1>8, <1>9, <1>10, <1>11, <1>12, <1>13 DEF HostNext

\* A close that is not answered is closing the connection, always.
LEMMA CloseInvariant == Spec => []CloseInv
<1>1. Init => CloseInv
  <2>1. Close \in Calls
    BY DEF Calls
  <2> QED
    BY <2>1 DEF Init, HostInit, CloseInv
<1>2. TypeOK /\ TypeOK' /\ SessionInv /\ CloseInv /\ [Next]_vars => CloseInv'
  <2> SUFFICES ASSUME TypeOK, TypeOK', SessionInv, CloseInv, [Next]_vars PROVE CloseInv'
    OBVIOUS
  <2>1. CASE HostStep
    BY <2>1, HostKeepsClose
  <2>2. CASE UNCHANGED hostVars
    BY <2>2 DEF hostVars, CloseInv
  <2> QED
    BY <2>1, <2>2 DEF Next, WorkerStep, vars
<1> QED
  BY <1>1, <1>2, TypeCorrect, SessionInvariant, PTL DEF Spec

\* The contract speaks of the same calls and actions.
LEMMA SameCalls ==
  /\ Contract!Calls = Calls /\ Contract!Actions = Actions
  /\ (Contract!Open <=> Open)
  /\ \A a : Contract!RequestId(a) = RequestId(a)
BY DEF Contract!Calls, Calls, DataCalls, Contract!Actions, Actions, Contract!Open, Open,
       Contract!RequestId, RequestId

\* A connection that fails while it is open is lost.
LEMMA FailLoses ==
  ASSUME TypeOK, Open, NEW code \in {"worker_lost", "adapter_failure"}, Fail(code),
         \/ UNCHANGED handler
         \/ \E a \in Actions : handler[a] = "running" /\ handler' = [handler EXCEPT ![a] = "settled"]
  PROVE  Contract!Next
<1>1. /\ hostState' = "failed"
      /\ result' = [c \in Calls |-> IF result[c] = "pending" THEN code ELSE result[c]]
  BY DEF Fail, Open
<1>2. [c \in Calls |-> IF result[c] = "pending" THEN code ELSE result[c]]
        = [c \in Calls |-> IF c \in {d \in Calls : result[d] = "pending"} THEN code ELSE result[c]]
  OBVIOUS
<1>3. Contract!Lose
  BY <1>1, <1>2, SameCalls DEF Contract!Lose, Contract!Losses, Contract!Unanswered, Contract!Conclude
<1> QED
  BY <1>3 DEF Contract!Next

\* A failure of a connection that is over, with or without a handler that settles.
LEMMA FailOver ==
  ASSUME TypeOK, ~Open, NEW code \in {"worker_lost", "adapter_failure"}, Fail(code),
         \/ UNCHANGED handler
         \/ \E a \in Actions : handler[a] = "running" /\ handler' = [handler EXCEPT ![a] = "settled"]
  PROVE  Contract!Next \/ UNCHANGED <<hostState, result, handler>>
<1>1. UNCHANGED <<hostState, result>>
  BY DEF Fail, Open, TypeOK, HostTypeOK
<1>2. CASE UNCHANGED handler
  BY <1>1, <1>2
<1>3. ASSUME NEW a \in Actions, handler[a] = "running", handler' = [handler EXCEPT ![a] = "settled"]
      PROVE  Contract!Next
  BY <1>1, <1>3, SameCalls DEF Contract!Next, Contract!Conclude
<1> QED
  BY <1>2, <1>3

\* A refused call declines.
LEMMA RefuseDeclines ==
  ASSUME NEW c \in Calls, result[c] = "idle", NEW code \in Refusals \ {"worker_lost"}, Refuse(c, code)
  PROVE  Contract!Next
<1>1. code \in Contract!Declines
  BY DEF Refusals, Contract!Declines
<1>2. Contract!Decline(c)
  BY <1>1 DEF Contract!Decline, Refuse
<1> QED
  BY <1>2, SameCalls DEF Contract!Next

\* A call that is submitted begins.
LEMMA SubmitBegins ==
  ASSUME NEW c \in Calls, result[c] = "idle", hostState = "ready", Submit(c),
         hostState' = IF c = Close THEN "closing" ELSE hostState
  PROVE  Contract!Next
<1>1. Contract!Begin(c)
  BY DEF Contract!Begin, Submit
<1> QED
  BY <1>1, SameCalls DEF Contract!Next

\* An accepted request performs its action: the earlier ones of its execution have
\* settled.
LEMMA ServePerforms ==
  ASSUME TypeOK, SessionInv, HandlerInv, Open, NEW f \in Outbound, f.kind = "action",
         ActionAccepted(f.action), AcceptAction(f.action)
  PROVE  Contract!Next
<1>1. PICK a : a = f.action
  OBVIOUS
<1>2. /\ a \in Actions /\ a[1] \in Executions /\ a[2] \in 1..MaxActions /\ a[2] = sequence[a[1]]
      /\ handler[a] = "none"
  BY <1>1, FramesTyped DEF SessionInv, ActionsInv, Actions
<1>3. /\ result[a[1]] = "pending" /\ handler' = [handler EXCEPT ![a] = "running"]
      /\ UNCHANGED <<hostState, result>>
      /\ \A b \in Actions : handler[b] # "none" => RequestId(b) # RequestId(a)
  BY <1>1 DEF AcceptAction, ActionAccepted, HandlerInv
<1>4. \A n \in 1..(a[2] - 1) : n \in 1..MaxActions /\ n < sequence[a[1]]
  <2>1. MaxActions \in Nat
    BY ChannelAssumption
  <2> QED
    BY <1>2, <2>1
<1>5. \A n \in 1..(a[2] - 1) : handler[<<a[1], n>>] = "settled"
  BY <1>2, <1>4 DEF SessionInv, ActionsInv
<1>6. Contract!Perform(a)
  BY <1>2, <1>3, <1>5, SameCalls DEF Contract!Perform
<1> QED
  BY <1>2, <1>6, SameCalls DEF Contract!Next

\* An accepted result answers its call: who is told of a cancellation has been
\* cancelled by somebody.
LEMMA ResultAnswers ==
  ASSUME TypeOK, SessionInv, HandlerInv, CloseInv, Open, toHost.wire # <<>>,
         NEW f, f = Head(toHost.wire), f.kind = "result",
         ResultAccepted(f.call), AcceptResult(f.call, f.value), UNCHANGED handler
  PROVE  Contract!Next
<1>1. PICK w, c, v : w = toHost.wire /\ c = f.call /\ v = f.value
  OBVIOUS
<1>2. /\ w \in Seq(WorkerFrames) /\ w # <<>> /\ 1 \in DOMAIN w /\ w[1] = f
      /\ DOMAIN w = 1..Len(w)
  <2>1. w \in Seq(WorkerFrames) /\ w # <<>>
    BY <1>1 DEF TypeOK, ChannelTypeOK, OutputPipes
  <2>2. Len(w) \in Nat /\ DOMAIN w = 1..Len(w) /\ Len(w) # 0
    BY <2>1, LenProperties, EmptySeq
  <2> QED
    BY <1>1, <2>1, <2>2, HeadTailProperties
<1>3. f \in Outbound
  BY <1>1, <1>2 DEF Outbound, ToSet
<1>4. c \in Calls /\ v \in ValueOf(c)
  BY <1>1, <1>3, FramesTyped DEF SessionInv, CallsInv
<1>5. result[c] = "pending" /\ result' = [result EXCEPT ![c] = v] /\ \A a \in Running : a[1] # c
  BY <1>1 DEF ResultAccepted, AcceptResult
<1>6. CASE c # Close
  <2>1. v \in Contract!Answers /\ UNCHANGED hostState
    BY <1>1, <1>4, <1>6 DEF ValueOf, Replies, Contract!Answers, AcceptResult
  <2>2. Contract!RunningOf(c) = {}
    BY <1>5, SameCalls DEF Contract!RunningOf, Running
  <2>3. v = "cancelled" => c \in Executions /\ Contract!CancelledBy(c)
    <3> SUFFICES ASSUME v = "cancelled" PROVE c \in Executions /\ Contract!CancelledBy(c)
      OBVIOUS
    <3>1. c \in Executions /\ Shown(c, 1, w, result)
      BY <1>1, <1>2 DEF SessionInv, CancelInv, AnswersKnown
    <3>2. \A j \in DOMAIN w : ~(j < 1)
      BY <1>2
    <3> QED
      BY <3>1, <3>2 DEF Shown, Contract!CancelledBy
  <2>4. Contract!Answer(c)
    BY <1>5, <1>6, <2>1, <2>2, <2>3, SameCalls DEF Contract!Answer
  <2> QED
    BY <1>4, <2>4, SameCalls DEF Contract!Next
<1>7. CASE c = Close
  <2>1. /\ v = "closed" /\ hostState' = "closed" /\ hostState = "closing" /\ Pending = {Close}
    BY <1>1, <1>4, <1>5, <1>7 DEF ValueOf, AcceptResult, CloseInv, ResultAccepted
  <2>2. \A a \in Actions : handler[a] # "running"
    <3> SUFFICES ASSUME NEW a \in Actions, handler[a] = "running" PROVE FALSE
      OBVIOUS
    <3>1. a[1] \in Executions /\ a[1] \in Calls /\ a[1] # Close
      BY ChannelAssumption DEF Actions, Calls, DataCalls
    <3>2. result[a[1]] = "pending"
      BY <2>1 DEF HandlerInv, HandlersOfPendingOnly, Running
    <3> QED
      BY <2>1, <3>1, <3>2 DEF Pending
  <2>3. Contract!Unanswered = {Close}
    BY <2>1, SameCalls DEF Contract!Unanswered, Pending
  <2>4. Contract!FinishClose
    BY <1>5, <1>7, <2>1, <2>2, <2>3, SameCalls DEF Contract!FinishClose
  <2> QED
    BY <2>4 DEF Contract!Next
<1> QED
  BY <1>6, <1>7

\* A step of the host is a step of the contract, or nothing a host can see.
LEMMA HostStepRefines ==
  ASSUME TypeOK, SessionInv, HandlerInv, CloseInv, HostNext
  PROVE  Contract!Next \/ UNCHANGED <<hostState, result, handler>>
<1>1. Close \in Calls /\ Close \notin DataCalls /\ Close \notin Cancels /\ DataCalls \subseteq Calls /\ Cancels \subseteq Calls
  BY ChannelAssumption DEF Calls
<1>2. /\ ClosedCode \in Refusals \ {"worker_lost"}
      /\ {"duplicate", "capacity_exceeded", "invalid_request"} \subseteq Refusals \ {"worker_lost"}
  BY DEF ClosedCode, Refusals
<1>3. ASSUME NEW c \in DataCalls, CallData(c) PROVE Contract!Next
  <2>1. result[c] = "idle" /\ c \in Calls /\ c # Close
    BY <1>1, <1>3 DEF CallData
  <2>2. CASE \E code \in Refusals \ {"worker_lost"} : Refuse(c, code)
    BY <2>1, <2>2, RefuseDeclines
  <2>3. CASE hostState = "ready" /\ Submit(c) /\ UNCHANGED hostState
    BY <2>1, <2>3, SubmitBegins
  <2> QED
    BY <1>2, <1>3, <2>2, <2>3 DEF CallData
<1>4. ASSUME NEW x \in Cancels, CallCancel(x) PROVE Contract!Next
  <2>1. result[x] = "idle" /\ x \in Calls /\ x # Close
    BY <1>1, <1>4 DEF CallCancel
  <2>2. CASE \E code \in Refusals \ {"worker_lost"} : Refuse(x, code)
    BY <2>1, <2>2, RefuseDeclines
  <2>3. CASE hostState = "ready" /\ Submit(x) /\ UNCHANGED hostState
    BY <2>1, <2>3, SubmitBegins
  <2> QED
    BY <1>2, <1>4, <2>2, <2>3 DEF CallCancel
<1>5. CASE CallClose
  <2>1. result[Close] = "idle"
    BY <1>5 DEF CallClose
  <2>2. CASE \E code \in Refusals \ {"worker_lost"} : Refuse(Close, code)
    BY <1>1, <2>1, <2>2, RefuseDeclines
  <2>3. CASE hostState = "ready" /\ Submit(Close) /\ hostState' = "closing"
    BY <1>1, <2>1, <2>3, SubmitBegins
  <2> QED
    BY <1>2, <1>5, <2>2, <2>3 DEF CallClose
<1>6. ASSUME NEW code \in {"worker_lost", "adapter_failure"}, Fail(code),
             \/ UNCHANGED handler
             \/ \E a \in Actions : handler[a] = "running" /\ handler' = [handler EXCEPT ![a] = "settled"]
      PROVE  Contract!Next \/ UNCHANGED <<hostState, result, handler>>
  BY <1>6, FailLoses, FailOver
<1>7. CASE HostReceives
  <2>1. Open /\ toHost.wire # <<>>
    BY <1>7 DEF HostReceives, Open
  <2>2. PICK frame : frame = Head(toHost.wire)
    OBVIOUS
  <2>3. frame \in Outbound
    <3>1. toHost.wire \in Seq(WorkerFrames)
      BY DEF TypeOK, ChannelTypeOK, OutputPipes
    <3>2. Len(toHost.wire) \in Nat /\ DOMAIN toHost.wire = 1..Len(toHost.wire) /\ Len(toHost.wire) # 0
      BY <2>1, <3>1, LenProperties, EmptySeq
    <3>3. 1 \in DOMAIN toHost.wire /\ frame = toHost.wire[1]
      BY <2>1, <2>2, <3>1, <3>2, HeadTailProperties
    <3> QED
      BY <3>3 DEF Outbound, ToSet
  <2>4. CASE frame.kind = "action" /\ AcceptAction(frame.action)
    <3>1. CASE ActionAccepted(frame.action)
      BY <2>1, <2>3, <2>4, <3>1, ServePerforms
    <3>2. CASE ~ActionAccepted(frame.action)
      <4>1. Fail("adapter_failure") /\ UNCHANGED handler
        BY <2>4, <3>2 DEF AcceptAction
      <4> QED
        BY <1>6, <4>1
    <3> QED
      BY <3>1, <3>2
  <2>5. CASE /\ frame.kind = "result" /\ AcceptResult(frame.call, frame.value)
             /\ UNCHANGED <<handler, seenRequests>>
    <3>1. CASE ResultAccepted(frame.call)
      BY <2>1, <2>2, <2>5, <3>1, ResultAnswers
    <3>2. CASE ~ResultAccepted(frame.call)
      <4>1. Fail("adapter_failure") /\ UNCHANGED handler
        BY <2>5, <3>2 DEF AcceptResult
      <4> QED
        BY <1>6, <4>1
    <3> QED
      BY <3>1, <3>2
  <2> QED
    BY <1>7, <2>2, <2>4, <2>5 DEF HostReceives
<1>8. CASE HostReadsEnd
  <2>1. \E code \in {"worker_lost", "adapter_failure"} : Fail(code) /\ UNCHANGED handler
    BY <1>8 DEF HostReadsEnd
  <2> QED
    BY <1>6, <2>1
<1>9. ASSUME NEW a \in Actions, NEW ok \in BOOLEAN, HandlerSettles(a, ok)
      PROVE  Contract!Next \/ UNCHANGED <<hostState, result, handler>>
  <2>1. handler[a] = "running" /\ handler' = [handler EXCEPT ![a] = "settled"]
    BY <1>9 DEF HandlerSettles
  <2>2. CASE result[a[1]] = "pending"
    <3>1. UNCHANGED <<hostState, result>>
      BY <1>9, <2>2 DEF HandlerSettles
    <3> QED
      BY <2>1, <3>1, SameCalls DEF Contract!Next, Contract!Conclude
  <2>3. CASE result[a[1]] # "pending"
    <3>1. Fail("adapter_failure")
      BY <1>9, <2>3 DEF HandlerSettles
    <3> QED
      BY <1>6, <2>1, <3>1
  <2> QED
    BY <2>2, <2>3
<1>10. ASSUME NEW a \in Actions, HandlerOutcomeRejected(a)
       PROVE  Contract!Next \/ UNCHANGED <<hostState, result, handler>>
  BY <1>6, <1>10 DEF HandlerOutcomeRejected
<1>11. HostSinkSettles => UNCHANGED <<hostState, result, handler>>
  BY DEF HostSinkSettles, hostVars
<1>12. CASE HostWriteFails \/ Terminate
  BY <1>6, <1>12 DEF HostWriteFails, Terminate
<1> QED
  BY <1>3, <1>4, <1>5, <1>7, <1>8, <1>9, <1>10, <1>11, <1>12 DEF HostNext

\* The connection implements the contract of a RuntimeBridge.
THEOREM ContractImplemented == Spec => ImplementsContract
<1>1. Init => Contract!Init
  BY SameCalls DEF Init, HostInit, Contract!Init
<1>2. TypeOK /\ SessionInv /\ HandlerInv /\ CloseInv /\ [Next]_vars
        => [Contract!Next]_(Contract!contractVars)
  <2> SUFFICES ASSUME TypeOK, SessionInv, HandlerInv, CloseInv, [Next]_vars
               PROVE  Contract!Next \/ UNCHANGED <<hostState, result, handler>>
    BY DEF Contract!contractVars
  <2>1. CASE HostStep
    BY <2>1, HostStepRefines DEF HostStep
  <2>2. CASE UNCHANGED hostVars
    BY <2>2 DEF hostVars
  <2> QED
    BY <2>1, <2>2 DEF Next, WorkerStep, vars
<1> QED
  BY <1>1, <1>2, TypeCorrect, SessionInvariant, HandlerInvariant, CloseInvariant, PTL
     DEF Spec, ImplementsContract, Contract!Spec

----------------------------------------------------------------------------
(* Work alone does not cost the connection.                                *)

\* A connection without faults around it, whose sink writes at once, whose executions
\* are invocations of their own, with a reply limit that leaves room for the work.
Plain ==
  /\ Faults = {} /\ ~DeferredSink
  /\ MaxInFlight <= MaxPendingReplies
  /\ \A e, f \in Executions : InvocationOf[e] = InvocationOf[f] => e = f

\* Nobody has cancelled anything or closed.
Quiet == \A c \in Cancels \cup {Close} : result[c] = "idle"

\* Both ends are ready, and what either knows of an action the other one knows.
Agreed ==
  /\ hostState = "ready" /\ workerState = "ready"
  /\ ~toWorker.closed /\ toHost.eof = "open"
  /\ cancelled = {}
  /\ \A c \in Calls : task[c] # "replying"
  /\ Cardinality(Pending \cap DataCalls) <= MaxInFlight
  /\ IsFiniteSet(pendingActions) /\ Cardinality(pendingActions) <= MaxInFlight
  /\ \A a \in pendingActions : task[a[1]] = "waiting"
  /\ Running \subseteq pendingActions
  /\ \A f \in Outbound : f.kind = "action" => f.action \in pendingActions
  /\ \A f \in Inbound : f.kind = "outcome" => f.action \in pendingActions
  /\ \A r \in seenRequests : \E a \in Actions : handler[a] # "none" /\ RequestId(a) = r

\* While nobody has cancelled or closed the two ends agree.
WorkInv == Quiet => Agreed

\* Sets of calls are finite.
LEMMA CallsFinite ==
  ASSUME NEW S, S \subseteq Calls
  PROVE  IsFiniteSet(S) /\ Cardinality(S) \in Nat /\ \A T \in SUBSET S : Cardinality(T) <= Cardinality(S)
<1>1. IsFiniteSet(Calls)
  BY ChannelAssumption
<1>2. IsFiniteSet(S)
  BY <1>1, FS_Subset
<1> QED
  BY <1>2, FS_Subset, FS_CardinalityType

\* Writing does not close the pipe.
LEMMA WriteOpen ==
  ASSUME NEW t \in InputPipes, NEW frame \in HostFrames
  PROVE  Write(t, frame).closed = t.closed
<1>1. ASSUME NEW q \in InputPipes PROVE Pump(q).closed = q.closed
  BY DEF Pump, InputPipes
<1>2. CASE Reserved(frame)
  <2>1. PICK q : q = [t EXCEPT !.reserved = Append(@, frame)]
    OBVIOUS
  <2>2. Append(t.reserved, frame) \in Seq(HostFrames)
    BY DEF InputPipes
  <2>3. q \in InputPipes /\ q.closed = t.closed
    BY <2>1, <2>2 DEF InputPipes
  <2> QED
    BY <1>1, <1>2, <2>1, <2>3 DEF Write
<1>3. CASE ~Reserved(frame)
  <2>1. PICK q : q = [t EXCEPT !.ordinary = Append(@, frame)]
    OBVIOUS
  <2>2. Append(t.ordinary, frame) \in Seq(HostFrames)
    BY DEF InputPipes
  <2>3. q \in InputPipes /\ q.closed = t.closed
    BY <2>1, <2>2 DEF InputPipes
  <2> QED
    BY <1>1, <1>3, <2>1, <2>3 DEF Write
<1> QED
  BY <1>2, <1>3

\* A frame more is a frame more.
LEMMA AppendSet ==
  ASSUME NEW S, NEW s \in Seq(S), NEW x \in S
  PROVE  ToSet(Append(s, x)) = ToSet(s) \cup {x}
<1>1. /\ DOMAIN s = 1..Len(s) /\ Len(s) \in Nat
      /\ DOMAIN Append(s, x) = 1..(Len(s) + 1)
      /\ \A i \in 1..Len(s) : Append(s, x)[i] = s[i]
      /\ Append(s, x)[Len(s) + 1] = x
  BY AppendProperties, LenProperties
<1>2. /\ \A i \in DOMAIN Append(s, x) : i \in DOMAIN s \/ i = Len(s) + 1
      /\ \A i \in DOMAIN s : i \in DOMAIN Append(s, x)
      /\ Len(s) + 1 \in DOMAIN Append(s, x)
  BY <1>1
<1> QED
  BY <1>1, <1>2 DEF ToSet

\* The first frame of the worker's output is on it, and the others stay.
LEMMA FirstOutput ==
  ASSUME TypeOK, SessionInv, toHost.wire # <<>>, toHost' = [toHost EXCEPT !.wire = Tail(@)]
  PROVE  /\ Head(toHost.wire) \in Outbound /\ Outbound' \subseteq Outbound
         /\ toHost'.eof = toHost.eof
<1>1. /\ toHost.wire \in Seq(WorkerFrames) /\ Once(toHost.wire)
      /\ toHost'.wire = Tail(toHost.wire) /\ toHost'.eof = toHost.eof
  BY DEF TypeOK, ChannelTypeOK, OutputPipes, SessionInv, OnceInv
<1>2. ToSet(toHost.wire) = {Head(toHost.wire)} \cup ToSet(Tail(toHost.wire))
  BY <1>1, OnceTail
<1> QED
  BY <1>1, <1>2 DEF Outbound

\* What has been called stays so.
LEMMA CalledStays ==
  ASSUME TypeOK, SessionInv, HostNext
  PROVE  \A c \in Calls : result[c] # "idle" => result'[c] # "idle"
<1>1. /\ DataCalls \subseteq Calls /\ Cancels \subseteq Calls /\ Close \in Calls
      /\ result = [c \in Calls |-> result[c]]
  BY DEF Calls, TypeOK, HostTypeOK
<1>2. \A code \in {"worker_lost", "adapter_failure"} :
        Fail(code) => \A c \in Calls : result[c] # "idle" => result'[c] # "idle"
  <2> SUFFICES ASSUME NEW code \in {"worker_lost", "adapter_failure"}, Fail(code), NEW c \in Calls, result[c] # "idle"
               PROVE  result'[c] # "idle"
    OBVIOUS
  <2>1. CASE hostState \in {"closed", "failed"}
    BY <2>1 DEF Fail
  <2>2. CASE hostState \notin {"closed", "failed"}
    <3>1. result'[c] = IF result[c] = "pending" THEN code ELSE result[c]
      BY <2>2 DEF Fail
    <3> QED
      BY <3>1
  <2> QED
    BY <2>1, <2>2
<1>3. ASSUME NEW d \in Calls, result[d] = "idle", NEW v, result' = [result EXCEPT ![d] = v]
      PROVE  \A c \in Calls : result[c] # "idle" => result'[c] # "idle"
  BY <1>1, <1>3
<1>4. ASSUME NEW c \in DataCalls, CallData(c) PROVE \A d \in Calls : result[d] # "idle" => result'[d] # "idle"
  BY <1>1, <1>3, <1>4 DEF CallData, Refuse, Submit
<1>5. ASSUME NEW x \in Cancels, CallCancel(x) PROVE \A d \in Calls : result[d] # "idle" => result'[d] # "idle"
  BY <1>1, <1>3, <1>5 DEF CallCancel, Refuse, Submit
<1>6. CASE CallClose
  BY <1>1, <1>3, <1>6 DEF CallClose, Refuse, Submit
<1>7. CASE HostReceives
  <2>1. PICK frame : frame = Head(toHost.wire)
    OBVIOUS
  <2>2. CASE frame.kind = "action" /\ AcceptAction(frame.action)
    BY <1>2, <2>2 DEF AcceptAction
  <2>3. CASE frame.kind = "result" /\ AcceptResult(frame.call, frame.value)
    <3>1. frame \in Outbound
      BY <1>7, <2>1, FirstOutput DEF HostReceives
    <3>2. frame.call \in Calls /\ frame.value \in ValueOf(frame.call)
      BY <2>3, <3>1, FramesTyped DEF SessionInv, CallsInv
    <3>3. frame.value # "idle"
      BY <3>2 DEF ValueOf, Replies
    <3>4. CASE ResultAccepted(frame.call)
      BY <1>1, <2>3, <3>2, <3>3, <3>4 DEF AcceptResult
    <3>5. CASE ~ResultAccepted(frame.call)
      BY <1>2, <2>3, <3>5 DEF AcceptResult
    <3> QED
      BY <3>4, <3>5
  <2> QED
    BY <1>7, <2>1, <2>2, <2>3 DEF HostReceives
<1>8. ASSUME NEW a \in Actions, NEW ok \in BOOLEAN, HandlerSettles(a, ok)
      PROVE \A d \in Calls : result[d] # "idle" => result'[d] # "idle"
  BY <1>2, <1>8 DEF HandlerSettles
<1>9. ASSUME NEW a \in Actions, HandlerOutcomeRejected(a)
      PROVE \A d \in Calls : result[d] # "idle" => result'[d] # "idle"
  BY <1>2, <1>9 DEF HandlerOutcomeRejected
<1>10. CASE HostReadsEnd \/ HostWriteFails \/ Terminate
  BY <1>2, <1>10 DEF HostReadsEnd, HostWriteFails, Terminate
<1>11. CASE HostSinkSettles
  BY <1>11 DEF HostSinkSettles, hostVars
<1> QED
  BY <1>4, <1>5, <1>6, <1>7, <1>8, <1>9, <1>10, <1>11 DEF HostNext

\* A data request is refused, or it is one more of those pending.
LEMMA DataAgrees ==
  ASSUME TypeOK, TypeOK', SessionInv, WorkInv, Quiet, NEW c \in DataCalls, CallData(c), UNCHANGED workerVars
  PROVE  Agreed'
<1>0. /\ hostState = "ready" /\ result[c] = "idle" /\ c \in Calls
      /\ UNCHANGED <<workerState, task, cancelled, pendingActions>>
  BY DEF WorkInv, Agreed, CallData, workerVars, Calls
<1>1. CASE \E code \in Refusals : Refuse(c, code)
  <2>1. PICK code \in Refusals : Refuse(c, code)
    BY <1>1
  <2>2. code # "pending"
    BY DEF Refusals
  <2>3. /\ result' = [result EXCEPT ![c] = code]
        /\ UNCHANGED <<hostState, handler, seenRequests, toWorker, toHost>>
    BY <2>1 DEF Refuse
  <2>4. Pending' = Pending
    BY <1>0, <2>2, <2>3 DEF Pending, TypeOK, HostTypeOK
  <2>5. Running' = Running /\ Inbound' = Inbound /\ Outbound' = Outbound
    BY <2>3 DEF Running, Inbound, Outbound
  <2> QED
    BY <1>0, <2>3, <2>4, <2>5 DEF WorkInv, Agreed
<1>2. CASE Submit(c) /\ UNCHANGED hostState /\ ~(Cardinality(Pending \cap DataCalls) >= MaxInFlight)
  <2>1. /\ result' = [result EXCEPT ![c] = "pending"] /\ toWorker' = Write(toWorker, Request(c))
        /\ UNCHANGED <<hostState, handler, seenRequests, toHost>>
    BY <1>2 DEF Submit
  <2>2. \A f \in Inbound : ~Same(f, Request(c))
    <3> SUFFICES ASSUME NEW f \in Inbound, Same(f, Request(c)) PROVE FALSE
      OBVIOUS
    <3>1. f.kind = "request" /\ f.call = c
      BY DEF Same, Request
    <3>2. f = Request(c)
      BY <3>1, FramesTyped
    <3> QED
      BY <1>0, <3>2 DEF SessionInv, CallsInv, Asked
  <2>3. Inbound' = Inbound \cup {Request(c)} /\ toWorker'.closed = toWorker.closed
    <3>1. toWorker \in InputPipes /\ Request(c) \in HostFrames
      BY <1>0, FrameTypes DEF TypeOK, ChannelTypeOK
    <3> QED
      BY <2>1, <2>2, <3>1, WriteFrames, WriteOpen DEF SessionInv, OnceInv, Inbound
  <2>4. \A f \in Inbound' : f.kind = "outcome" => f \in Inbound
    BY <2>3 DEF Request
  <2>5. Pending' \cap DataCalls = (Pending \cap DataCalls) \cup {c}
    BY <1>0, <2>1 DEF Pending, TypeOK, HostTypeOK
  <2>6. Cardinality(Pending' \cap DataCalls) <= MaxInFlight
    <3>1. PICK S : S = Pending \cap DataCalls
      OBVIOUS
    <3>2. IsFiniteSet(S) /\ Cardinality(S) \in Nat
      BY <3>1, CallsFinite DEF Pending
    <3>3. c \notin S
      BY <1>0, <3>1 DEF Pending
    <3>4. Cardinality(S \cup {c}) = Cardinality(S) + 1
      BY <3>2, <3>3, FS_AddElement
    <3>5. MaxInFlight \in Nat /\ ~(Cardinality(S) >= MaxInFlight)
      BY <1>2, <3>1, ChannelAssumption
    <3>6. Cardinality(S) + 1 <= MaxInFlight
      BY <3>2, <3>5
    <3> QED
      BY <2>5, <3>1, <3>4, <3>6
  <2>7. Running' = Running /\ Outbound' = Outbound
    BY <2>1 DEF Running, Outbound
  <2> QED
    BY <1>0, <2>1, <2>3, <2>4, <2>6, <2>7 DEF WorkInv, Agreed
<1>3. ClosedCode \in Refusals /\ {"duplicate", "capacity_exceeded", "invalid_request"} \subseteq Refusals
  BY DEF ClosedCode, Refusals
<1> QED
  BY <1>0, <1>1, <1>2, <1>3 DEF CallData

\* A request for an action finds room, and is new.
LEMMA ServeAgrees ==
  ASSUME Plain, TypeOK, TypeOK', SessionInv, HandlerInv, WorkInv, Quiet, UNCHANGED workerVars,
         toHost.wire # <<>>, toHost' = [toHost EXCEPT !.wire = Tail(@)],
         NEW f, f = Head(toHost.wire), f.kind = "action", AcceptAction(f.action)
  PROVE  Agreed'
<1>0. Agreed /\ UNCHANGED <<workerState, task, cancelled, pendingActions>>
  BY DEF WorkInv, workerVars
<1>1. f \in Outbound /\ Outbound' \subseteq Outbound /\ toHost'.eof = toHost.eof
  BY FirstOutput
<1>2. PICK a : a = f.action
  OBVIOUS
<1>3. /\ a \in Actions /\ handler[a] = "none" /\ a \in pendingActions
      /\ a[1] \in Executions /\ a = <<a[1], a[2]>> /\ a[1] \in Calls
  BY <1>0, <1>1, <1>2, FramesTyped DEF SessionInv, ActionsInv, Agreed, Actions, Calls, DataCalls
<1>4. result[a[1]] = "pending"
  <2>1. task[a[1]] \in AtWork
    BY <1>0, <1>3 DEF Agreed, AtWork
  <2> QED
    BY <1>0, <1>3, <2>1 DEF SessionInv, CallsInv, Asked, Open, Agreed
<1>5. RequestId(a) \notin seenRequests
  <2> SUFFICES ASSUME RequestId(a) \in seenRequests PROVE FALSE
    OBVIOUS
  <2>1. PICK b \in Actions : handler[b] # "none" /\ RequestId(b) = RequestId(a)
    BY <1>0 DEF Agreed
  <2>2. b[1] \in Executions /\ b = <<b[1], b[2]>> /\ InvocationOf[b[1]] = InvocationOf[a[1]] /\ b[2] = a[2]
    BY <2>1 DEF Actions, RequestId
  <2>3. b = a
    BY <1>3, <2>2 DEF Plain
  <2> QED
    BY <1>3, <2>1, <2>3
<1>6. Cardinality(Running) < MaxInFlight
  <2>1. PICK S, T : S = pendingActions /\ T = Running
    OBVIOUS
  <2>2. IsFiniteSet(S) /\ Cardinality(S) <= MaxInFlight /\ a \in S /\ T \subseteq S \ {a}
    BY <1>0, <1>3, <2>1 DEF Agreed, Running
  <2>3. Cardinality(S) \in Nat /\ IsFiniteSet(S \ {a}) /\ Cardinality(S \ {a}) = Cardinality(S) - 1
    BY <2>2, FS_RemoveElement, FS_CardinalityType
  <2>4. Cardinality(T) <= Cardinality(S \ {a}) /\ Cardinality(T) \in Nat
    BY <2>2, <2>3, FS_Subset, FS_CardinalityType
  <2>5. MaxInFlight \in Nat
    BY ChannelAssumption
  <2>6. Cardinality(T) < MaxInFlight
    BY <2>2, <2>3, <2>4, <2>5
  <2> QED
    BY <2>1, <2>6
<1>7. /\ seenRequests' = seenRequests \cup {RequestId(a)} /\ handler' = [handler EXCEPT ![a] = "running"]
      /\ UNCHANGED <<hostState, result, toWorker>>
  BY <1>2, <1>4, <1>5, <1>6 DEF AcceptAction, ActionAccepted
<1>8. /\ Pending' = Pending /\ Inbound' = Inbound
      /\ handler'[a] = "running" /\ \A b \in Actions \ {a} : handler'[b] = handler[b]
  BY <1>3, <1>7 DEF Pending, Inbound, TypeOK, HostTypeOK
<1>9. Running' \subseteq pendingActions
  BY <1>0, <1>3, <1>8 DEF Agreed, Running
<1>10. \A r \in seenRequests' : \E b \in Actions : handler'[b] # "none" /\ RequestId(b) = r
  <2> SUFFICES ASSUME NEW r \in seenRequests' PROVE \E b \in Actions : handler'[b] # "none" /\ RequestId(b) = r
    OBVIOUS
  <2>1. CASE r = RequestId(a)
    BY <1>3, <1>8, <2>1
  <2>2. CASE r \in seenRequests
    <3>1. PICK b \in Actions : handler[b] # "none" /\ RequestId(b) = r
      BY <1>0, <2>2 DEF Agreed
    <3>2. handler'[b] # "none"
      BY <1>8, <3>1
    <3> QED
      BY <3>1, <3>2
  <2> QED
    BY <1>7, <2>1, <2>2
<1> QED
  BY <1>0, <1>1, <1>7, <1>8, <1>9, <1>10 DEF Agreed

\* An answer finds its call pending and none of its handlers running.
LEMMA AnswerAgrees ==
  ASSUME TypeOK, TypeOK', SessionInv, WorkInv, Quiet, UNCHANGED <<workerVars, handler, seenRequests>>,
         toHost.wire # <<>>, toHost' = [toHost EXCEPT !.wire = Tail(@)],
         NEW f, f = Head(toHost.wire), f.kind = "result", AcceptResult(f.call, f.value)
  PROVE  Agreed'
<1>0. Agreed /\ UNCHANGED <<workerState, task, cancelled, pendingActions>>
  BY DEF WorkInv, workerVars
<1>1. f \in Outbound /\ Outbound' \subseteq Outbound /\ toHost'.eof = toHost.eof
  BY FirstOutput
<1>2. PICK c, v : c = f.call /\ v = f.value
  OBVIOUS
<1>3. /\ c \in Calls /\ task[c] \in {"replying", "done"} /\ result[c] = "pending" /\ v \in ValueOf(c)
  BY <1>0, <1>1, <1>2, FramesTyped DEF SessionInv, CallsInv, Asked, Open, Agreed
<1>4. c # Close
  BY <1>3 DEF Quiet
<1>5. \A a \in Running : a[1] # c
  BY <1>0, <1>3 DEF Agreed
<1>6. result' = [result EXCEPT ![c] = v] /\ UNCHANGED <<hostState, toWorker>>
  BY <1>2, <1>3, <1>4, <1>5 DEF AcceptResult, ResultAccepted
<1>7. v # "pending"
  BY <1>3 DEF ValueOf, Replies
<1>8. Pending' \subseteq Pending /\ Running' = Running /\ Inbound' = Inbound
  BY <1>3, <1>6, <1>7 DEF Pending, Running, Inbound, TypeOK, HostTypeOK
<1>9. Cardinality(Pending' \cap DataCalls) <= MaxInFlight
  <2>1. PICK S, T : S = Pending \cap DataCalls /\ T = Pending' \cap DataCalls
    OBVIOUS
  <2>2. T \subseteq S /\ S \subseteq Calls /\ T \subseteq Calls
    BY <1>8, <2>1 DEF Pending
  <2>3. Cardinality(T) <= Cardinality(S) /\ Cardinality(S) \in Nat /\ Cardinality(T) \in Nat
    BY <2>2, CallsFinite
  <2>4. Cardinality(S) <= MaxInFlight /\ MaxInFlight \in Nat
    BY <1>0, <2>1, ChannelAssumption DEF Agreed
  <2>5. Cardinality(T) <= MaxInFlight
    BY <2>3, <2>4
  <2> QED
    BY <2>1, <2>5
<1> QED
  BY <1>0, <1>1, <1>6, <1>8, <1>9 DEF Agreed

\* A handler that settles sends an outcome the worker waits for.
LEMMA SettleAgrees ==
  ASSUME TypeOK, TypeOK', SessionInv, HandlerInv, WorkInv, Quiet, UNCHANGED workerVars,
         NEW a \in Actions, NEW ok \in BOOLEAN, HandlerSettles(a, ok)
  PROVE  Agreed'
<1>0. Agreed /\ UNCHANGED <<workerState, task, cancelled, pendingActions>>
  BY DEF WorkInv, workerVars
<1>1. /\ handler[a] = "running" /\ handler' = [handler EXCEPT ![a] = "settled"]
      /\ UNCHANGED <<seenRequests, toHost>>
  BY DEF HandlerSettles
<1>2. result[a[1]] = "pending" /\ a \in pendingActions
  BY <1>0, <1>1 DEF Agreed, HandlerInv, HandlersOfPendingOnly, Running
<1>3. toWorker' = Write(toWorker, Outcome(a, ok)) /\ UNCHANGED <<hostState, result>>
  BY <1>2 DEF HandlerSettles
<1>4. \A f \in Inbound : ~Same(f, Outcome(a, ok))
  BY <1>1 DEF Same, Outcome, SessionInv, ActionsInv
<1>5. Inbound' = Inbound \cup {Outcome(a, ok)} /\ toWorker'.closed = toWorker.closed
  <2>1. toWorker \in InputPipes /\ Outcome(a, ok) \in HostFrames
    BY FrameTypes DEF TypeOK, ChannelTypeOK
  <2> QED
    BY <1>3, <1>4, <2>1, WriteFrames, WriteOpen DEF SessionInv, OnceInv, Inbound
<1>6. \A f \in Inbound' : f.kind = "outcome" => f.action \in pendingActions
  BY <1>0, <1>2, <1>5 DEF Agreed, Outcome
<1>7. \A b \in Actions : /\ handler'[b] = "running" => handler[b] = "running"
                         /\ handler[b] # "none" => handler'[b] # "none"
  BY <1>1 DEF TypeOK, HostTypeOK
<1>8. Running' \subseteq Running /\ Pending' = Pending /\ Outbound' = Outbound
  BY <1>1, <1>3, <1>7 DEF Running, Pending, Outbound
<1>9. \A r \in seenRequests : \E b \in Actions : handler'[b] # "none" /\ RequestId(b) = r
  BY <1>0, <1>7 DEF Agreed
<1> QED
  BY <1>0, <1>1, <1>3, <1>5, <1>6, <1>8, <1>9 DEF Agreed

\* A step of the host.
LEMMA HostKeepsWork ==
  ASSUME Plain, TypeOK, TypeOK', SessionInv, HandlerInv, WorkInv, HostStep
  PROVE  WorkInv'
<1> SUFFICES ASSUME Quiet' PROVE Agreed'
  BY DEF WorkInv
<1>0. HostNext /\ UNCHANGED workerVars
  BY DEF HostStep
<1>1. Quiet /\ \A c \in Cancels \cup {Close} : c \in Calls
  BY <1>0, CalledStays DEF Quiet, Calls
<1>2. Agreed
  BY <1>1 DEF WorkInv
<1>3. ASSUME NEW c \in DataCalls, CallData(c) PROVE Agreed'
  BY <1>0, <1>1, <1>3, DataAgrees
<1>4. ASSUME NEW x \in Cancels, CallCancel(x) PROVE FALSE
  <2>1. \E v \in Refusals \cup {"pending"} : result' = [result EXCEPT ![x] = v]
    BY <1>4 DEF CallCancel, Refuse, Submit, ClosedCode, Refusals
  <2>2. result'[x] \in Refusals \cup {"pending"}
    BY <1>1, <2>1 DEF TypeOK, HostTypeOK
  <2> QED
    BY <2>2 DEF Quiet, Refusals
<1>5. CASE CallClose
  <2>1. \E v \in Refusals \cup {"pending"} : result' = [result EXCEPT ![Close] = v]
    BY <1>5 DEF CallClose, Refuse, Submit, ClosedCode, Refusals
  <2>2. result'[Close] \in Refusals \cup {"pending"}
    BY <1>1, <2>1 DEF TypeOK, HostTypeOK
  <2>3. FALSE
    BY <2>2 DEF Quiet, Refusals
  <2> QED
    BY <2>3
<1>6. CASE HostReceives
  <2>1. toHost.wire # <<>> /\ toHost' = [toHost EXCEPT !.wire = Tail(@)]
    BY <1>6 DEF HostReceives
  <2>2. PICK f : f = Head(toHost.wire)
    OBVIOUS
  <2>3. CASE f.kind = "action" /\ AcceptAction(f.action)
    BY <1>0, <1>1, <2>1, <2>2, <2>3, ServeAgrees
  <2>4. CASE /\ f.kind = "result" /\ AcceptResult(f.call, f.value)
             /\ UNCHANGED <<handler, seenRequests>>
    BY <1>0, <1>1, <2>1, <2>2, <2>4, AnswerAgrees
  <2> QED
    BY <1>6, <2>2, <2>3, <2>4 DEF HostReceives
<1>7. ~HostReadsEnd
  BY <1>2 DEF Agreed, HostReadsEnd
<1>8. ASSUME NEW a \in Actions, NEW ok \in BOOLEAN, HandlerSettles(a, ok) PROVE Agreed'
  BY <1>0, <1>1, <1>8, SettleAgrees
<1>9. ~HostWriteFails /\ ~Terminate /\ \A a \in Actions : ~HandlerOutcomeRejected(a)
  BY DEF Plain, HostWriteFails, Terminate, HandlerOutcomeRejected
<1>10. CASE HostSinkSettles
  <2>1. /\ UNCHANGED <<workerState, task, cancelled, pendingActions>>
        /\ UNCHANGED <<hostState, result, handler, seenRequests, toHost>>
        /\ toWorker' = Pump([toWorker EXCEPT !.writing = FALSE])
    BY <1>0, <1>10 DEF workerVars, HostSinkSettles, hostVars
  <2>2. PICK q : q = [toWorker EXCEPT !.writing = FALSE]
    OBVIOUS
  <2>3. q \in InputPipes /\ PipeOnce(q) /\ FramesOf(q) = FramesOf(toWorker) /\ q.closed = toWorker.closed
    <3>1. /\ q \in InputPipes /\ q.ordinary = toWorker.ordinary /\ q.reserved = toWorker.reserved
          /\ q.wire = toWorker.wire /\ q.closed = toWorker.closed
      BY <2>2 DEF TypeOK, ChannelTypeOK, InputPipes
    <3> QED
      BY <3>1 DEF SessionInv, OnceInv, PipeOnce, FramesOf
  <2>4. Inbound' = Inbound /\ toWorker'.closed = toWorker.closed
    BY <2>1, <2>2, <2>3, PumpFrames DEF Inbound
  <2>5. Running' = Running /\ Pending' = Pending /\ Outbound' = Outbound
    BY <2>1 DEF Running, Pending, Outbound
  <2> QED
    BY <1>2, <2>1, <2>4, <2>5 DEF Agreed
<1> QED
  BY <1>0, <1>3, <1>4, <1>5, <1>6, <1>7, <1>8, <1>9, <1>10 DEF HostNext

\* A request is admitted: the worker only works for calls the host counts.
LEMMA RequestAgrees ==
  ASSUME Plain, TypeOK, TypeOK', SessionInv, Agreed, Quiet, UNCHANGED hostVars,
         NEW c \in Calls, Request(c) \in Inbound, BeginRequest(c),
         Inbound' \subseteq Inbound, toWorker'.closed = toWorker.closed
  PROVE  Agreed'
<1>0. UNCHANGED <<hostState, result, handler, seenRequests>> /\ Pending' = Pending /\ Running' = Running
  BY DEF hostVars, Pending, Running
<1>1. task[c] = "none" /\ result[c] = "pending"
  BY DEF SessionInv, CallsInv, Asked, Open, Agreed
<1>2. c \in DataCalls /\ c # Close /\ c \notin Cancels
  BY <1>1 DEF Quiet, Calls
<1>3. PICK S : S = Pending \cap DataCalls
  OBVIOUS
<1>4. Tasks \subseteq S \ {c}
  <2> SUFFICES ASSUME NEW d \in Tasks PROVE d \in S \ {c}
    OBVIOUS
  <2>1. d \in Calls /\ task[d] \in AtWork
    BY DEF Tasks, TypeOK, WorkerTypeOK, AtWork, Agreed
  <2>2. result[d] = "pending"
    BY <2>1 DEF SessionInv, CallsInv, Asked, Open, Agreed
  <2>3. d \in DataCalls
    BY <2>1, <2>2 DEF Quiet, Calls
  <2> QED
    BY <1>1, <1>3, <2>1, <2>2, <2>3 DEF Pending, AtWork
<1>5. /\ \A T \in SUBSET (S \ {c}) : Cardinality(T) \in Nat /\ Cardinality(T) < MaxInFlight
  <2>1. IsFiniteSet(S) /\ Cardinality(S) \in Nat /\ c \in S
    BY <1>1, <1>2, <1>3, CallsFinite DEF Pending
  <2>2. IsFiniteSet(S \ {c}) /\ Cardinality(S \ {c}) = Cardinality(S) - 1
    BY <2>1, FS_RemoveElement
  <2>3. \A T \in SUBSET (S \ {c}) : Cardinality(T) \in Nat /\ Cardinality(T) <= Cardinality(S \ {c})
    BY <2>2, FS_Subset, FS_CardinalityType
  <2>4. Cardinality(S) <= MaxInFlight /\ MaxInFlight \in Nat
    BY <1>3, ChannelAssumption DEF Agreed
  <2>5. Cardinality(S \ {c}) \in Nat /\ Cardinality(S \ {c}) < MaxInFlight
    BY <2>1, <2>2, <2>3, <2>4
  <2>6. \A k \in Nat : k <= Cardinality(S \ {c}) => k < MaxInFlight
    BY <2>4, <2>5
  <2> QED
    BY <2>3, <2>6
<1>6. Admitted(c)
  <2>1. Cardinality(Tasks \cap DataCalls) < MaxInFlight
    BY <1>4, <1>5
  <2>2. Cardinality(Tasks) \in Nat /\ Cardinality(Tasks) < MaxInFlight
    BY <1>4, <1>5
  <2>3. Cardinality(Tasks) < MaxPendingReplies
    BY <2>2, ChannelAssumption DEF Plain
  <2> QED
    BY <1>1, <2>1, <2>3 DEF Admitted, Agreed
<1>7. BeginData(c)
  BY <1>2, <1>6 DEF BeginRequest
<1>8. ~(c \in Executions /\ \E e \in Interpreting : InvocationOf[e] = InvocationOf[c])
  <2> SUFFICES ASSUME c \in Executions, NEW e \in Interpreting, InvocationOf[e] = InvocationOf[c] PROVE FALSE
    OBVIOUS
  <2>1. e \in Executions /\ task[e] # "none"
    BY DEF Interpreting
  <2>2. e = c
    BY <2>1 DEF Plain
  <2> QED
    BY <1>1, <2>1, <2>2
<1>9. task' = [task EXCEPT ![c] = "running"] /\ UNCHANGED <<workerState, toHost, cancelled, pendingActions>>
  BY <1>7, <1>8 DEF BeginData
<1>10. /\ task'[c] = "running" /\ \A d \in Calls \ {c} : task'[d] = task[d]
       /\ Outbound' = Outbound
  BY <1>9 DEF Outbound, TypeOK, WorkerTypeOK
<1>11. \A a \in pendingActions : task'[a[1]] = "waiting"
  <2> SUFFICES ASSUME NEW a \in pendingActions PROVE task'[a[1]] = "waiting"
    OBVIOUS
  <2>1. a[1] \in Calls /\ task[a[1]] = "waiting"
    BY DEF Agreed, TypeOK, WorkerTypeOK, Actions, Calls, DataCalls
  <2> QED
    BY <1>1, <1>10, <2>1
<1>12. \A d \in Calls : task'[d] # "replying"
  BY <1>10 DEF Agreed
<1> QED
  BY <1>0, <1>9, <1>10, <1>11, <1>12 DEF Agreed

\* An outcome is one the worker waits for.
LEMMA OutcomeAgrees ==
  ASSUME TypeOK, TypeOK', SessionInv, Agreed, Quiet, UNCHANGED hostVars,
         NEW f \in Inbound, f.kind = "outcome", AcceptOutcome(f.action, f.ok),
         Inbound' \subseteq Inbound, \A g \in Inbound' : ~Same(g, f), toWorker'.closed = toWorker.closed
  PROVE  Agreed'
<1>0. UNCHANGED <<hostState, result, handler, seenRequests>> /\ Pending' = Pending /\ Running' = Running
  BY DEF hostVars, Pending, Running
<1>1. PICK a, ok : a = f.action /\ ok = f.ok
  OBVIOUS
<1>2. /\ a \in pendingActions /\ handler[a] = "settled" /\ a[1] \in Executions /\ a[1] \in Calls
      /\ a = <<a[1], a[2]>> /\ a[2] = sequence[a[1]] /\ task[a[1]] = "waiting" /\ a \in Actions
  BY <1>1 DEF Agreed, SessionInv, ActionsInv, TypeOK, WorkerTypeOK, Actions, Calls, DataCalls
<1>3. /\ pendingActions' = pendingActions \ {a}
      /\ task' = [task EXCEPT ![a[1]] = IF ok THEN "running" ELSE "faulted"]
      /\ UNCHANGED <<workerState, cancelled, sequence, toHost>>
  BY <1>1, <1>2 DEF AcceptOutcome, Agreed
<1>4. /\ task'[a[1]] \in {"running", "faulted"} /\ \A d \in Calls \ {a[1]} : task'[d] = task[d]
      /\ Outbound' = Outbound
  BY <1>2, <1>3 DEF TypeOK, WorkerTypeOK, Outbound
<1>5. ASSUME NEW b \in pendingActions' PROVE task'[b[1]] = "waiting"
  <2>1. /\ b \in pendingActions /\ b # a /\ b[1] \in Calls /\ b = <<b[1], b[2]>>
        /\ task[b[1]] = "waiting" /\ b[2] = sequence[b[1]]
    BY <1>3 DEF Agreed, SessionInv, ActionsInv, TypeOK, WorkerTypeOK, Actions, Calls, DataCalls
  <2>2. b[1] # a[1]
    BY <1>2, <2>1
  <2> QED
    BY <1>4, <2>1, <2>2
<1>6. IsFiniteSet(pendingActions') /\ Cardinality(pendingActions') <= MaxInFlight
  <2>1. PICK S : S = pendingActions
    OBVIOUS
  <2>2. IsFiniteSet(S) /\ Cardinality(S) <= MaxInFlight /\ MaxInFlight \in Nat
    BY <2>1, ChannelAssumption DEF Agreed
  <2>3. IsFiniteSet(S \ {a}) /\ Cardinality(S \ {a}) <= Cardinality(S)
        /\ Cardinality(S) \in Nat /\ Cardinality(S \ {a}) \in Nat
    BY <2>2, FS_Subset, FS_CardinalityType
  <2>4. Cardinality(S \ {a}) <= MaxInFlight
    BY <2>2, <2>3
  <2> QED
    BY <1>3, <2>1, <2>3, <2>4
<1>7. Running \subseteq pendingActions'
  BY <1>2, <1>3 DEF Agreed, Running
<1>8. \A g \in Outbound : g.kind = "action" => g.action \in pendingActions'
  BY <1>2, <1>3 DEF Agreed, SessionInv, ActionsInv
<1>9. \A g \in Inbound' : g.kind = "outcome" => g.action \in pendingActions'
  BY <1>1, <1>3 DEF Agreed, Same
<1>10. \A d \in Calls : task'[d] # "replying"
  BY <1>4 DEF Agreed
<1> QED
  BY <1>0, <1>3, <1>4, <1>5, <1>6, <1>7, <1>8, <1>9, <1>10 DEF Agreed

\* A request for an action is pending at once.
LEMMA ActionAgrees ==
  ASSUME TypeOK, TypeOK', SessionInv, Agreed, UNCHANGED hostVars, NEW e \in Executions, RequestAction(e)
  PROVE  Agreed'
<1>0. /\ UNCHANGED <<hostState, result, handler, seenRequests>> /\ Pending' = Pending /\ Running' = Running
      /\ UNCHANGED <<workerState, cancelled, toWorker>> /\ Inbound' = Inbound
  BY DEF hostVars, Pending, Running, RequestAction, Inbound
<1>1. PICK a : a = <<e, sequence[e] + 1>>
  OBVIOUS
<1>2. /\ task[e] = "running" /\ e \in Calls /\ a[1] = e
      /\ \/ /\ Cardinality(pendingActions) < MaxInFlight /\ task' = [task EXCEPT ![e] = "waiting"]
            /\ pendingActions' = pendingActions \cup {a} /\ toHost' = Sent(Action(a))
         \/ /\ task' = [task EXCEPT ![e] = "faulted"]
            /\ UNCHANGED <<pendingActions, toHost>>
  BY <1>1 DEF RequestAction, Calls, DataCalls
<1>3. a \in Actions
  <2>1. sequence[e] \in Nat /\ MaxActions \in Nat /\ sequence[e] < MaxActions
    BY ChannelAssumption DEF RequestAction, TypeOK, WorkerTypeOK
  <2>2. sequence[e] + 1 \in 1..MaxActions
    BY <2>1
  <2> QED
    BY <1>1, <2>2 DEF Actions
<1>4. /\ task'[e] \in {"waiting", "faulted"} /\ \A d \in Calls \ {e} : task'[d] = task[d]
  BY <1>2 DEF TypeOK, WorkerTypeOK
<1>5. ASSUME NEW b \in pendingActions PROVE b[1] # e /\ task'[b[1]] = "waiting"
  <2>1. b[1] \in Calls /\ task[b[1]] = "waiting"
    BY DEF Agreed, TypeOK, WorkerTypeOK, Actions, Calls, DataCalls
  <2> QED
    BY <1>2, <1>4, <2>1
<1>6. \A d \in Calls : task'[d] # "replying"
  BY <1>4 DEF Agreed
<1>7. CASE UNCHANGED <<pendingActions, toHost>>
  <2>1. Outbound' = Outbound
    BY <1>7 DEF Outbound
  <2> QED
    BY <1>0, <1>5, <1>6, <1>7, <2>1 DEF Agreed
<1>8. CASE /\ Cardinality(pendingActions) < MaxInFlight /\ task' = [task EXCEPT ![e] = "waiting"]
           /\ pendingActions' = pendingActions \cup {a} /\ toHost' = Sent(Action(a))
  <2>1. PICK S : S = pendingActions
    OBVIOUS
  <2>2. IsFiniteSet(S) /\ Cardinality(S) < MaxInFlight /\ MaxInFlight \in Nat /\ Cardinality(S) \in Nat
    BY <1>8, <2>1, ChannelAssumption, FS_CardinalityType DEF Agreed
  <2>3. /\ IsFiniteSet(S \cup {a})
        /\ Cardinality(S \cup {a}) = Cardinality(S) \/ Cardinality(S \cup {a}) = Cardinality(S) + 1
    BY <2>2, FS_AddElement
  <2>4. Cardinality(S \cup {a}) <= MaxInFlight
    BY <2>2, <2>3
  <2>5. IsFiniteSet(pendingActions') /\ Cardinality(pendingActions') <= MaxInFlight
    BY <1>8, <2>1, <2>3, <2>4
  <2>6. toHost'.eof = toHost.eof /\ Outbound' = Outbound \cup {Action(a)}
    <3>1. toHost.wire \in Seq(WorkerFrames) /\ Action(a) \in WorkerFrames
      BY <1>3, FrameTypes DEF TypeOK, ChannelTypeOK, OutputPipes
    <3>2. toHost'.wire = Append(toHost.wire, Action(a)) /\ toHost'.eof = toHost.eof
      BY <1>8 DEF Sent, TypeOK, ChannelTypeOK, OutputPipes
    <3> QED
      BY <3>1, <3>2, AppendSet DEF Outbound
  <2>7. \A f \in Outbound' : f.kind = "action" => f.action \in pendingActions'
    BY <1>8, <2>6 DEF Agreed, Action
  <2>8. task'[e] = "waiting"
    BY <1>2, <1>8 DEF TypeOK, WorkerTypeOK
  <2>9. \A b \in pendingActions' : task'[b[1]] = "waiting"
    BY <1>2, <1>5, <1>8, <2>8
  <2> QED
    BY <1>0, <1>6, <1>8, <2>5, <2>6, <2>7, <2>9 DEF Agreed
<1> QED
  BY <1>2, <1>7, <1>8

\* A reply is written at once.
LEMMA ReplyAgrees ==
  ASSUME Plain, TypeOK, TypeOK', SessionInv, Agreed, Quiet, UNCHANGED hostVars,
         NEW c \in Calls, NEW v \in Replies, EngineSettles(c, v)
  PROVE  Agreed'
<1>0. /\ UNCHANGED <<hostState, result, handler, seenRequests>> /\ Pending' = Pending /\ Running' = Running
      /\ UNCHANGED <<cancelled, pendingActions, toWorker>> /\ Inbound' = Inbound
  BY DEF hostVars, Pending, Running, EngineSettles, Inbound
<1>1. v \in Settlements(c) /\ task[c] \in AtWork
  BY SettlementsOf DEF EngineSettles
<1>2. task[c] # "waiting"
  <2> SUFFICES ASSUME task[c] = "waiting" PROVE FALSE
    OBVIOUS
  <2>1. Settlements(c) = {}
    BY DEF Settlements, Agreed
  <2> QED
    BY <1>1, <2>1
<1>3. c # Close
  BY <1>1 DEF Quiet, SessionInv, CallsInv, AtWork
<1>4. task' = [task EXCEPT ![c] = "done"] /\ toHost' = Sent(Result(c, v)) /\ UNCHANGED workerState
  BY <1>3 DEF EngineSettles, Reply, Agreed, Plain
<1>5. task'[c] = "done" /\ \A d \in Calls \ {c} : task'[d] = task[d]
  BY <1>4 DEF TypeOK, WorkerTypeOK
<1>6. toHost'.eof = toHost.eof /\ Outbound' = Outbound \cup {Result(c, v)}
  <2>1. toHost.wire \in Seq(WorkerFrames) /\ Result(c, v) \in WorkerFrames
    BY FrameTypes DEF TypeOK, ChannelTypeOK, OutputPipes
  <2>2. toHost'.wire = Append(toHost.wire, Result(c, v)) /\ toHost'.eof = toHost.eof
    BY <1>4 DEF Sent, TypeOK, ChannelTypeOK, OutputPipes
  <2> QED
    BY <2>1, <2>2, AppendSet DEF Outbound
<1>7. \A f \in Outbound' : f.kind = "action" => f.action \in pendingActions
  BY <1>6 DEF Agreed, Result
<1>8. ASSUME NEW a \in pendingActions PROVE task'[a[1]] = "waiting"
  <2>1. a[1] \in Calls /\ task[a[1]] = "waiting"
    BY DEF Agreed, TypeOK, WorkerTypeOK, Actions, Calls, DataCalls
  <2> QED
    BY <1>2, <1>5, <2>1
<1>9. \A d \in Calls : task'[d] # "replying"
  BY <1>5 DEF Agreed
<1> QED
  BY <1>0, <1>4, <1>6, <1>7, <1>8, <1>9 DEF Agreed

\* A step of the worker.
LEMMA WorkerKeepsWork ==
  ASSUME Plain, TypeOK, TypeOK', SessionInv, WorkInv, WorkerStep
  PROVE  WorkInv'
<1> SUFFICES ASSUME Quiet' PROVE Agreed'
  BY DEF WorkInv
<1>0. WorkerNext /\ UNCHANGED hostVars
  BY DEF WorkerStep
<1>1. Quiet /\ Agreed
  BY <1>0 DEF Quiet, WorkInv, hostVars
<1>2. CASE WorkerReceives
  <2>1. PICK f : f = Head(toWorker.wire)
    OBVIOUS
  <2>2. /\ Inbound' \subseteq Inbound /\ f \in Inbound /\ \A g \in Inbound' : ~Same(g, f)
        /\ toWorker'.closed = toWorker.closed
    <3>1. toWorker \in InputPipes /\ PipeOnce(toWorker) /\ toWorker.wire # <<>>
          /\ toWorker' = [toWorker EXCEPT !.wire = Tail(@)]
      BY <1>2 DEF TypeOK, ChannelTypeOK, SessionInv, OnceInv, WorkerReceives
    <3>2. toWorker'.closed = toWorker.closed
      BY <3>1 DEF InputPipes
    <3> QED
      BY <2>1, <3>1, <3>2, TakeInput DEF Inbound
  <2>3. CASE f.kind = "request" /\ BeginRequest(f.call)
    <3>1. PICK c \in Calls : c = f.call /\ f = Request(c)
      BY <2>2, <2>3, FramesTyped
    <3> QED
      BY <1>0, <1>1, <2>2, <2>3, <3>1, RequestAgrees
  <2>4. CASE f.kind = "outcome" /\ AcceptOutcome(f.action, f.ok)
    BY <1>0, <1>1, <2>2, <2>4, OutcomeAgrees
  <2> QED
    BY <1>2, <2>1, <2>3, <2>4 DEF WorkerReceives
<1>3. ~WorkerReadsEnd
  BY <1>1 DEF Agreed, WorkerReadsEnd
<1>4. ASSUME NEW e \in Executions, RequestAction(e) PROVE Agreed'
  BY <1>0, <1>1, <1>4, ActionAgrees
<1>5. ASSUME NEW c \in Calls, NEW v \in Replies, EngineSettles(c, v) PROVE Agreed'
  BY <1>0, <1>1, <1>5, ReplyAgrees
<1>6. \A c \in Calls : ~ReplyWritten(c)
  BY <1>1 DEF Agreed, ReplyWritten
<1>7. ~Crash /\ \A c \in DataCalls : ~ResultNotEncodable(c)
  BY DEF Plain, Crash, ResultNotEncodable
<1> QED
  BY <1>0, <1>2, <1>3, <1>4, <1>5, <1>6, <1>7 DEF WorkerNext

\* At the start the two ends agree.
LEMMA WorkStarts == Init => WorkInv
<1> SUFFICES ASSUME Init PROVE Agreed
  BY DEF WorkInv
<1>1. /\ toWorker.ordinary = <<>> /\ toWorker.reserved = <<>> /\ toWorker.wire = <<>>
      /\ toWorker.closed = FALSE /\ toHost.wire = <<>> /\ toHost.eof = "open"
      /\ hostState = "ready" /\ result = [c \in Calls |-> "idle"] /\ handler = [a \in Actions |-> "none"]
      /\ seenRequests = {} /\ workerState = "ready"
      /\ task = [c \in Calls |-> "none"] /\ cancelled = {} /\ pendingActions = {}
  BY DEF Init, HostInit, WorkerInit, ChannelInit
<1>2. Inbound = {} /\ Outbound = {}
  <2>1. ToSet(<<>>) = {}
    BY DEF ToSet
  <2> QED
    BY <1>1, <2>1 DEF Inbound, Outbound, FramesOf
<1>3. Pending \cap DataCalls = {} /\ Running = {}
  BY <1>1 DEF Pending, Running
<1>4. Cardinality({}) = 0 /\ IsFiniteSet({}) /\ 0 <= MaxInFlight
  BY FS_EmptySet, ChannelAssumption
<1> QED
  BY <1>1, <1>2, <1>3, <1>4 DEF Agreed

\* For work alone the connection is never lost, whatever the interleaving.
THEOREM WorkSurvives == ASSUME Plain PROVE Spec => []SurvivesWork
<1>1. Init => WorkInv
  BY WorkStarts
<1>2. TypeOK /\ TypeOK' /\ SessionInv /\ HandlerInv /\ WorkInv /\ [Next]_vars => WorkInv'
  <2> SUFFICES ASSUME TypeOK, TypeOK', SessionInv, HandlerInv, WorkInv, [Next]_vars PROVE WorkInv'
    OBVIOUS
  <2>1. CASE HostStep
    BY <2>1, HostKeepsWork
  <2>2. CASE WorkerStep
    BY <2>2, WorkerKeepsWork
  <2>3. CASE UNCHANGED vars
    <3>1. /\ UNCHANGED <<hostState, result, handler, seenRequests, toWorker, toHost>>
          /\ UNCHANGED <<workerState, task, cancelled, pendingActions>>
      BY <2>3 DEF vars, hostVars, workerVars
    <3> QED
      BY <3>1 DEF WorkInv, Quiet, Agreed, Inbound, Outbound, Pending, Running
  <2> QED
    BY <2>1, <2>2, <2>3 DEF Next
<1>3. WorkInv => SurvivesWork
  BY DEF WorkInv, Quiet, Agreed, SurvivesWork
<1> QED
  BY <1>1, <1>2, <1>3, TypeCorrect, SessionInvariant, HandlerInvariant, PTL DEF Spec
=============================================================================

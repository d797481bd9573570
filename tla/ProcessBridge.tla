--------------------------- MODULE ProcessBridge ---------------------------
(***************************************************************************)
(* ProcessRuntimeBridge (packages/sdk/src/process-bridge.ts), the host end *)
(* of a worker connection: it correlates replies, runs the handler of each *)
(* action request and gives every call one terminal result.                *)
(*                                                                         *)
(* result[c] is the promise call c returned: "pending" while its exchange  *)
(* is in #pending.  handler[a] is "running" while the host's handler of    *)
(* action a has not settled, which is when a is in its exchange's          *)
(* actionIds.                                                              *)
(***************************************************************************)
EXTENDS BridgeChannel

VARIABLES
  hostState,     \* #state, from the welcome on
  result,        \* what each call returned
  handler,       \* the host handler of each action
  seenRequests   \* #seenActionRequests

hostVars == <<hostState, result, handler, seenRequests>>

HostTypeOK ==
  /\ hostState \in {"ready", "closing", "closed", "failed"}
  /\ result \in [Calls -> {"idle", "pending"} \cup Replies \cup Refusals]
  /\ handler \in [Actions -> {"none", "running", "settled"}]
  /\ seenRequests \subseteq Invocations \X Nat

HostInit ==
  /\ hostState = "ready"
  /\ result = [c \in Calls |-> "idle"]
  /\ handler = [a \in Actions |-> "none"]
  /\ seenRequests = {}

----------------------------------------------------------------------------
Pending == {c \in Calls : result[c] = "pending"}
Running == {a \in Actions : handler[a] = "running"}

\* The entries of #activeInvocations are those of the pending executions.
InvocationActive(i) == \E e \in Executions \cap Pending : InvocationOf[e] = i

ClosedCode == IF hostState \in {"closing", "closed"} THEN "bridge_closed" ELSE "adapter_failure"

\* Mutants: a failure that overlooks some of the calls it owes an answer.
FailExcept(kept, code) ==
  IF hostState \in {"closed", "failed"}
  THEN UNCHANGED <<hostState, result, toWorker>>
  ELSE /\ hostState' = "failed"
       /\ result' = [c \in Calls |-> IF result[c] = "pending" /\ c \notin kept
                                    THEN code ELSE result[c]]
       /\ toWorker' = CloseTransport(toWorker)
FailKeepsClose(code)   == FailExcept({Close}, code)
FailKeepsCancels(code) == FailExcept(Cancels, code)

\* #fail(detail, code): a closed or failed connection stays what it is.
Fail(code) ==
  IF hostState \in {"closed", "failed"}
  THEN UNCHANGED <<hostState, result, toWorker>>
  ELSE /\ hostState' = "failed"
       /\ result' = [c \in Calls |-> IF result[c] = "pending" THEN code ELSE result[c]]
       /\ toWorker' = CloseTransport(toWorker)

----------------------------------------------------------------------------
(* The bridge methods.                                                     *)

Refuse(c, code) ==
  /\ result' = [result EXCEPT ![c] = code]
  /\ UNCHANGED <<hostState, handler, seenRequests, toWorker, toHost>>

Submit(c) ==
  /\ result' = [result EXCEPT ![c] = "pending"]
  /\ toWorker' = Write(toWorker, Request(c))
  /\ UNCHANGED <<handler, seenRequests, toHost>>

\* A data request is refused by a connection that is not ready, for an
\* invocation that is active, and when max_in_flight data requests are pending.
CallData(c) ==
  /\ result[c] = "idle"
  /\ IF hostState # "ready" THEN Refuse(c, ClosedCode)
     ELSE IF c \in Executions /\ InvocationActive(InvocationOf[c]) THEN Refuse(c, "duplicate")
     ELSE IF Cardinality(Pending \cap DataCalls) >= MaxInFlight THEN Refuse(c, "capacity_exceeded")
     ELSE \/ Submit(c) /\ UNCHANGED hostState
          \/ "oversized_request" \in Faults /\ Refuse(c, "invalid_request")

CallCancel(x) ==
  /\ result[x] = "idle"
  /\ IF hostState # "ready" THEN Refuse(x, ClosedCode)
     ELSE IF Cardinality(Pending) >= MaxPendingReplies THEN Refuse(x, "capacity_exceeded")
     ELSE Submit(x) /\ UNCHANGED hostState

CallClose ==
  /\ result[Close] = "idle"
  /\ IF hostState # "ready" THEN Refuse(Close, ClosedCode)
     ELSE Submit(Close) /\ hostState' = "closing"

----------------------------------------------------------------------------
(* #read and #accept: the envelopes of the worker, one at a time.          *)

\* Mutant: a request that was seen before is served again.
ActionAcceptedAgain(a) ==
  result[a[1]] = "pending" /\ Cardinality(Running) < MaxInFlight

ActionAccepted(a) ==
  /\ result[a[1]] = "pending"
  /\ RequestId(a) \notin seenRequests
  /\ Cardinality(Running) < MaxInFlight

AcceptAction(a) ==
  IF ActionAccepted(a)
  THEN /\ seenRequests' = seenRequests \cup {RequestId(a)}
       /\ handler' = [handler EXCEPT ![a] = "running"]
       /\ UNCHANGED <<hostState, result, toWorker>>
  ELSE Fail("adapter_failure") /\ UNCHANGED <<handler, seenRequests>>

\* Mutant: a result over a running handler.
ResultOverHandlers(c) == result[c] = "pending" /\ (c = Close => Pending = {Close})

ResultAccepted(c) ==
  /\ result[c] = "pending"
  /\ \A a \in Running : a[1] # c
  /\ c = Close => Pending = {Close}

AcceptResult(c, value) ==
  IF ResultAccepted(c)
  THEN /\ result' = [result EXCEPT ![c] = value]
       /\ IF c = Close
          THEN hostState' = "closed" /\ toWorker' = CloseTransport(toWorker)
          ELSE UNCHANGED <<hostState, toWorker>>
  ELSE Fail("adapter_failure")

HostReceives ==
  /\ hostState \in {"ready", "closing"}
  /\ toHost.wire # <<>>
  /\ toHost' = [toHost EXCEPT !.wire = Tail(@)]
  /\ LET frame == Head(toHost.wire)
     IN  \/ frame.kind = "action" /\ AcceptAction(frame.action)
         \/ /\ frame.kind = "result"
            /\ AcceptResult(frame.call, frame.value)
            /\ UNCHANGED <<handler, seenRequests>>

\* The worker's output ended: at a frame boundary it is a lost worker, inside a
\* frame it is a protocol failure.
HostReadsEnd ==
  /\ hostState \in {"ready", "closing"}
  /\ toHost.wire = <<>> /\ toHost.eof # "open"
  /\ Fail(IF toHost.eof = "clean" THEN "worker_lost" ELSE "adapter_failure")
  /\ UNCHANGED <<handler, seenRequests, toHost>>

----------------------------------------------------------------------------
\* The rest of #resolveAction.  An outcome nobody waits for, of another request
\* or too large to encode fails the connection; a handler that throws is a
\* failed outcome (ok = FALSE).
HandlerSettles(a, ok) ==
  /\ handler[a] = "running"
  /\ handler' = [handler EXCEPT ![a] = "settled"]
  /\ IF result[a[1]] = "pending"
     THEN toWorker' = Write(toWorker, Outcome(a, ok)) /\ UNCHANGED <<hostState, result>>
     ELSE Fail("adapter_failure")
  /\ UNCHANGED <<seenRequests, toHost>>

HandlerOutcomeRejected(a) ==
  /\ "unusable_outcome" \in Faults
  /\ handler[a] = "running"
  /\ handler' = [handler EXCEPT ![a] = "settled"]
  /\ Fail("adapter_failure")
  /\ UNCHANGED <<seenRequests, toHost>>

\* The transport's write() settles, and the writer hands over its next frame.
HostSinkSettles ==
  /\ toWorker.writing
  /\ toWorker' = Pump([toWorker EXCEPT !.writing = FALSE])
  /\ UNCHANGED <<hostVars, toHost>>

HostWriteFails ==
  /\ "write_fails" \in Faults /\ toWorker.writing
  /\ Fail("worker_lost")
  /\ UNCHANGED <<handler, seenRequests, toHost>>

\* terminate(), called by the supervisor when a deadline expires
Terminate ==
  /\ "terminate" \in Faults
  /\ hostState \notin {"closed", "failed"}
  /\ Fail("worker_lost")
  /\ UNCHANGED <<handler, seenRequests, toHost>>

HostNext ==
  \/ \E c \in DataCalls : CallData(c)
  \/ \E x \in Cancels : CallCancel(x)
  \/ CallClose
  \/ HostReceives
  \/ HostReadsEnd
  \/ \E a \in Actions, ok \in BOOLEAN : HandlerSettles(a, ok)
  \/ \E a \in Actions : HandlerOutcomeRejected(a)
  \/ HostSinkSettles
  \/ HostWriteFails
  \/ Terminate
=============================================================================

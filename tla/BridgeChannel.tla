--------------------------- MODULE BridgeChannel ---------------------------
(***************************************************************************)
(* What the two ends of one worker connection share: the calls a host      *)
(* makes on a RuntimeBridge, the envelopes these calls travel in and the   *)
(* two pipes between ProcessRuntimeBridge (module ProcessBridge) and       *)
(* RuntimeWorkerServer (module WorkerServer).                              *)
(*                                                                         *)
(* A call is one invocation of a bridge method, so it also stands for the  *)
(* envelope id its request is given and its reply refers to; an action is  *)
(* the n-th host call of one execution and stands for the id of its        *)
(* action.request envelope.  Payloads are left out: they are encoded and   *)
(* decoded with the same schemas at both ends.  The connection is past its *)
(* handshake (module Handshake) and its limits are the negotiated ones.    *)
(***************************************************************************)
EXTENDS Naturals, Sequences, FiniteSets

CONSTANTS
  Executions,         \* calls of execute()
  Inquiries,          \* calls of check(), inspect() and applySemanticEdits()
  Cancels,            \* calls of cancel()
  Close,              \* the call of close(); later ones share its promise
  Invocations,        \* invocation identifiers
  InvocationOf,       \* the invocationId an execute() or cancel() carries
  MaxActions,         \* bound: actions one execution performs
  MaxInFlight,        \* negotiated max_in_flight
  MaxPendingReplies,  \* negotiated max_pending_replies
  DeferredSink,       \* whether the worker's sink settles a write in a later turn
  Faults              \* what may go wrong around the two peers

DataCalls == Executions \cup Inquiries
Calls     == DataCalls \cup Cancels \cup {Close}
Actions   == Executions \X (1..MaxActions)

AllFaults == {"oversized_request", "oversized_result", "unusable_outcome",
              "write_fails", "terminate", "crash"}

ASSUME ChannelAssumption ==
  /\ IsFiniteSet(Calls)
  /\ Executions \cap Inquiries = {}
  /\ DataCalls \cap Cancels = {}
  /\ Close \notin DataCalls \cup Cancels
  /\ InvocationOf \in [Executions \cup Cancels -> Invocations]
  /\ MaxActions \in Nat
  /\ MaxInFlight \in Nat \ {0}
  /\ MaxPendingReplies \in Nat \ {0}
  /\ DeferredSink \in BOOLEAN
  /\ Faults \subseteq AllFaults

\* request:<invocation>:<sequence>, the id of the action request in its domain:
\* it says nothing of which execution of the invocation asks.
RequestId(a) == <<InvocationOf[a[1]], a[2]>>

----------------------------------------------------------------------------
(* What the worker answers, and what the host answers by itself.           *)

Replies == {"completed", "failed", "cancelled", "not_started",  \* execute
            "done",                                             \* check, inspect, edits
            "accepted", "not_active",                           \* cancel
            "closed"}                                           \* close

Refusals == {"duplicate", "capacity_exceeded", "invalid_request",
             "bridge_closed", "adapter_failure", "worker_lost"}

HostFrames == [kind : {"request"}, call : Calls]
         \cup [kind : {"outcome"}, action : Actions, ok : BOOLEAN]

WorkerFrames == [kind : {"result"}, call : Calls, value : Replies \cup {"duplicate"}]
           \cup [kind : {"action"}, action : Actions]

Request(c)     == [kind |-> "request", call |-> c]
Outcome(a, ok) == [kind |-> "outcome", action |-> a, ok |-> ok]
Result(c, v)   == [kind |-> "result", call |-> c, value |-> v]
Action(a)      == [kind |-> "action", action |-> a]

\* The host lets close, cancel and outcomes use the reserved class of its writer.
Reserved(frame) == frame.kind = "outcome" \/ frame.call \in Cancels \cup {Close}

----------------------------------------------------------------------------
VARIABLES
  toWorker,   \* the host's frame writer and the worker's standard input
  toHost      \* the worker's standard output

InputPipes  == [ordinary : Seq(HostFrames), reserved : Seq(HostFrames),
                lastReserved : BOOLEAN, writing : BOOLEAN,
                wire : Seq(HostFrames), closed : BOOLEAN]
OutputPipes == [wire : Seq(WorkerFrames), eof : {"open", "clean", "partial"}]

ChannelTypeOK == toWorker \in InputPipes /\ toHost \in OutputPipes

ChannelInit ==
  /\ toWorker = [ordinary |-> <<>>, reserved |-> <<>>, lastReserved |-> FALSE,
                 writing |-> FALSE, wire |-> <<>>, closed |-> FALSE]
  /\ toHost = [wire |-> <<>>, eof |-> "open"]

\* The writer's pump (module FrameWriter has it with its byte bounds): an idle
\* sink takes the next frame, a reserved one unless the last was reserved too
\* and an ordinary one waits.
Pump(t) ==
  LET useReserved == t.reserved # <<>> /\ (t.ordinary = <<>> \/ ~t.lastReserved)
  IN  IF t.writing \/ (t.reserved = <<>> /\ t.ordinary = <<>>) THEN t
      ELSE IF useReserved
      THEN [t EXCEPT !.writing = TRUE, !.lastReserved = TRUE,
                     !.wire = Append(@, Head(t.reserved)), !.reserved = Tail(@)]
      ELSE [t EXCEPT !.writing = TRUE, !.lastReserved = FALSE,
                     !.wire = Append(@, Head(t.ordinary)), !.ordinary = Tail(@)]

Write(t, frame) ==
  Pump(IF Reserved(frame) THEN [t EXCEPT !.reserved = Append(@, frame)]
                          ELSE [t EXCEPT !.ordinary = Append(@, frame)])

\* transport.close() ends the worker's standard input behind what was handed
\* over; the frames still queued are rejected by the ended stream.
CloseTransport(t) == [t EXCEPT !.ordinary = <<>>, !.reserved = <<>>, !.closed = TRUE]
=============================================================================

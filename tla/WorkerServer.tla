---------------------------- MODULE WorkerServer ----------------------------
(***************************************************************************)
(* RuntimeWorkerServer (packages/worker/src/server.ts), the worker end of  *)
(* a connection, over the DirectRuntimeBridge it owns                      *)
(* (packages/engine/src/bridge.ts): it admits requests against the         *)
(* negotiated limits, runs the engine, turns each host call of an          *)
(* execution into an action.request and answers each request once.         *)
(*                                                                         *)
(* task[c] is where the worker is with request c:                          *)
(*   running    the bridge method is under way                             *)
(*   waiting    an execution waits for the outcome of its last action      *)
(*   faulted    its last action failed, so it can only fail                *)
(*   replying   its reply is at a sink that has not settled the write      *)
(*   done       its task has left #tasks                                   *)
(* Engine steps are atomic up to their next wait: the microtasks of one    *)
(* continuation run before the next chunk of input is handled.             *)
(***************************************************************************)
EXTENDS BridgeChannel

VARIABLES
  workerState,      \* #state; "dead" when the process is gone
  task,             \* the dispatch of each request
  cancelled,        \* executions whose ActiveInvocation is cancelled
  sequence,         \* actions each execution has requested
  pendingActions    \* #pendingActions

workerVars == <<workerState, task, cancelled, sequence, pendingActions>>

WorkerTypeOK ==
  /\ workerState \in {"ready", "closing", "closed", "failed", "dead"}
  /\ task \in [Calls -> {"none", "running", "waiting", "faulted", "replying", "done"}]
  /\ cancelled \subseteq Executions
  /\ sequence \in [Executions -> 0..MaxActions]
  /\ pendingActions \subseteq Actions

WorkerInit ==
  /\ workerState = "ready"
  /\ task = [c \in Calls |-> "none"]
  /\ cancelled = {}
  /\ sequence = [e \in Executions |-> 0]
  /\ pendingActions = {}

----------------------------------------------------------------------------
Tasks == {c \in Calls : task[c] \notin {"none", "done"}}

\* The engine's active invocations: an execution leaves them when it settles,
\* before its reply is written.
Interpreting == {e \in Executions : task[e] \in {"running", "waiting", "faulted"}}

Listening == workerState \in {"ready", "closing"}

Sent(frame) == [toHost EXCEPT !.wire = Append(@, frame)]

\* #fail(): the engine is closed, which cancels every active invocation, the
\* pending actions are rejected and the output ends.  Replies the sink has not
\* settled may be lost with it.
Unsettled(n) == \A i \in (n + 1)..Len(toHost.wire) :
                  toHost.wire[i].kind = "result" => task[toHost.wire[i].call] = "replying"

\* Mutant: a failed worker leaves its executions waiting.
WorkerFailsWithoutCancel ==
  /\ workerState' = "failed"
  /\ pendingActions' = {}
  /\ toHost' = [toHost EXCEPT !.eof = "clean"]
  /\ UNCHANGED cancelled

WorkerFails ==
  /\ workerState' = "failed"
  /\ cancelled' = cancelled \cup Interpreting
  /\ pendingActions' = {}
  /\ \E n \in 0..Len(toHost.wire) :
       /\ n # Len(toHost.wire) => DeferredSink /\ Unsettled(n)
       /\ toHost' = [wire |-> SubSeq(toHost.wire, 1, n), eof |-> "clean"]

\* Mutant: a replied task stays in #tasks.
ReplyKeepsTask(c, value) ==
  IF toHost.eof # "open" THEN UNCHANGED <<task, workerState, toHost>>
  ELSE toHost' = Sent(Result(c, value)) /\ UNCHANGED <<task, workerState>>

\* #reply: once the output has ended the write is rejected and nobody hears.
\* After the close result the worker is closed and ends its output.
Reply(c, value) ==
  IF toHost.eof # "open"
  THEN task' = [task EXCEPT ![c] = "done"] /\ UNCHANGED <<workerState, toHost>>
  ELSE IF DeferredSink
  THEN /\ task' = [task EXCEPT ![c] = "replying"]
       /\ toHost' = Sent(Result(c, value))
       /\ UNCHANGED workerState
  ELSE /\ task' = [task EXCEPT ![c] = "done"]
       /\ toHost' = IF c = Close THEN [Sent(Result(c, value)) EXCEPT !.eof = "clean"]
                                 ELSE Sent(Result(c, value))
       /\ workerState' = IF c = Close THEN "closed" ELSE workerState

\* The deferred sink settles the write of c's reply.
ReplyWritten(c) ==
  /\ task[c] = "replying"
  /\ task' = [task EXCEPT ![c] = "done"]
  /\ IF c = Close /\ toHost.eof = "open"
     THEN workerState' = "closed" /\ toHost' = [toHost EXCEPT !.eof = "clean"]
     ELSE UNCHANGED <<workerState, toHost>>
  /\ UNCHANGED <<cancelled, sequence, pendingActions, toWorker>>

----------------------------------------------------------------------------
(* #receive and #dispatch: the envelopes of the host, one at a time.       *)

\* Mutant: one data request fewer than negotiated.
AdmittedOffByOne(c) ==
  /\ task[c] = "none" /\ workerState = "ready"
  /\ c \in DataCalls => Cardinality(Tasks \cap DataCalls) < MaxInFlight - 1
  /\ c # Close => Cardinality(Tasks) < MaxPendingReplies

\* #seenInbound, the state and the capacity guards of a request.
Admitted(c) ==
  /\ task[c] = "none"
  /\ workerState = "ready"
  /\ c \in DataCalls => Cardinality(Tasks \cap DataCalls) < MaxInFlight
  /\ c # Close => Cardinality(Tasks) < MaxPendingReplies

\* execute() of the engine refuses an invocation that is active.
BeginData(c) ==
  /\ UNCHANGED <<cancelled, sequence, pendingActions>>
  /\ IF c \in Executions /\ \E e \in Interpreting : InvocationOf[e] = InvocationOf[c]
     THEN Reply(c, "duplicate")
     ELSE task' = [task EXCEPT ![c] = "running"] /\ UNCHANGED <<workerState, toHost>>

BeginCancel(x) ==
  LET target == {e \in Interpreting : InvocationOf[e] = InvocationOf[x]}
  IN  /\ cancelled' = cancelled \cup target
      /\ Reply(x, IF target = {} THEN "not_active" ELSE "accepted")
      /\ UNCHANGED <<sequence, pendingActions>>

BeginClose ==
  /\ workerState' = "closing"
  /\ cancelled' = cancelled \cup Interpreting
  /\ task' = [task EXCEPT ![Close] = "running"]
  /\ UNCHANGED <<sequence, pendingActions, toHost>>

BeginRequest(c) ==
  IF ~Admitted(c)     THEN WorkerFails /\ UNCHANGED <<task, sequence>>
  ELSE IF c = Close   THEN BeginClose
  ELSE IF c \in Cancels THEN BeginCancel(c)
  ELSE BeginData(c)

\* A cancelled execution no longer waits: its outcome is only accounted for.
AcceptOutcome(a, ok) ==
  IF a \notin pendingActions
  THEN WorkerFails /\ UNCHANGED <<task, sequence>>
  ELSE /\ pendingActions' = pendingActions \ {a}
       /\ task' = IF task[a[1]] = "waiting" /\ a[1] \notin cancelled
                  THEN [task EXCEPT ![a[1]] = IF ok THEN "running" ELSE "faulted"]
                  ELSE task
       /\ UNCHANGED <<workerState, cancelled, sequence, toHost>>

WorkerReceives ==
  /\ Listening
  /\ toWorker.wire # <<>>
  /\ toWorker' = [toWorker EXCEPT !.wire = Tail(@)]
  /\ LET frame == Head(toWorker.wire)
     IN  \/ frame.kind = "request" /\ BeginRequest(frame.call)
         \/ frame.kind = "outcome" /\ AcceptOutcome(frame.action, frame.ok)

\* finish(): the end of input fails a connection that has not closed.
WorkerReadsEnd ==
  /\ Listening
  /\ toWorker.wire = <<>> /\ toWorker.closed
  /\ WorkerFails
  /\ UNCHANGED <<task, sequence, toWorker>>

----------------------------------------------------------------------------
(* The engine.                                                             *)

\* receive() of the action dispatcher and #requestAction: one action at a time
\* per execution, none after a cancellation, and no more than max_in_flight
\* without an outcome; over that the action fails as a handler fault.
RequestAction(e) ==
  /\ task[e] = "running" /\ e \notin cancelled
  /\ sequence[e] < MaxActions
  /\ LET a == <<e, sequence[e] + 1>>
     IN  /\ sequence' = [sequence EXCEPT ![e] = a[2]]
         /\ IF workerState = "ready" /\ Cardinality(pendingActions) < MaxInFlight
            THEN /\ task' = [task EXCEPT ![e] = "waiting"]
                 /\ pendingActions' = pendingActions \cup {a}
                 /\ toHost' = Sent(Action(a))
            ELSE /\ task' = [task EXCEPT ![e] = "faulted"]
                 /\ UNCHANGED <<pendingActions, toHost>>
  /\ UNCHANGED <<workerState, cancelled, toWorker>>

\* What the bridge method of c may settle with in this state.
Settlements(c) ==
  CASE c \in Inquiries /\ task[c] = "running" -> {"done"}
    [] c \in Executions /\ task[c] = "running" ->
         {"completed", "failed"}
           \cup (IF c \in cancelled THEN {"cancelled"} ELSE {})
           \cup (IF sequence[c] = 0 THEN {"not_started"} ELSE {})
    [] c \in Executions /\ task[c] = "waiting" /\ c \in cancelled -> {"cancelled"}
    [] c \in Executions /\ task[c] = "faulted" -> {"failed"}
    [] c = Close /\ task[c] = "running" /\ Interpreting = {} -> {"closed"}
    [] OTHER -> {}

\* The bridge method settles and #reply sends its result.  A result too large
\* to encode rejects the dispatch, which fails the connection.
EngineSettles(c, value) ==
  /\ value \in Settlements(c)
  /\ Reply(c, value)
  /\ UNCHANGED <<cancelled, sequence, pendingActions, toWorker>>

ResultNotEncodable(c) ==
  /\ "oversized_result" \in Faults /\ Listening
  /\ c \in DataCalls /\ Settlements(c) # {}
  /\ task' = [task EXCEPT ![c] = "done"]
  /\ WorkerFails
  /\ UNCHANGED <<sequence, toWorker>>

\* The process dies: what it had written up to some byte still arrives.
Crash ==
  /\ "crash" \in Faults /\ Listening
  /\ workerState' = "dead"
  /\ \E n \in 0..Len(toHost.wire), cut \in {"clean", "partial"} :
       toHost' = [wire |-> SubSeq(toHost.wire, 1, n), eof |-> cut]
  /\ UNCHANGED <<task, cancelled, sequence, pendingActions, toWorker>>

\* A dead process takes no step.
WorkerNext ==
  \/ workerState # "dead"
     /\ \/ WorkerReceives
        \/ WorkerReadsEnd
        \/ \E e \in Executions : RequestAction(e)
        \/ \E c \in Calls, value \in Replies : EngineSettles(c, value)
        \/ \E c \in Calls : ReplyWritten(c)
        \/ \E c \in DataCalls : ResultNotEncodable(c)
  \/ Crash
=============================================================================

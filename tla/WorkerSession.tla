--------------------------- MODULE WorkerSession ---------------------------
(***************************************************************************)
(* One connection: ProcessRuntimeBridge and RuntimeWorkerServer over their *)
(* two pipes.                                                              *)
(***************************************************************************)
EXTENDS ProcessBridge, WorkerServer

vars == <<hostVars, workerVars, toWorker, toHost>>

TypeOK == HostTypeOK /\ WorkerTypeOK /\ ChannelTypeOK

Init == HostInit /\ WorkerInit /\ ChannelInit

HostStep   == HostNext /\ UNCHANGED workerVars
WorkerStep == WorkerNext /\ UNCHANGED hostVars

Next == HostStep \/ WorkerStep

Spec == Init /\ [][Next]_vars

\* Every peer and both pipes make progress, the engine is metered and stops, and
\* the host's handlers settle: the bridge sets no deadline of its own.
Fairness ==
  /\ WF_vars(HostStep /\ (HostReceives \/ HostReadsEnd))
  /\ WF_vars(HostStep /\ HostSinkSettles)
  /\ \A a \in Actions : WF_vars(HostStep /\ \E ok \in BOOLEAN : HandlerSettles(a, ok))
  /\ WF_vars(WorkerStep /\ (WorkerReceives \/ WorkerReadsEnd))
  /\ \A c \in Calls : WF_vars(WorkerStep /\ \/ \E value \in Replies : EngineSettles(c, value)
                                            \/ ReplyWritten(c))

FairSpec == Spec /\ Fairness

----------------------------------------------------------------------------
(* Safety.                                                                 *)

\* While the connection stands a handler only runs for an execution that is
\* still owed its result: no result is delivered over a running handler
\* (#accept's actionIds check) and no handler starts for an answered call.
HandlersOfPendingOnly ==
  hostState # "failed" => \A a \in Running : result[a[1]] = "pending"

\* The same action request never runs two handlers, even when an invocation id
\* is used again by a later execution (#seenActionRequests).
NoRepeatedRequest ==
  \A a, b \in Actions : RequestId(a) = RequestId(b) /\ a # b
                          => handler[a] = "none" \/ handler[b] = "none"

\* The worker only works for calls the host still waits for, so its admission
\* counts never exceed the host's (a deferred sink may keep a slot longer), and the
\* host's own test for an active invocation is enough: the engine, which tests
\* again, never finds a duplicate.
WorkerWorksForPending ==
  /\ hostState \in {"ready", "closing"} =>
       \A c \in Tasks : task[c] # "replying" => result[c] = "pending"
  /\ \A i \in DOMAIN toHost.wire :
       toHost.wire[i].kind = "result" => toHost.wire[i].value # "duplicate"

\* Outside faults only a cancel or a close can cost the connection: for work alone
\* admission, correlation and the action limits of the two ends agree in every
\* interleaving.
SurvivesWork ==
  hostState = "failed" \/ workerState = "failed"
    => \E c \in Cancels \cup {Close} : result[c] # "idle"

----------------------------------------------------------------------------
(* What the documentation says and the code does not do (README).          *)

\* docs/worker-lifecycle.md:62: once a cancellation is observed the worker
\* "returns a cancelled execute result"; it does not cost the connection.
AcceptedCancelKeepsResult ==
  \A x \in Cancels, e \in Executions :
    InvocationOf[x] = InvocationOf[e] /\ result[x] = "accepted"
      => result[e] \notin {"adapter_failure", "worker_lost"}

----------------------------------------------------------------------------
(* Refinement and liveness.                                                *)

Contract == INSTANCE BridgeContract WITH status <- hostState, call <- result, effect <- handler

\* The connection keeps the promises of a RuntimeBridge: every step of the two
\* peers is a step of BridgeContract or changes nothing a host can see.
ImplementsContract == Contract!Spec

\* Every call is answered, through refusals, failures and crashes.
EveryCallAnswered == \A c \in Calls : result[c] = "pending" ~> result[c] # "pending"

\* A failed worker lets go of the executions it was interpreting, also of those
\* that waited for an outcome that can no longer arrive.
FailedWorkerDrains == workerState = "failed" ~> Interpreting = {}
=============================================================================

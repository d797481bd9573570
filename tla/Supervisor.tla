----------------------------- MODULE Supervisor -----------------------------
(***************************************************************************)
(* SupervisedProcessRuntimeBridge (packages/sdk/src/process-bridge.ts):    *)
(* the lazy owner of one worker connection.  Callers share one bounded     *)
(* start; a start that fails and a connection that is lost fail the facade *)
(* for good; close waits for a start, closes the connection and terminates *)
(* it when its deadline passes.                                            *)
(*                                                                         *)
(* The connection itself (module WorkerSession) is reduced to the states   *)
(* its owner sees, and its transport to open, closing (close() was called) *)
(* and closed (that call has resolved).  A deadline is an action that may  *)
(* happen at any time while what it bounds has not.                        *)
(***************************************************************************)
EXTENDS Naturals, FiniteSets

CONSTANTS
  Callers,    \* operations a host calls, cancel() included
  MaxStarts   \* bound: starts the model lets happen

ASSUME SupervisorAssumption == MaxStarts \in Nat

VARIABLES
  closed,      \* #closed
  failure,     \* #failure
  connection,  \* #connection is set
  starting,    \* what #start waits for while #starting is set
  starts,      \* times options.start was called
  lateSpawn,   \* a start past its deadline that may still deliver a transport
  bridge,      \* state of the latest connection; a failed one is lost or violated
  transport,   \* its transport
  call,        \* each operation: "calling" has the connection, "pending" is in #pending
  closing      \* what #close waits for, to its result

vars == <<closed, failure, connection, starting, starts, lateSpawn,
          bridge, transport, call, closing>>

StartFailures == {"worker_start_timeout", "worker_start_failed", "worker_identity_mismatch"}
\* What #fail was told of the end: the worker is gone, or it broke the protocol.
Broken  == {"lost", "violated"}
\* Codes the facade keeps, and those an operation is answered with; "ok" stands
\* for every answer that is the operation's own, the worker's refusals included.
Kept    == StartFailures \cup {"worker_lost"}
Results == Kept \cup {"adapter_failure", "bridge_closed", "ok"}
CloseResults == {"closed", "bridge_failed", "worker_close_timeout"}

TypeOK ==
  /\ closed \in BOOLEAN /\ connection \in BOOLEAN /\ lateSpawn \in BOOLEAN
  /\ failure \in Kept \cup {"none"}
  /\ starting \in {"none", "spawning", "handshaking", "terminating", "discarding"}
  /\ starts \in 0..MaxStarts
  /\ bridge \in {"none", "handshaking", "ready", "closing", "closed"} \cup Broken
  /\ transport \in {"none", "open", "closing", "closed"}
  /\ call \in [Callers -> Results \cup {"idle", "acquiring", "calling", "pending"}]
  /\ closing \in CloseResults \cup {"none", "starting", "bridge", "terminating"}

Init ==
  /\ closed = FALSE /\ connection = FALSE /\ lateSpawn = FALSE
  /\ failure = "none"
  /\ starting = "none" /\ starts = 0
  /\ bridge = "none" /\ transport = "none"
  /\ call = [c \in Callers |-> "idle"]
  /\ closing = "none"

----------------------------------------------------------------------------
\* failure ??= code
Sticky(code) == IF failure = "none" THEN code ELSE failure

\* transport.close() of an open transport is called once (#transportClosed).
CloseCalled(t) == IF t = "open" THEN "closing" ELSE t

\* The operations #acquire has kept waiting go on with the connection or get
\* the start's failure.
Acquired(outcome) ==
  [c \in Callers |-> IF call[c] = "acquiring" THEN outcome ELSE call[c]]

\* Mutants: the failure is not kept, or the operations are not answered.
StartEndsAs(kept, answered) ==
  /\ starting' = "none"
  /\ failure' = kept
  /\ call' = answered
StartEndsUnrecorded(code) == StartEndsAs(failure, Acquired(code))
StartEndsUnanswered(code) == StartEndsAs(Sticky(code), call)

StartEnds(code) ==
  /\ starting' = "none"
  /\ failure' = Sticky(code)
  /\ call' = Acquired(Sticky(code))

----------------------------------------------------------------------------
(* #acquire and the operations.                                            *)

Answer(c, value) == call' = [call EXCEPT ![c] = value]

Call(c) ==
  /\ call[c] = "idle"
  /\ \/ /\ closed
        /\ Answer(c, "bridge_closed")
        /\ UNCHANGED <<failure, connection, starting, starts>>
     \/ /\ ~closed /\ failure # "none"
        /\ Answer(c, failure)
        /\ UNCHANGED <<failure, connection, starting, starts>>
     \/ /\ ~closed /\ failure = "none" /\ connection /\ bridge \in Broken
        /\ Answer(c, "worker_lost")
        /\ failure' = "worker_lost" /\ connection' = FALSE
        /\ UNCHANGED <<starting, starts>>
     \/ /\ ~closed /\ failure = "none" /\ connection /\ bridge \notin Broken
        /\ Answer(c, "calling")
        /\ UNCHANGED <<failure, connection, starting, starts>>
     \/ /\ ~closed /\ failure = "none" /\ ~connection /\ starting # "none"
        /\ Answer(c, "acquiring")
        /\ UNCHANGED <<failure, connection, starting, starts>>
     \/ /\ ~closed /\ failure = "none" /\ ~connection /\ starting = "none"
        /\ starts < MaxStarts
        /\ Answer(c, "acquiring")
        /\ starting' = "spawning" /\ starts' = starts + 1
        /\ UNCHANGED <<failure, connection>>
  /\ UNCHANGED <<closed, lateSpawn, bridge, transport, closing>>

\* The result of an operation has come: of a connection that is the facade's
\* still, and failed, the facade keeps the loss, whatever the result says.
Observe ==
  /\ connection' = (connection /\ bridge \notin Broken)
  /\ failure' = IF connection /\ bridge \in Broken THEN Sticky("worker_lost") ELSE failure

\* The bridge's #available: the operation is sent, or answered by #closedCode().
Submits(c) ==
  /\ call[c] = "calling"
  /\ \/ bridge = "ready" /\ Answer(c, "pending")
     \/ bridge \in {"closing", "closed"} /\ Answer(c, "bridge_closed")
     \/ bridge \in Broken /\ Answer(c, "adapter_failure")
  /\ Observe
  /\ UNCHANGED <<closed, starting, starts, lateSpawn, bridge, transport, closing>>

\* A pending operation gets its answer, one that came before the end included,
\* or the code that #fail was given.
CallReturns(c) ==
  /\ call[c] = "pending"
  /\ \/ Answer(c, "ok")
     \/ bridge = "lost" /\ Answer(c, "worker_lost")
     \/ bridge = "violated" /\ Answer(c, "adapter_failure")
  /\ Observe
  /\ UNCHANGED <<closed, starting, starts, lateSpawn, bridge, transport, closing>>

----------------------------------------------------------------------------
(* #start.                                                                 *)

\* options.start delivers a transport, in time or to a start that gave up.
Spawned ==
  \/ /\ starting = "spawning"
     /\ starting' = "handshaking"
     /\ bridge' = "handshaking" /\ transport' = "open"
     /\ UNCHANGED <<closed, failure, connection, starts, lateSpawn, call, closing>>
  \/ /\ lateSpawn
     /\ lateSpawn' = FALSE
     /\ transport' = "closing"
     /\ UNCHANGED <<closed, failure, connection, starting, starts, bridge, call, closing>>

\* It rejects: with a WorkerStartError of its own code, or any other error.
SpawnFails ==
  \/ /\ starting = "spawning"
     /\ \E code \in {"worker_start_failed", "worker_identity_mismatch"} : StartEnds(code)
     /\ UNCHANGED <<closed, connection, starts, lateSpawn, bridge, transport, closing>>
  \/ /\ lateSpawn
     /\ lateSpawn' = FALSE
     /\ UNCHANGED <<closed, failure, connection, starting, starts, bridge, transport, call, closing>>

SpawnDeadline ==
  /\ starting = "spawning"
  /\ StartEnds("worker_start_timeout")
  /\ lateSpawn' = TRUE
  /\ UNCHANGED <<closed, connection, starts, bridge, transport, closing>>

\* Mutant: a start that becomes ready does not look for a close.
ReadyRegardless ==
  /\ starting = "handshaking" /\ bridge = "handshaking"
  /\ starting' = "none"
  /\ bridge' = "ready" /\ connection' = TRUE
  /\ call' = Acquired("calling")
  /\ UNCHANGED <<closed, failure, starts, lateSpawn, transport, closing>>

\* The welcome arrives: the connection is kept, or discarded after a close.
Ready ==
  /\ starting = "handshaking" /\ bridge = "handshaking"
  /\ IF closed
     THEN /\ starting' = "discarding"
          /\ bridge' = "lost" /\ transport' = CloseCalled(transport)
          /\ UNCHANGED <<connection, call>>
     ELSE /\ starting' = "none"
          /\ bridge' = "ready" /\ connection' = TRUE
          /\ call' = Acquired("calling")
          /\ UNCHANGED transport
  /\ UNCHANGED <<closed, failure, starts, lateSpawn, closing>>

\* ready() resolves false: the connection failed and closes its transport itself.
HandshakeFails ==
  /\ starting = "handshaking" /\ bridge = "handshaking"
  /\ bridge' \in Broken /\ transport' = CloseCalled(transport)
  /\ StartEnds("worker_start_failed")
  /\ UNCHANGED <<closed, connection, starts, lateSpawn, closing>>

HandshakeDeadline ==
  /\ starting = "handshaking" /\ bridge = "handshaking"
  /\ starting' = "terminating"
  /\ bridge' = "lost" /\ transport' = CloseCalled(transport)
  /\ UNCHANGED <<closed, failure, connection, starts, lateSpawn, call, closing>>

\* The awaited terminate() of a start resolves with the transport's close().
StartTerminated ==
  /\ transport = "closed"
  /\ \/ starting = "terminating" /\ StartEnds("worker_start_timeout")
     \/ /\ starting = "discarding"
        /\ starting' = "none"
        /\ call' = Acquired("bridge_closed")
        /\ UNCHANGED failure
  /\ UNCHANGED <<closed, connection, starts, lateSpawn, bridge, transport, closing>>

----------------------------------------------------------------------------
(* The connection and its transport.                                       *)

\* The worker's streams end or cannot be written, or it breaks the protocol.
Lost ==
  /\ bridge \in {"ready", "closing"}
  /\ bridge' \in Broken /\ transport' = CloseCalled(transport)
  /\ UNCHANGED <<closed, failure, connection, starting, starts, lateSpawn, call, closing>>

TransportCloses ==
  /\ transport = "closing"
  /\ transport' = "closed"
  /\ UNCHANGED <<closed, failure, connection, starting, starts, lateSpawn, bridge, call, closing>>

----------------------------------------------------------------------------
(* close().                                                                *)

\* What #close does once it no longer waits for a start: it takes the
\* connection and closes it, when there is one.
TakeConnection ==
  /\ connection' = FALSE
  /\ closing' = IF connection THEN "bridge" ELSE "closed"
  /\ bridge' = IF connection /\ bridge = "ready" THEN "closing" ELSE bridge

Close ==
  /\ ~closed
  /\ closed' = TRUE
  /\ IF starting # "none"
     THEN closing' = "starting" /\ UNCHANGED <<connection, bridge>>
     ELSE TakeConnection
  /\ UNCHANGED <<failure, starting, starts, lateSpawn, transport, call>>

\* The start settled, or the close deadline passed first.
CloseAfterStart ==
  /\ closing = "starting"
  /\ TakeConnection
  /\ UNCHANGED <<closed, failure, starting, starts, lateSpawn, transport, call>>

\* The worker's close result arrives.
BridgeCloses ==
  /\ bridge = "closing"
  /\ bridge' = "closed" /\ transport' = CloseCalled(transport)
  /\ UNCHANGED <<closed, failure, connection, starting, starts, lateSpawn, call, closing>>

\* bridge.close() resolves; it awaits the transport's close() only when it is
\* the one to call it, which after a loss it is not.
CloseCompletes ==
  /\ closing = "bridge"
  /\ \/ bridge = "closed" /\ transport = "closed" /\ closing' = "closed"
     \/ bridge \in Broken /\ closing' = "bridge_failed"
  /\ UNCHANGED <<closed, failure, connection, starting, starts, lateSpawn, bridge, transport, call>>

\* The close deadline: terminate() fails a connection that is still closing and
\* awaits its transport; of a closed one it does nothing.
CloseDeadline ==
  /\ closing = "bridge" /\ bridge \in {"closing", "closed"}
  /\ IF bridge = "closing"
     THEN /\ bridge' = "lost" /\ transport' = CloseCalled(transport)
          /\ closing' = "terminating"
     ELSE /\ closing' = "worker_close_timeout"
          /\ UNCHANGED <<bridge, transport>>
  /\ UNCHANGED <<closed, failure, connection, starting, starts, lateSpawn, call>>

CloseTerminated ==
  /\ closing = "terminating" /\ transport = "closed"
  /\ closing' = "worker_close_timeout"
  /\ UNCHANGED <<closed, failure, connection, starting, starts, lateSpawn, bridge, transport, call>>

Next ==
  \/ \E c \in Callers : Call(c) \/ Submits(c) \/ CallReturns(c)
  \/ Spawned \/ SpawnFails \/ SpawnDeadline
  \/ Ready \/ HandshakeFails \/ HandshakeDeadline \/ StartTerminated
  \/ Lost \/ TransportCloses
  \/ Close \/ CloseAfterStart \/ BridgeCloses \/ CloseCompletes
  \/ CloseDeadline \/ CloseTerminated

\* Deadlines fire, answered promises run their continuations, and a bridge
\* answers or fails its calls (WorkerSession's EveryCallAnswered).
Timers ==
  /\ WF_vars(starting = "spawning" /\ (Spawned \/ SpawnFails \/ SpawnDeadline))
  /\ WF_vars(Ready \/ HandshakeFails \/ HandshakeDeadline)
  /\ WF_vars(StartTerminated)
  /\ \A c \in Callers : WF_vars(Submits(c)) /\ WF_vars(CallReturns(c))
  /\ WF_vars(CloseAfterStart)
  /\ WF_vars(CloseCompletes \/ CloseDeadline)
  /\ WF_vars(CloseTerminated)

Spec == Init /\ [][Next]_vars /\ Timers

\* ... and the transport's close() resolves.
SpecTransportCloses == Spec /\ WF_vars(TransportCloses)

----------------------------------------------------------------------------
\* A facade has one worker and one end: it never starts a second worker, not after
\* a failed or late start, a loss, a close, nor for callers that come together.  An
\* operation that is told of a failed start is told what the facade keeps for the
\* later ones; one that reached a connection is told of no failed start, and once one
\* was told of the connection's end the facade is done with it, keeping worker_lost
\* unless a close had taken it; bridge_closed is heard of a closed facade only.
OneWorker ==
  /\ starts <= 1
  /\ \A c \in Callers :
       /\ call[c] \in StartFailures => failure = call[c]
       /\ call[c] \in {"calling", "pending", "ok"} => failure \in {"none", "worker_lost"}
       /\ call[c] \in {"worker_lost", "adapter_failure"} =>
            ~connection /\ (failure = "worker_lost" \/ (closed /\ failure = "none"))
       /\ call[c] = "bridge_closed" => closed

\* Every operation is answered and every close resolves ...
EveryCallReturns ==
  /\ \A c \in Callers : call[c] \in {"acquiring", "calling", "pending"} ~> call[c] \in Results
  /\ closed ~> closing \in CloseResults

\* ... and a closed facade releases the worker, also one that is delivered or
\* becomes ready after the close.
CloseReleasesWorker == closed ~> [](transport \in {"none", "closed"} /\ starting = "none")
=============================================================================

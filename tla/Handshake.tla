----------------------------- MODULE Handshake -----------------------------
(***************************************************************************)
(* The session handshake (packages/contracts/src/worker-handshake.ts) as   *)
(* the host connection (packages/sdk/src/process-bridge.ts) and the worker *)
(* endpoint (packages/worker/src/server.ts) perform it: hello, then        *)
(* welcome or incompatible, then both peers size their frame queues from   *)
(* the selected limits.                                                    *)
(*                                                                         *)
(* Of the twelve operational limits the five that constrain each other are *)
(* kept; "other_limit" stands for any of the seven that are only composed  *)
(* by minimum.  Build identity is a version and a digest.                  *)
(***************************************************************************)
EXTENDS Naturals

CONSTANTS
  Hosts,           \* configurations of the host: [version, digest, override, limits]
  Workers,         \* configurations of the worker: [version, digest, limits]
  ForeignWelcomes, \* well-formed welcomes of a worker that is not this server
  Ceiling,         \* STANDARD_WORKER_OPERATIONAL_LIMITS
  Release,         \* SAFESCRIPT_VERSION
  None             \* no message in flight / nothing selected yet

LimitKeys == {"max_frame_bytes", "max_payload_bytes", "max_in_flight",
              "max_pending_replies", "max_queued_bytes", "other_limit"}
Limits == [LimitKeys -> Nat]

ValidLimits(limits) ==
  /\ \A key \in LimitKeys : limits[key] >= 1
  /\ limits["max_payload_bytes"] < limits["max_frame_bytes"]
  /\ limits["max_pending_replies"] > limits["max_in_flight"]
  /\ limits["max_queued_bytes"] >= limits["max_frame_bytes"] * 2

ASSUME HandshakeAssumption ==
  /\ \A host \in Hosts : host.limits \in Limits /\ host.override \in BOOLEAN
  /\ \A worker \in Workers : worker.limits \in Limits
  /\ Ceiling \in Limits /\ ValidLimits(Ceiling)
  /\ \A welcome \in ForeignWelcomes : welcome.limits \in Limits

VARIABLES
  host, worker,              \* the two configurations, fixed
  hostState, workerState,    \* connection states of the two endpoints
  toWorker, toHost,          \* the message in flight in each direction
  hostLimits, workerLimits,  \* the limits each endpoint works under
  hostQueue, workerQueue     \* <<maxQueuedBytes, reservedQueuedBytes>> of each writer

vars == <<host, worker, hostState, workerState, toWorker, toHost,
          hostLimits, workerLimits, hostQueue, workerQueue>>

----------------------------------------------------------------------------
Smaller(m, n) == IF m < n THEN m ELSE n

\* Mutant: the built-in ceiling is forgotten.
SelectWithoutCeiling(h, w) == [key \in LimitKeys |-> Smaller(h[key], w[key])]

SelectLimits(h, w) ==
  [key \in LimitKeys |-> IF h[key] < w[key] THEN Smaller(h[key], Ceiling[key])
                                            ELSE Smaller(w[key], Ceiling[key])]

ReservedQueueBytes(limits) ==
  Smaller(limits["max_frame_bytes"], limits["max_queued_bytes"] \div 2)

QueueOf(limits) == <<limits["max_queued_bytes"], ReservedQueueBytes(limits)>>

\* configureQueue() refuses a bound it cannot work with
ConfigurableQueue(queue) == queue[1] >= 1 /\ queue[2] < queue[1]

\* negotiateWorkerProtocolHandshake: the dimensions that do not agree
Incompatibilities(hello, support) ==
  {d \in {"version", "worker_build_digest", "operational_limit"} :
     \/ d = "version" /\ (hello.version # Release \/ support.version # Release)
     \/ d = "worker_build_digest" /\ ~hello.override /\ hello.digest # support.digest
     \/ d = "operational_limit" /\ ~(ValidLimits(hello.limits) /\ ValidLimits(support.limits))}

\* The host tests the validator's result object itself, not its `compatible`
\* field, and an object is never falsy: no welcome is refused on its content.
WelcomeRefused(hello, welcome) == FALSE

----------------------------------------------------------------------------
Init ==
  /\ host \in Hosts
  /\ worker \in Workers
  /\ hostState = "new" /\ workerState = "new"
  /\ toWorker = None /\ toHost = None
  /\ hostLimits = host.limits /\ workerLimits = worker.limits
  /\ hostQueue = QueueOf(host.limits) /\ workerQueue = QueueOf(worker.limits)

\* ProcessRuntimeBridge.#start
SendHello ==
  /\ hostState = "new"
  /\ hostState' = "handshaking"
  /\ toWorker' = host
  /\ UNCHANGED <<host, worker, workerState, toHost,
                 hostLimits, workerLimits, hostQueue, workerQueue>>

\* RuntimeWorkerServer.#handshake, not compatible
ReplyIncompatible ==
  /\ workerState = "new" /\ toWorker # None
  /\ Incompatibilities(toWorker, worker) # {}
  /\ toWorker' = None
  /\ toHost' = [kind |-> "session.incompatible",
                dimensions |-> Incompatibilities(toWorker, worker)]
  /\ workerState' = "closed"
  /\ UNCHANGED <<host, worker, hostState, hostLimits, workerLimits, hostQueue, workerQueue>>

\* RuntimeWorkerServer.#handshake, compatible: the worker takes the selected
\* limits and sizes its queue before the welcome is written.
ReplyWelcome ==
  /\ workerState = "new" /\ toWorker # None
  /\ Incompatibilities(toWorker, worker) = {}
  /\ toWorker' = None
  /\ LET selected == SelectLimits(toWorker.limits, worker.limits)
     IN  /\ workerLimits' = selected
         /\ IF ConfigurableQueue(QueueOf(selected))
            THEN /\ workerQueue' = QueueOf(selected)
                 /\ workerState' = "ready"
                 /\ toHost' = [kind |-> "session.welcome", version |-> Release,
                               digest |-> worker.digest, limits |-> selected]
            ELSE /\ workerState' = "failed"
                 /\ UNCHANGED <<workerQueue, toHost>>
  /\ UNCHANGED <<host, worker, hostState, hostLimits, hostQueue>>

\* A worker program other than this server answers the hello.
ForeignReply ==
  /\ workerState = "new" /\ toWorker # None
  /\ \E welcome \in ForeignWelcomes :
       toHost' = [kind |-> "session.welcome", version |-> welcome.version,
                  digest |-> welcome.digest, limits |-> welcome.limits]
  /\ toWorker' = None
  /\ workerState' = "foreign"
  /\ UNCHANGED <<host, worker, hostState, hostLimits, workerLimits, hostQueue, workerQueue>>

\* ProcessRuntimeBridge.#acceptHandshake, session.incompatible
AcceptIncompatible ==
  /\ hostState = "handshaking" /\ toHost # None
  /\ toHost.kind = "session.incompatible"
  /\ hostState' = "failed"
  /\ toHost' = None
  /\ UNCHANGED <<host, worker, workerState, toWorker,
                 hostLimits, workerLimits, hostQueue, workerQueue>>

\* Mutant: the host keeps the queue it was constructed with.
AcceptWelcomeOldQueue ==
  /\ hostState = "handshaking" /\ toHost # None
  /\ toHost.kind = "session.welcome"
  /\ toHost' = None
  /\ hostLimits' = toHost.limits
  /\ hostState' = "ready"
  /\ UNCHANGED <<host, worker, workerState, toWorker, hostQueue, workerLimits, workerQueue>>

\* ProcessRuntimeBridge.#acceptHandshake, session.welcome
AcceptWelcome ==
  /\ hostState = "handshaking" /\ toHost # None
  /\ toHost.kind = "session.welcome"
  /\ toHost' = None
  /\ IF WelcomeRefused(host, toHost)
     THEN /\ hostState' = "failed"
          /\ UNCHANGED <<hostLimits, hostQueue>>
     ELSE /\ hostLimits' = toHost.limits
          /\ IF ConfigurableQueue(QueueOf(toHost.limits))
             THEN hostState' = "ready" /\ hostQueue' = QueueOf(toHost.limits)
             ELSE hostState' = "failed" /\ UNCHANGED hostQueue
  /\ UNCHANGED <<host, worker, workerState, toWorker, workerLimits, workerQueue>>

Next ==
  \/ SendHello
  \/ ReplyIncompatible
  \/ ReplyWelcome
  \/ ForeignReply
  \/ AcceptIncompatible
  \/ AcceptWelcome

Spec == Init /\ [][Next]_vars

----------------------------------------------------------------------------
Messages ==
  [kind : {"session.incompatible"},
   dimensions : SUBSET {"version", "worker_build_digest", "operational_limit"}]
    \cup [kind : {"session.welcome"},
          version : {Release} \cup {f.version : f \in ForeignWelcomes},
          digest : {w.digest : w \in Workers} \cup {f.digest : f \in ForeignWelcomes},
          limits : Limits]

TypeOK ==
  /\ host \in Hosts /\ worker \in Workers
  /\ hostState \in {"new", "handshaking", "ready", "failed"}
  /\ workerState \in {"new", "ready", "closed", "failed", "foreign"}
  /\ toWorker \in {None, host}
  /\ toHost = None \/ toHost \in Messages
  /\ hostLimits \in Limits /\ workerLimits \in Limits
  /\ hostQueue \in Nat \X Nat /\ workerQueue \in Nat \X Nat

\* Both peers of a session that is ready work under the same limits and with
\* equally sized queues, although each derives them on its own side.
ReadyPeersAgree ==
  hostState = "ready" /\ workerState # "foreign" =>
    /\ workerState = "ready"
    /\ hostLimits = workerLimits
    /\ hostQueue = workerQueue

\* A ready session with this worker is the session both sides asked for:
\* every selected limit is valid and within the host's, the worker's and the
\* built-in one, and the worker has the release and, without an override, the
\* digest the host expects.
ReadyWithinHello ==
  hostState = "ready" /\ workerState # "foreign" =>
    /\ ValidLimits(hostLimits)
    /\ \A key \in LimitKeys : /\ hostLimits[key] <= host.limits[key]
                              /\ hostLimits[key] <= worker.limits[key]
                              /\ hostLimits[key] <= Ceiling[key]
    /\ host.version = worker.version
    /\ host.override \/ worker.digest = host.digest

\* A frame of the largest negotiated size fits into either class of either
\* queue, so no write of a ready session is refused for want of capacity; a
\* worker that starts negotiating never fails on its own selection.
ReadyQueuesHoldAFrame ==
  /\ hostState = "ready" /\ workerState # "foreign" =>
       hostQueue[1] >= hostLimits["max_frame_bytes"] + hostQueue[2]
  /\ workerState = "ready" =>
       workerQueue[1] >= workerLimits["max_frame_bytes"] + workerQueue[2]
  /\ workerState # "failed"

\* The limits of a ready session are usable and nobody's are exceeded.
ReadyLimits == ReadyWithinHello /\ ReadyQueuesHoldAFrame
=============================================================================

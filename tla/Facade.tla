-------------------------------- MODULE Facade --------------------------------
(***************************************************************************)
(* FacadeCoordinator and ArtifactStorage (packages/sdk/src/facade.ts) over *)
(* the gateways of module Gateway: executions that load an artifact before *)
(* they reach the bridge and store one after it, shared loads, cancel, the *)
(* caller's own signal, and close.                                         *)
(*                                                                         *)
(* An action runs from one await to the next.  The runtime bridge, the     *)
(* artifact store and the host's callbacks are the environment: the bridge *)
(* answers what it likes, the store answers, fails or is timed out.        *)
(***************************************************************************)
EXTENDS Gateway

CONSTANTS
  InvocationOf,   \* the invocation identifier each execution carries
  Keys,           \* artifact keys
  KeyOf,          \* the key of the source each execution names
  Cancels, CancelOf,
  Inquiries       \* calls of check(), inspect(), applySemanticEdits() and test()

Invocations == {InvocationOf[e] : e \in Executions}

ASSUME FacadeAssumption ==
  /\ Cancels \cap Inquiries = {}
  /\ KeyOf \in [Executions -> Keys]
  /\ CancelOf \in [Cancels -> Invocations]

VARIABLES
  closing,       \* closing
  controllers,   \* the controller of each invocation identifier, as the set of the one execution it belongs to
  known,         \* knownArtifactKeys
  loads,         \* keys whose load is under way
  loaded,        \* what load() returned to each execution that is not over
  pc,            \* how far each execution is: see Points
  inquiry,       \* how far each check, inspect, edit or cancel is
  bridgeClose    \* bridge.close(): not called, called, answered; then the facade's

facadeVars == <<closing, controllers, known, loads, loaded, pc,
                inquiry, bridgeClose>>
vars == <<aborted, gatewayVars, facadeVars>>

Loaded  == {"none", "hit", "miss", "invalid", "failure"}
Points  == {"idle", "loading", "loaded", "removing", "executing", "replacing", "storing", "done"}

\* Executions that task set active holds.
Busy == {e \in Executions : pc[e] \notin {"idle", "done"}}

FacadeTypeOK ==
  /\ GatewayTypeOK
  /\ closing \in BOOLEAN
  /\ controllers \in [Invocations -> SUBSET Executions]
  /\ known \subseteq Keys /\ loads \subseteq Keys
  /\ loaded \in [Executions -> Loaded]
  /\ pc \in [Executions -> Points]
  /\ inquiry \in [Inquiries \cup Cancels -> {"idle", "pending", "done"}]
  /\ bridgeClose \in {"none", "called", "answered", "closed"}

Init ==
  /\ GatewayInit
  /\ closing = FALSE
  /\ controllers = [i \in Invocations |-> {}]
  /\ known = {} /\ loads = {}
  /\ loaded = [e \in Executions |-> "none"]
  /\ pc = [e \in Executions |-> "idle"]
  /\ inquiry = [c \in Inquiries \cup Cancels |-> "idle"]
  /\ bridgeClose = "none"

----------------------------------------------------------------------------
(* An execution settles: the finally of executeInvocation().  What its     *)
(* promise holds is left out.                                              *)

\* Mutant: all controllers are dropped with the first execution that ends.
SettlesForgetsAll(e) ==
  /\ pc' = [pc EXCEPT ![e] = "done"]
  /\ loaded' = [loaded EXCEPT ![e] = "none"]
  /\ controllers' = [i \in Invocations |-> {}]

Settles(e) ==
  /\ pc' = [pc EXCEPT ![e] = "done"]
  /\ loaded' = [loaded EXCEPT ![e] = "none"]
  /\ controllers' = [controllers EXCEPT ![InvocationOf[e]] = {}]

----------------------------------------------------------------------------
(* execute().                                                              *)

ExecuteRefused(e) ==
  /\ closing
  /\ pc' = [pc EXCEPT ![e] = "done"]
  /\ UNCHANGED <<aborted, closing, controllers, known, loads, loaded, inquiry,
                 bridgeClose>>

\* The slot, the signal or the identifier is refused: there is no controller yet.
ExecuteInvalid(e) ==
  /\ ~closing
  /\ pc' = [pc EXCEPT ![e] = "done"]
  /\ UNCHANGED <<aborted, closing, controllers, known, loads, loaded, inquiry, bridgeClose>>

\* The limits, the input, the program or an option is refused: there is one.
ExecuteNotAssembled(e) ==
  /\ ~closing
  /\ Settles(e)
  /\ UNCHANGED <<aborted, closing, known, loads, inquiry, bridgeClose>>

\* executeInvocation() and executeBridge() up to the first await.  The caller's
\* signal may be aborted already.
ExecuteLoads(e) ==
  /\ ~closing /\ KeyOf[e] \notin known
  /\ controllers' = [controllers EXCEPT ![InvocationOf[e]] = {e}]
  /\ loads' = loads \cup {KeyOf[e]}
  /\ \/ /\ pc' = [pc EXCEPT ![e] = "loading"]
        /\ UNCHANGED <<aborted, loaded>>
     \/ /\ pc' = [pc EXCEPT ![e] = "loaded"]
        /\ loaded' = [loaded EXCEPT ![e] = "failure"]
        /\ aborted' = aborted \cup {e}
  /\ UNCHANGED <<closing, known, inquiry, bridgeClose>>

\* Without a store, with an artifact program, or for a key that is known.
ExecuteStarts(e) ==
  /\ ~closing
  /\ controllers' = [controllers EXCEPT ![InvocationOf[e]] = {e}]
  /\ pc' = [pc EXCEPT ![e] = "executing"]
  /\ UNCHANGED <<aborted, closing, known, loads, loaded, inquiry, bridgeClose>>

\* The same with a signal that is aborted already.
ExecuteCancelled(e) ==
  /\ ~closing
  /\ aborted' = aborted \cup {e}
  /\ Settles(e)
  /\ UNCHANGED <<closing, known, loads, inquiry, bridgeClose>>

\* "An invocation ID is opaque and unique for active execution"
\* (docs/contracts-and-values.md:17): the facade leaves that to its caller.
IdentifierFree(e) == \A f \in Busy : InvocationOf[f] # InvocationOf[e]

Execute(e) ==
  /\ pc[e] = "idle" /\ IdentifierFree(e)
  /\ \/ ExecuteRefused(e) \/ ExecuteInvalid(e) \/ ExecuteNotAssembled(e)
     \/ ExecuteLoads(e) \/ ExecuteStarts(e) \/ ExecuteCancelled(e)
  /\ UNCHANGED gatewayVars

----------------------------------------------------------------------------
(* ArtifactStorage.load() and the start of the execution.                  *)

Waiting(k) == {e \in Executions : pc[e] = "loading" /\ KeyOf[e] = k}

Resume(es, with) ==
  /\ loaded' = [e \in Executions |-> IF e \in es THEN with ELSE loaded[e]]
  /\ pc' = [e \in Executions |-> IF e \in es THEN "loaded" ELSE pc[e]]

\* The shared load settles, by the store or by its timer, for all that wait.
LoadSettles(k) ==
  /\ k \in loads
  /\ loads' = loads \ {k}
  /\ \E with \in Loaded \ {"none"} : Resume(Waiting(k), with)
  /\ UNCHANGED <<aborted, gatewayVars, closing, controllers, known, inquiry, bridgeClose>>

\* An invalid entry is removed before the execution goes on.
RemovesInvalid(e) ==
  /\ pc[e] = "loaded" /\ loaded[e] = "invalid"
  /\ pc' = [pc EXCEPT ![e] = "removing"]
  /\ UNCHANGED <<aborted, gatewayVars, closing, controllers, known, loads, loaded,
                 inquiry, bridgeClose>>

\* Mutant: the signal is not read after the load.
StartsAnyway(e) ==
  /\ \/ pc[e] = "removing"
     \/ pc[e] = "loaded" /\ loaded[e] # "invalid"
  /\ pc' = [pc EXCEPT ![e] = "executing"]
  /\ UNCHANGED <<aborted, gatewayVars, closing, controllers, known, loads, loaded,
                 inquiry, bridgeClose>>

Starts(e) ==
  /\ \/ pc[e] = "removing"
     \/ pc[e] = "loaded" /\ loaded[e] # "invalid"
  /\ IF e \in aborted
       THEN Settles(e)
       ELSE pc' = [pc EXCEPT ![e] = "executing"] /\ UNCHANGED <<controllers, loaded>>
  /\ UNCHANGED <<aborted, gatewayVars, closing, known, loads, inquiry, bridgeClose>>

----------------------------------------------------------------------------
(* The bridge answers an execution.                                        *)

\* A failure of the bridge makes the facade forget what its cache holds.
BridgeErrs(e) == known' = {} /\ Settles(e)

\* It starts nothing, ends, or ends without an artifact that matters.
BridgeEnds(e) == UNCHANGED known /\ Settles(e)

\* The preparation has an artifact, the loaded one or another: another one
\* replaces a loaded one, and is stored unless the load failed.
BridgePrepared(e) ==
  \/ /\ loaded[e] \in {"hit", "failure"}
     /\ known' = known \cup {KeyOf[e]}
     /\ Settles(e)
  \/ /\ loaded[e] \in {"hit", "miss", "invalid"}
     /\ pc' = [pc EXCEPT ![e] = IF loaded[e] = "hit" THEN "replacing" ELSE "storing"]
     /\ UNCHANGED <<known, controllers, loaded>>

BridgeAnswers(e) ==
  /\ pc[e] = "executing"
  /\ BridgeErrs(e) \/ BridgeEnds(e) \/ BridgePrepared(e)
  /\ UNCHANGED <<aborted, gatewayVars, closing, loads, inquiry, bridgeClose>>

\* remove() and store() settle, by the store, by their timer or because the
\* storage is closed.  What they return is not read.
Stored(e) ==
  /\ \/ /\ pc[e] = "replacing"
        /\ pc' = [pc EXCEPT ![e] = "storing"]
        /\ UNCHANGED <<known, controllers, loaded>>
     \/ /\ pc[e] = "storing"
        /\ known' = known \cup {KeyOf[e]}
        /\ Settles(e)
  /\ UNCHANGED <<aborted, gatewayVars, closing, loads, inquiry, bridgeClose>>

----------------------------------------------------------------------------
(* check(), inspect(), applySemanticEdits() and test(), which hand their   *)
(* request to the bridge in the turn of the call; cancel() has their shape. *)

Ask(c) ==
  /\ inquiry[c] = "idle"
  /\ inquiry' = [inquiry EXCEPT ![c] = IF closing THEN "done" ELSE "pending"]

Inquire(c) ==
  /\ Ask(c)
  /\ UNCHANGED <<aborted, gatewayVars, closing, controllers, known, loads, loaded,
                 pc, bridgeClose>>

\* A checked or inspected source that is accepted is in the bridge's cache.
SourceAccepted == \E k \in Keys : known' = known \cup {k}

\* A failure of the bridge makes the facade forget what its cache holds.
BridgeFailed == known' = {}

\* A test run, an edit and a cancel tell nothing of the cache.
OtherwiseAnswered == UNCHANGED known

InquiryAnswered(c) ==
  /\ inquiry[c] = "pending"
  /\ inquiry' = [inquiry EXCEPT ![c] = "done"]
  /\ \/ c \in Inquiries /\ (SourceAccepted \/ BridgeFailed)
     \/ OtherwiseAnswered
  /\ UNCHANGED <<aborted, gatewayVars, closing, controllers, loads, loaded, pc, bridgeClose>>

----------------------------------------------------------------------------
(* Signals.                                                                *)

\* An aborted signal ends the wait of its execution for a load, and only that.
\* Mutant: the shared load runs under the signal of who waits for it.
AbortLoads(es) ==
  LET keys == {KeyOf[e] : e \in {f \in es : pc[f] = "loading"}} IN
    /\ aborted' = aborted \cup es
    /\ loads' = loads \ keys
    /\ Resume(UNION {Waiting(k) : k \in keys}, "failure")

Abort(es) ==
  /\ aborted' = aborted \cup es
  /\ Resume({e \in es : pc[e] = "loading"}, "failure")
  /\ UNCHANGED loads

\* The caller's signal.  Its listener is removed when the execution settles.
SignalAborts(e) ==
  /\ e \in Busy \ aborted
  /\ Abort({e})
  /\ UNCHANGED <<gatewayVars, closing, controllers, known, inquiry, bridgeClose>>

Cancel(c) ==
  /\ Ask(c)
  /\ Abort(IF closing THEN {} ELSE controllers[CancelOf[c]])
  /\ UNCHANGED <<gatewayVars, closing, controllers, known, bridgeClose>>

----------------------------------------------------------------------------
(* close().                                                                *)

Close ==
  /\ ~closing
  /\ closing' = TRUE
  /\ bridgeClose' = "called"
  /\ Abort(UNION {controllers[i] : i \in Invocations})
  /\ UNCHANGED <<gatewayVars, controllers, known, inquiry>>

BridgeCloses ==
  /\ bridgeClose = "called"
  /\ bridgeClose' = "answered"
  /\ UNCHANGED <<aborted, gatewayVars, closing, controllers, known, loads, loaded,
                 pc, inquiry>>

\* Promise.allSettled over the tasks that are still active.
\* Mutant: the host's actions are waited for as well.
ClosedAfterActions ==
  /\ bridgeClose = "answered"
  /\ Busy = {} /\ actionActive = {} /\ \A c \in Inquiries \cup Cancels : inquiry[c] # "pending"
  /\ bridgeClose' = "closed"
  /\ UNCHANGED <<aborted, gatewayVars, closing, controllers, known, loads, loaded,
                 pc, inquiry>>

Closed ==
  /\ bridgeClose = "answered"
  /\ Busy = {} /\ \A c \in Inquiries \cup Cancels : inquiry[c] # "pending"
  /\ bridgeClose' = "closed"
  /\ UNCHANGED <<aborted, gatewayVars, closing, controllers, known, loads, loaded,
                 pc, inquiry>>

----------------------------------------------------------------------------
\* A gateway is within reach of the bridge that was given its host.
Reachable(c) == pc[c[1]] \in {"executing", "replacing", "storing", "done"}

GatewayStep ==
  /\ \E c \in Calls : \/ Reachable(c) /\ Handle(c)
                      \/ HookSettles(c) \/ HandlerSettles(c)
  /\ UNCHANGED facadeVars

ExecutionStep(e) == Starts(e) \/ RemovesInvalid(e) \/ Stored(e) \/ BridgeAnswers(e)

Next ==
  \/ \E e \in Executions : Execute(e) \/ ExecutionStep(e) \/ SignalAborts(e)
  \/ \E k \in Keys : LoadSettles(k)
  \/ \E c \in Inquiries : Inquire(c)
  \/ \E c \in Cancels : Cancel(c)
  \/ \E c \in Inquiries \cup Cancels : InquiryAnswered(c)
  \/ Close \/ BridgeCloses \/ Closed
  \/ GatewayStep

\* The runtime bridge answers what it is asked, timers expire and the event
\* loop runs.  Nothing is assumed of the host's policy and handlers, nor of its
\* store.
Spec ==
  /\ Init /\ [][Next]_vars
  /\ \A e \in Executions : WF_vars(ExecutionStep(e))
  /\ \A k \in Keys : WF_vars(LoadSettles(k))
  /\ \A c \in Inquiries \cup Cancels : WF_vars(InquiryAnswered(c))
  /\ WF_vars(BridgeCloses) /\ WF_vars(Closed)

----------------------------------------------------------------------------
(* Properties.                                                             *)

\* "close() ... aborts facade invocations": while the facade closes, every
\* execution before the host, be it at the store or at the bridge, has had its
\* signal aborted, so that none is started and no handler is (docs/sdk.md:177;
\* close() aborts what controllers holds).
CloseAbortsInvocations ==
  closing => \A e \in Busy : pc[e] \in {"loading", "loaded", "removing", "executing"} => e \in aborted

\* Nothing reaches the bridge after its close() was called: an execution that
\* waited for the store is not started (executeBridge reads the signal after
\* its awaits).
NothingStartsAfterClose ==
  [][\A e \in Executions : closing /\ pc'[e] = "executing" => pc[e] = "executing"]_vars

\* Whoever shares a load with an execution that is cancelled still gets what
\* the store answers: a load fails for an execution because the store's answer
\* or the timer ended it or because that very execution was aborted, never
\* because another one was (ArtifactStorage.wait, docs/artifacts-and-
\* inspection.md:39).
SharedLoadSurvivesCancel ==
  [][\A e \in Executions : pc[e] = "loading" /\ loaded'[e] = "failure" /\ aborted' # aborted
                             => e \in aborted' \ aborted]_vars

\* close() resolves though a handler, a policy or the store never settles: it
\* waits for its own calls, which the bridge and the timers end (finishClose).
CloseResolves == closing ~> (bridgeClose = "closed")
=============================================================================

------------------------------- MODULE Gateway -------------------------------
(***************************************************************************)
(* InvocationGateway (packages/sdk/src/gateway.ts): the live action adapter*)
(* of one invocation, here one per execution.  A runtime bridge calls      *)
(* handle() for what it calls an action; the gateway validates the request,*)
(* consumes its sequence number, asks the host's policy and runs the host's*)
(* handler.  The bridge is not trusted: it may repeat a request, invent    *)
(* one, or have several handled at once.                                   *)
(*                                                                         *)
(* Values and identities other than the sequence number are reduced to     *)
(* whether they are valid, and the outcome to the action being answered.   *)
(***************************************************************************)
EXTENDS Naturals, FiniteSets

CONSTANTS
  Executions,   \* calls of execute(), each with a gateway of its own
  Calls,        \* calls of handle(): the execution and a number
  HostCalls,    \* limits.hostCalls
  HasHook       \* whether options.hooks.beforeAction is given

ASSUME GatewayAssumption ==
  /\ HostCalls \in Nat /\ HasHook \in BOOLEAN
  /\ IsFiniteSet(Calls) /\ Calls \subseteq Executions \X Nat

VARIABLES
  aborted,        \* executions whose AbortController is aborted
  sequence,       \* sequence of each gateway
  attemptedCalls, \* attemptedCalls of each gateway
  actionActive,   \* gateways that have an action under way
  claim,          \* the sequence number each request consumed
  call            \* how far each request is: see Phases

gatewayVars == <<sequence, attemptedCalls, actionActive, claim, call>>

Phases == {"none", "hook", "handler", "answered"}

\* A request that consumed no sequence number.
Unclaimed == Cardinality(Calls) + 1

GatewayTypeOK ==
  /\ aborted \subseteq Executions
  /\ sequence \in [Executions -> Nat]
  /\ attemptedCalls \in [Executions -> Nat]
  /\ actionActive \subseteq Executions
  /\ claim \in [Calls -> Nat]
  /\ call \in [Calls -> Phases]

GatewayInit ==
  /\ aborted = {}
  /\ sequence = [e \in Executions |-> 0]
  /\ attemptedCalls = [e \in Executions |-> 0]
  /\ actionActive = {}
  /\ claim = [c \in Calls |-> Unclaimed]
  /\ call = [c \in Calls |-> "none"]

----------------------------------------------------------------------------
(* handle().                                                               *)

Moves(c, phase) == call' = [call EXCEPT ![c] = phase]

\* The request names no operation of the slot, or its envelope, which names
\* the sequence number, is not the one expected: nothing is consumed.
HandleRefused(c) ==
  /\ Moves(c, "answered")
  /\ UNCHANGED <<aborted, sequence, attemptedCalls, actionActive, claim>>

Consume(c) ==
  /\ sequence' = [sequence EXCEPT ![c[1]] = @ + 1]
  /\ claim' = [claim EXCEPT ![c] = sequence[c[1]]]

\* The input does not decode, the calls are used up, or an action is under way.
HandleFaulted(c) ==
  /\ Consume(c)
  /\ Moves(c, "answered")
  /\ UNCHANGED <<aborted, attemptedCalls, actionActive>>

\* Mutant: any number of actions at once.
MayAttemptAtOnce(e) == attemptedCalls[e] + 1 <= HostCalls

MayAttempt(e) == attemptedCalls[e] + 1 <= HostCalls /\ e \notin actionActive

\* dispatch() up to its first await.
HandleDispatched(c) ==
  LET e == c[1] IN
    /\ MayAttempt(e)
    /\ Consume(c)
    /\ attemptedCalls' = [attemptedCalls EXCEPT ![e] = @ + 1]
    /\ IF e \in aborted
         THEN Moves(c, "answered") /\ UNCHANGED actionActive
         ELSE /\ Moves(c, IF HasHook THEN "hook" ELSE "handler")
              /\ actionActive' = actionActive \cup {e}
    /\ UNCHANGED aborted

Handle(c) ==
  /\ call[c] = "none"
  /\ HandleRefused(c) \/ HandleFaulted(c) \/ HandleDispatched(c)

----------------------------------------------------------------------------
(* The rest of dispatch() and invoke().                                    *)

\* The finally of handle().
Over(c) ==
  /\ Moves(c, "answered")
  /\ actionActive' = actionActive \ {c[1]}

\* The policy settles.  It may continue, or end the action: it stops it with an
\* error that encodes or does not, throws, or answers nonsense.
\* Mutant: the signal is not read again.
HookSettlesUnread(c) ==
  /\ call[c] = "hook"
  /\ \/ Over(c)
     \/ Moves(c, "handler") /\ UNCHANGED actionActive
  /\ UNCHANGED <<aborted, sequence, attemptedCalls, claim>>

HookSettles(c) ==
  /\ call[c] = "hook"
  /\ \/ Over(c)
     \/ c[1] \notin aborted /\ Moves(c, "handler") /\ UNCHANGED actionActive
  /\ UNCHANGED <<aborted, sequence, attemptedCalls, claim>>

\* The handler settles, with a declared result, a failure and the effect it
\* states, or something else of which the effect is then unknown.
HandlerSettles(c) ==
  /\ call[c] = "handler"
  /\ Over(c)
  /\ UNCHANGED <<aborted, sequence, attemptedCalls, claim>>

----------------------------------------------------------------------------
(* Properties.                                                             *)

\* Requests that reached the host's policy or its handler.
UnderWay(e) == {c \in Calls : c[1] = e /\ call[c] \in {"hook", "handler"}}

\* However the bridge repeats, invents or overlaps its requests, one action of
\* an invocation is before the host at a time, no sequence number is consumed
\* twice and the host is asked at most hostCalls times (handle: the number is
\* consumed, and the action marked, before the first await).
SerialDispatch ==
  \A e \in Executions :
    /\ Cardinality(UnderWay(e)) = (IF e \in actionActive THEN 1 ELSE 0)
    /\ attemptedCalls[e] <= sequence[e] /\ attemptedCalls[e] <= HostCalls
    /\ \A c, d \in Calls :
         c # d /\ c[1] = d[1] /\ claim[c] # Unclaimed => claim[c] # claim[d]

\* No handler is started for an execution whose signal is aborted, though the
\* policy that allowed it was asked before (dispatch reads the signal again
\* after its await).
NoHandlerAfterAbort ==
  [][\A c \in Calls : call[c] # "handler" /\ call'[c] = "handler" => c[1] \notin aborted]_<<aborted, gatewayVars>>
=============================================================================

----------------------------- MODULE FacadeProofs -----------------------------
(***************************************************************************)
(* Proofs about Facade and the gateways it extends, for any sets of        *)
(* executions, requests, keys and inquiries, any limit and either policy.  *)
(***************************************************************************)
EXTENDS Facade, FiniteSetTheorems, TLAPS

----------------------------------------------------------------------------
(* The gateways.  An action is under way for an execution exactly when its *)
(* gateway says so, and then it is the only one; a consumed number is below*)
(* the counter, so the next one is new.                                    *)

Alone ==
  \A e \in Executions : IF e \in actionActive THEN \E c \in Calls : UnderWay(e) = {c}
                                              ELSE UnderWay(e) = {}
Counted ==
  \A e \in Executions : attemptedCalls[e] <= sequence[e] /\ attemptedCalls[e] <= HostCalls
ClaimsPast ==
  \A c \in Calls : claim[c] # Unclaimed => claim[c] < sequence[c[1]]
ClaimsDiffer ==
  \A c, d \in Calls :
    c # d /\ c[1] = d[1] /\ claim[c] # Unclaimed => claim[c] # claim[d]

GatewayInv == GatewayTypeOK /\ Alone /\ Counted /\ ClaimsPast /\ ClaimsDiffer

\* A call names its execution.
LEMMA CallParts == ASSUME NEW c \in Calls PROVE c[1] \in Executions
BY GatewayAssumption

\* The invocation budget is a natural.
LEMMA UnclaimedNat == Unclaimed \in Nat
BY GatewayAssumption, FS_CardinalityType DEF Unclaimed

\* The gateway starts with no call and nothing claimed.
LEMMA GatewayInvInit == GatewayInit => GatewayInv
BY UnclaimedNat, GatewayAssumption DEF GatewayInit, GatewayInv, GatewayTypeOK, Alone, UnderWay,
     Counted, ClaimsPast, ClaimsDiffer, Phases

\* Consuming a number keeps what is said of the claims.
LEMMA ConsumeClaims ==
  ASSUME GatewayInv, NEW c \in Calls, Consume(c)
  PROVE  /\ sequence' \in [Executions -> Nat] /\ claim' \in [Calls -> Nat]
         /\ ClaimsPast' /\ ClaimsDiffer'
         /\ \A e \in Executions : sequence[e] <= sequence'[e]
         /\ sequence'[c[1]] = sequence[c[1]] + 1
<1> USE DEF GatewayInv, GatewayTypeOK
<1>1. c[1] \in Executions
  BY CallParts
<1>2. /\ sequence' \in [Executions -> Nat] /\ claim' \in [Calls -> Nat]
      /\ \A e \in Executions : sequence[e] <= sequence'[e]
      /\ sequence'[c[1]] = sequence[c[1]] + 1
      /\ \A e \in Executions : e # c[1] => sequence'[e] = sequence[e]
      /\ claim'[c] = sequence[c[1]]
      /\ \A d \in Calls : d # c => claim'[d] = claim[d]
  BY <1>1 DEF Consume
<1>3. Unclaimed' = Unclaimed
  BY DEF Unclaimed
<1>4. ClaimsPast'
  <2> SUFFICES ASSUME NEW d \in Calls, claim'[d] # Unclaimed
               PROVE  claim'[d] < sequence'[d[1]]
    BY <1>3 DEF ClaimsPast
  <2>1. d[1] \in Executions
    BY CallParts
  <2>2. CASE d = c
    BY <1>1, <1>2, <2>2
  <2>3. CASE d # c
    <3>1. claim[d] < sequence[d[1]]
      BY <1>2, <2>3 DEF ClaimsPast
    <3> QED
      BY <1>2, <2>1, <2>3, <3>1
  <2> QED
    BY <2>2, <2>3
<1>5. ClaimsDiffer'
  <2> SUFFICES ASSUME NEW a \in Calls, NEW b \in Calls, a # b, a[1] = b[1],
                      claim'[a] # Unclaimed
               PROVE  claim'[a] # claim'[b]
    BY <1>3 DEF ClaimsDiffer
  <2>1. CASE a # c /\ b # c
    BY <1>2, <2>1 DEF ClaimsDiffer
  <2>2. CASE a = c
    <3>1. claim'[b] = claim[b] /\ claim'[a] = sequence[b[1]]
      BY <1>2, <2>2
    <3>2. claim[b] = Unclaimed \/ claim[b] < sequence[b[1]]
      BY DEF ClaimsPast
    <3> QED
      BY <1>1, <2>2, <3>1, <3>2
  <2>3. CASE b = c /\ a # c
    <3>1. claim'[a] = claim[a] /\ claim'[b] = sequence[a[1]]
      BY <1>2, <2>3
    <3>2. claim[a] < sequence[a[1]]
      BY <3>1 DEF ClaimsPast
    <3> QED
      BY <1>1, <2>3, <3>1, <3>2
  <2> QED
    BY <2>1, <2>2, <2>3
<1> QED
  BY <1>2, <1>4, <1>5

\* The requests under way of each execution when one request moves on.
LEMMA MovesUnderWay ==
  ASSUME GatewayInv, NEW c \in Calls, NEW phase, Moves(c, phase)
  PROVE  /\ \A e \in Executions : e # c[1] => UnderWay(e)' = UnderWay(e)
         /\ phase \in {"hook", "handler"} => UnderWay(c[1])' = UnderWay(c[1]) \cup {c}
         /\ phase \notin {"hook", "handler"} => UnderWay(c[1])' = UnderWay(c[1]) \ {c}
<1>1. call' = [call EXCEPT ![c] = phase] /\ DOMAIN call = Calls
  BY DEF Moves, GatewayInv, GatewayTypeOK
<1> QED
  BY <1>1 DEF UnderWay

\* A request refused before a claim keeps the gateway invariant.
LEMMA HandleRefusedStep ==
  ASSUME GatewayInv, NEW c \in Calls, call[c] = "none", HandleRefused(c)
  PROVE  GatewayInv'
<1>1. \A e \in Executions : UnderWay(e)' = UnderWay(e)
  <2>1. c \notin UnderWay(c[1])
    BY DEF UnderWay
  <2>2. Moves(c, "answered")
    BY DEF HandleRefused
  <2>3. UnderWay(c[1])' = UnderWay(c[1]) \ {c}
    BY <2>2, MovesUnderWay
  <2>4. \A e \in Executions : e # c[1] => UnderWay(e)' = UnderWay(e)
    BY <2>2, MovesUnderWay
  <2>5. UnderWay(c[1])' = UnderWay(c[1])
    BY <2>1, <2>3
  <2> QED
    BY <2>4, <2>5
<1>2. GatewayTypeOK'
  BY DEF HandleRefused, Moves, GatewayInv, GatewayTypeOK, Phases
<1>3. Alone'
  BY <1>1 DEF HandleRefused, GatewayInv, Alone
<1> QED
  BY <1>2, <1>3 DEF HandleRefused, GatewayInv, Counted, ClaimsPast, ClaimsDiffer, Unclaimed

\* A request whose check faults keeps the gateway invariant.
LEMMA HandleFaultedStep ==
  ASSUME GatewayInv, NEW c \in Calls, call[c] = "none", HandleFaulted(c)
  PROVE  GatewayInv'
<1>1. \A e \in Executions : UnderWay(e)' = UnderWay(e)
  <2>1. c \notin UnderWay(c[1])
    BY DEF UnderWay
  <2>2. Moves(c, "answered")
    BY DEF HandleFaulted
  <2>3. UnderWay(c[1])' = UnderWay(c[1]) \ {c}
    BY <2>2, MovesUnderWay
  <2>4. \A e \in Executions : e # c[1] => UnderWay(e)' = UnderWay(e)
    BY <2>2, MovesUnderWay
  <2>5. UnderWay(c[1])' = UnderWay(c[1])
    BY <2>1, <2>3
  <2> QED
    BY <2>4, <2>5
<1>2. GatewayTypeOK'
  BY ConsumeClaims DEF HandleFaulted, Moves, GatewayInv, GatewayTypeOK, Phases
<1>3. Alone'
  BY <1>1 DEF HandleFaulted, GatewayInv, Alone
<1>4. Counted'
  <2> SUFFICES ASSUME NEW e \in Executions
               PROVE  attemptedCalls'[e] <= sequence'[e] /\ attemptedCalls'[e] <= HostCalls
    BY DEF Counted
  <2>1. sequence[e] <= sequence'[e] /\ attemptedCalls' = attemptedCalls
    BY ConsumeClaims DEF HandleFaulted
  <2> QED
    BY <1>2, <2>1 DEF GatewayInv, Counted, GatewayTypeOK
<1> QED
  BY <1>2, <1>3, <1>4, ConsumeClaims DEF HandleFaulted, GatewayInv

\* A dispatched request keeps the gateway invariant.
LEMMA HandleDispatchedStep ==
  ASSUME GatewayInv, NEW c \in Calls, call[c] = "none", HandleDispatched(c)
  PROVE  GatewayInv'
<1> DEFINE e == c[1]
<1>0. e \in Executions /\ Consume(c) /\ e \notin actionActive
  BY CallParts DEF HandleDispatched, MayAttempt
<1>1. UnderWay(e) = {} /\ c \notin UnderWay(e)
  BY <1>0 DEF GatewayInv, Alone
<1>2. GatewayTypeOK'
  BY <1>0, ConsumeClaims DEF HandleDispatched, Moves, GatewayInv, GatewayTypeOK, Phases
<1>3. Counted'
  <2> SUFFICES ASSUME NEW f \in Executions
               PROVE  attemptedCalls'[f] <= sequence'[f] /\ attemptedCalls'[f] <= HostCalls
    BY DEF Counted
  <2>1. CASE f = e
    <3>1. /\ attemptedCalls'[f] = attemptedCalls[f] + 1
          /\ attemptedCalls[f] + 1 <= HostCalls
          /\ sequence'[f] = sequence[f] + 1
      BY <1>0, <2>1, ConsumeClaims DEF HandleDispatched, MayAttempt, GatewayInv, GatewayTypeOK
    <3> QED
      BY <3>1 DEF GatewayInv, Counted, GatewayTypeOK
  <2>2. CASE f # e
    <3>1. attemptedCalls'[f] = attemptedCalls[f] /\ sequence[f] <= sequence'[f]
      BY <1>0, <2>2, ConsumeClaims DEF HandleDispatched, GatewayInv, GatewayTypeOK
    <3> QED
      BY <1>2, <3>1 DEF GatewayInv, Counted, GatewayTypeOK
  <2> QED
    BY <2>1, <2>2
<1>4. Alone'
  <2>1. CASE e \in aborted
    <3>1. Moves(c, "answered") /\ actionActive' = actionActive
      BY <2>1 DEF HandleDispatched
    <3>2. \A f \in Executions : UnderWay(f)' = UnderWay(f)
      BY <1>1, <3>1, MovesUnderWay
    <3> QED
      BY <3>1, <3>2 DEF GatewayInv, Alone
  <2>2. CASE e \notin aborted
    <3>1. /\ \E phase \in {"hook", "handler"} : Moves(c, phase)
          /\ actionActive' = actionActive \cup {e}
      BY <2>2 DEF HandleDispatched
    <3>2. /\ UnderWay(e)' = {c}
          /\ \A f \in Executions : f # e => UnderWay(f)' = UnderWay(f)
      BY <1>1, <3>1, MovesUnderWay
    <3> QED
      BY <3>1, <3>2 DEF GatewayInv, Alone
  <2> QED
    BY <2>1, <2>2
<1> QED
  BY <1>0, <1>2, <1>3, <1>4, ConsumeClaims DEF GatewayInv

\* A settlement of the policy or the handler ends the only action under way, or
\* leaves it the only one.
LEMMA SettlementStep ==
  ASSUME GatewayInv, NEW c \in Calls, HookSettles(c) \/ HandlerSettles(c)
  PROVE  GatewayInv'
<1> DEFINE e == c[1]
<1>1. e \in Executions /\ UnderWay(e) = {c} /\ e \in actionActive
  <2>1. e \in Executions
    BY CallParts
  <2>2. c \in UnderWay(e)
    BY DEF HookSettles, HandlerSettles, UnderWay
  <2> QED
    BY <2>1, <2>2 DEF GatewayInv, Alone
<1>2. UNCHANGED <<aborted, sequence, attemptedCalls, claim>>
  BY DEF HookSettles, HandlerSettles
<1>3. \/ Over(c)
      \/ Moves(c, "handler") /\ UNCHANGED actionActive
  BY DEF HookSettles, HandlerSettles
<1>4. GatewayTypeOK'
  BY <1>2, <1>3 DEF Over, Moves, GatewayInv, GatewayTypeOK, Phases
<1>5. Alone'
  <2>1. CASE Over(c)
    <3>1. /\ UnderWay(e)' = {} /\ actionActive' = actionActive \ {e}
          /\ \A f \in Executions : f # e => UnderWay(f)' = UnderWay(f)
      BY <1>1, <2>1, MovesUnderWay DEF Over
    <3> QED
      BY <3>1 DEF GatewayInv, Alone
  <2>2. CASE Moves(c, "handler") /\ UNCHANGED actionActive
    <3>1. \A f \in Executions : UnderWay(f)' = UnderWay(f)
      BY <1>1, <2>2, MovesUnderWay
    <3> QED
      BY <2>2, <3>1 DEF GatewayInv, Alone
  <2> QED
    BY <1>3, <2>1, <2>2
<1> QED
  BY <1>2, <1>4, <1>5 DEF GatewayInv, Counted, ClaimsPast, ClaimsDiffer, Unclaimed

----------------------------------------------------------------------------
(* The facade.  A controller belongs to the busy execution of its          *)
(* identifier; what waits for a load was not aborted; and once the facade  *)
(* closes, every busy execution was.                                       *)

Owned ==
  \A i \in Invocations, e \in Executions : e \in controllers[i] <=> e \in Busy /\ InvocationOf[e] = i
OneEach ==
  \A e, f \in Busy : InvocationOf[e] = InvocationOf[f] => e = f
Waits ==
  \A e \in Executions : /\ pc[e] \in {"idle", "loading"} => loaded[e] = "none"
                        /\ pc[e] \in {"idle", "loading"} => e \notin aborted
ClosingAborts == closing => Busy \subseteq aborted

FacadeInv == GatewayInv /\ FacadeTypeOK /\ Owned /\ OneEach /\ Waits /\ ClosingAborts

\* What the steps of the facade must keep besides the gateways' part.
FacadePart ==
  /\ closing \in BOOLEAN
  /\ controllers \in [Invocations -> SUBSET Executions]
  /\ known \subseteq Keys /\ loads \subseteq Keys
  /\ loaded \in [Executions -> Loaded]
  /\ pc \in [Executions -> Points]
  /\ aborted \subseteq Executions
  /\ Owned /\ OneEach /\ Waits /\ ClosingAborts
AskPart ==
  /\ inquiry \in [Inquiries \cup Cancels -> {"idle", "pending", "done"}]
  /\ bridgeClose \in {"none", "called", "answered", "closed"}

\* What the parts of the facade state are.
LEMMA Parts ==
  /\ FacadeInv <=> GatewayInv /\ FacadePart /\ AskPart
  /\ FacadeInv' <=> GatewayInv' /\ FacadePart' /\ AskPart'
BY DEF FacadeInv, FacadePart, AskPart, FacadeTypeOK, GatewayInv, GatewayTypeOK

\* A step that leaves the gateways alone, but for the executions aborted.
LEMMA GatewaysAlone ==
  ASSUME GatewayInv, UNCHANGED gatewayVars, aborted' \subseteq Executions
  PROVE  GatewayInv'
BY DEF gatewayVars, GatewayInv, GatewayTypeOK, Alone, UnderWay, Counted, ClaimsPast, ClaimsDiffer,
       Unclaimed

\* An execution belongs to an invocation.
LEMMA InvocationType == ASSUME NEW e \in Executions PROVE InvocationOf[e] \in Invocations
BY DEF Invocations

\* The facade starts with nothing loaded and nothing running.
LEMMA FacadeInvInit == Init => FacadeInv
<1> SUFFICES ASSUME Init PROVE FacadeInv
  OBVIOUS
<1>1. GatewayInv
  BY GatewayInvInit DEF Init
<1>2. Busy = {}
  BY DEF Init, Busy
<1>3. Owned /\ OneEach /\ ClosingAborts
  BY <1>2 DEF Init, Owned, OneEach, ClosingAborts
<1>4. Waits
  BY DEF Init, GatewayInit, Waits
<1>5. FacadePart
  BY <1>3, <1>4 DEF Init, GatewayInit, FacadePart, Loaded, Points
<1>6. AskPart
  BY DEF Init, AskPart
<1> QED
  BY <1>1, <1>5, <1>6, Parts

\* Where an execution settles, its controller goes and no other.
LEMMA SettlesStep ==
  ASSUME FacadePart, NEW e \in Executions, Settles(e), e \in Busy \/ IdentifierFree(e),
         UNCHANGED <<aborted, closing, loads>>, known' \subseteq Keys
  PROVE  FacadePart'
<1> USE DEF FacadePart
<1>1. InvocationOf[e] \in Invocations
  BY InvocationType
<1>2. /\ pc' \in [Executions -> Points] /\ loaded' \in [Executions -> Loaded]
      /\ controllers' \in [Invocations -> SUBSET Executions]
  BY DEF Settles, Points, Loaded
<1>3. Busy' = Busy \ {e}
  BY DEF Settles, Busy
<1>4. OneEach'
  BY <1>3 DEF OneEach
<1>5. Owned'
  <2> SUFFICES ASSUME NEW i \in Invocations, NEW f \in Executions
               PROVE  f \in controllers'[i] <=> f \in Busy' /\ InvocationOf[f] = i
    BY DEF Owned
  <2>1. CASE i = InvocationOf[e]
    <3>1. controllers'[i] = {}
      BY <1>1, <2>1 DEF Settles
    <3>2. f \in Busy /\ InvocationOf[f] = i => f = e
      BY <2>1 DEF OneEach, IdentifierFree
    <3> QED
      BY <1>3, <3>1, <3>2
  <2>2. CASE i # InvocationOf[e]
    BY <1>1, <1>3, <2>2 DEF Settles, Owned
  <2> QED
    BY <2>1, <2>2
<1>6. Waits'
  BY DEF Settles, Waits
<1>7. ClosingAborts'
  BY <1>3 DEF ClosingAborts
<1> QED
  BY <1>2, <1>4, <1>5, <1>6, <1>7

\* An execution that starts gets the controller of an identifier that is free.
LEMMA ControllerStep ==
  ASSUME FacadePart, NEW e \in Executions, pc[e] = "idle", IdentifierFree(e),
         NEW at \in Points \ {"idle", "done"},
         controllers' = [controllers EXCEPT ![InvocationOf[e]] = {e}],
         pc' = [pc EXCEPT ![e] = at]
  PROVE  /\ pc' \in [Executions -> Points]
         /\ controllers' \in [Invocations -> SUBSET Executions]
         /\ Busy' = Busy \cup {e}
         /\ Owned' /\ OneEach'
<1> USE DEF FacadePart
<1>1. InvocationOf[e] \in Invocations
  BY InvocationType
<1>2. pc' \in [Executions -> Points] /\ controllers' \in [Invocations -> SUBSET Executions]
  OBVIOUS
<1>3. Busy' = Busy \cup {e}
  BY DEF Busy
<1>4. OneEach'
  BY <1>3 DEF OneEach, IdentifierFree
<1>5. Owned'
  <2> SUFFICES ASSUME NEW i \in Invocations, NEW f \in Executions
               PROVE  f \in controllers'[i] <=> f \in Busy' /\ InvocationOf[f] = i
    BY DEF Owned
  <2>1. CASE i = InvocationOf[e]
    BY <1>1, <1>3, <2>1 DEF IdentifierFree
  <2>2. CASE i # InvocationOf[e]
    BY <1>1, <1>3, <2>2 DEF Owned
  <2> QED
    BY <2>1, <2>2
<1> QED
  BY <1>2, <1>3, <1>4, <1>5

\* A busy execution that goes on to a point that is no load.
LEMMA GoesOnStep ==
  ASSUME FacadePart, NEW e \in Executions, e \in Busy,
         NEW at \in Points \ {"idle", "loading", "done"}, pc' = [pc EXCEPT ![e] = at],
         UNCHANGED <<aborted, closing, controllers, known, loads, loaded>>
  PROVE  FacadePart'
<1> USE DEF FacadePart
<1>1. pc' \in [Executions -> Points] /\ Busy' = Busy
  BY DEF Busy
<1>2. Owned' /\ OneEach' /\ ClosingAborts'
  BY <1>1 DEF Owned, OneEach, ClosingAborts
<1>3. Waits'
  BY DEF Waits
<1> QED
  BY <1>1, <1>2, <1>3

\* Loads of busy executions end, be it by an answer or by an abortion.
LEMMA ResumeStep ==
  ASSUME FacadePart, NEW es \in SUBSET {e \in Executions : pc[e] = "loading"},
         NEW with \in Loaded, Resume(es, with),
         UNCHANGED controllers
  PROVE  /\ pc' \in [Executions -> Points] /\ loaded' \in [Executions -> Loaded]
         /\ Busy' = Busy
         /\ Owned' /\ OneEach'
         /\ \A e \in Executions : pc'[e] \in {"idle", "loading"} =>
              pc[e] \in {"idle", "loading"} /\ e \notin es /\ loaded'[e] = loaded[e]
<1> USE DEF FacadePart
<1>1. /\ pc' \in [Executions -> Points] /\ loaded' \in [Executions -> Loaded]
      /\ Busy' = Busy
  BY DEF Resume, Points, Busy
<1>2. Owned' /\ OneEach'
  BY <1>1 DEF Owned, OneEach
<1>3. \A e \in Executions : pc'[e] \in {"idle", "loading"} =>
        pc[e] \in {"idle", "loading"} /\ e \notin es /\ loaded'[e] = loaded[e]
  BY DEF Resume
<1> QED
  BY <1>1, <1>2, <1>3

\* Aborting executions that are busy, all of them if the facade closes with it.
LEMMA AbortStep ==
  ASSUME FacadePart, NEW es \in SUBSET Busy, Abort(es), closing' \in BOOLEAN,
         closing' => closing \/ es = Busy,
         UNCHANGED <<controllers, known>>
  PROVE  FacadePart'
<1> USE DEF FacadePart
<1> DEFINE ended == {e \in es : pc[e] = "loading"}
<1>1. /\ ended \in SUBSET {e \in Executions : pc[e] = "loading"} /\ Resume(ended, "failure")
      /\ aborted' = aborted \cup es /\ loads' = loads
  BY DEF Abort, Busy
<1>2. /\ pc' \in [Executions -> Points] /\ loaded' \in [Executions -> Loaded]
      /\ Busy' = Busy /\ Owned' /\ OneEach'
      /\ \A e \in Executions : pc'[e] \in {"idle", "loading"} =>
           pc[e] \in {"idle", "loading"} /\ e \notin ended /\ loaded'[e] = loaded[e]
  BY <1>1, ResumeStep DEF Loaded
<1>3. aborted' \subseteq Executions
  BY <1>1 DEF Busy
<1>4. Waits'
  <2> SUFFICES ASSUME NEW e \in Executions, pc'[e] \in {"idle", "loading"}
               PROVE  loaded'[e] = "none" /\ e \notin aborted'
    BY DEF Waits
  <2>1. pc[e] \in {"idle", "loading"} /\ e \notin ended /\ loaded'[e] = loaded[e]
    BY <1>2
  <2>2. e \notin es
    BY <2>1 DEF Busy
  <2> QED
    BY <1>1, <2>1, <2>2 DEF Waits
<1>5. ClosingAborts'
  BY <1>1, <1>2 DEF ClosingAborts
<1> QED
  BY <1>1, <1>2, <1>3, <1>4, <1>5

\* execute() keeps the facade invariant.
LEMMA ExecuteStep ==
  ASSUME FacadePart, NEW e \in Executions, Execute(e)
  PROVE  FacadePart'
<1> USE DEF FacadePart
<1>1. pc[e] = "idle" /\ IdentifierFree(e) /\ e \notin Busy /\ e \notin aborted /\ loaded[e] = "none"
  BY DEF Execute, Busy, Waits
<1>2. ASSUME UNCHANGED <<aborted, closing, controllers, known, loads, loaded>>,
             pc' = [pc EXCEPT ![e] = "done"]
      PROVE  FacadePart'
  <2>1. Busy' = Busy /\ pc' \in [Executions -> Points]
    BY <1>1, <1>2 DEF Busy, Points
  <2> QED
    BY <1>2, <2>1 DEF Owned, OneEach, Waits, ClosingAborts
<1>3. CASE ExecuteRefused(e) \/ ExecuteInvalid(e)
  BY <1>2, <1>3 DEF ExecuteRefused, ExecuteInvalid
<1>4. CASE ExecuteNotAssembled(e)
  BY <1>1, <1>4, SettlesStep DEF ExecuteNotAssembled
<1>5. CASE ExecuteCancelled(e)
  <2> DEFINE after == aborted \cup {e}
  <2>1. Settles(e) /\ aborted' = after /\ ~closing /\ UNCHANGED <<closing, known, loads>>
    BY <1>5 DEF ExecuteCancelled
  <2>2. /\ pc' \in [Executions -> Points] /\ loaded' \in [Executions -> Loaded]
        /\ controllers' \in [Invocations -> SUBSET Executions]
        /\ Busy' = Busy
    BY <1>1, <2>1 DEF Settles, Points, Loaded, Busy
  <2>3. controllers[InvocationOf[e]] = {} /\ controllers' = controllers
    <3>1. controllers[InvocationOf[e]] = {}
      BY <1>1, InvocationType DEF IdentifierFree, Owned
    <3> QED
      BY <2>1, <3>1 DEF Settles
  <2>4. Owned' /\ OneEach'
    BY <2>2, <2>3 DEF Owned, OneEach
  <2>5. Waits'
    BY <2>1 DEF Settles, Waits
  <2> QED
    BY <2>1, <2>2, <2>4, <2>5 DEF ClosingAborts
<1>6. CASE ExecuteLoads(e)
  <2>1. /\ ~closing /\ UNCHANGED <<closing, known>> /\ loads' \subseteq Keys
        /\ controllers' = [controllers EXCEPT ![InvocationOf[e]] = {e}]
    BY <1>6, FacadeAssumption DEF ExecuteLoads
  <2>2. CASE pc' = [pc EXCEPT ![e] = "loading"] /\ UNCHANGED <<aborted, loaded>>
    <3>1. /\ pc' \in [Executions -> Points] /\ controllers' \in [Invocations -> SUBSET Executions]
          /\ Owned' /\ OneEach'
      BY <1>1, <2>1, <2>2, ControllerStep DEF Points
    <3>2. Waits'
      BY <1>1, <2>2 DEF Waits
    <3> QED
      BY <2>1, <2>2, <3>1, <3>2 DEF ClosingAborts
  <2>3. CASE /\ pc' = [pc EXCEPT ![e] = "loaded"]
             /\ loaded' = [loaded EXCEPT ![e] = "failure"]
             /\ aborted' = aborted \cup {e}
    <3>1. /\ pc' \in [Executions -> Points] /\ controllers' \in [Invocations -> SUBSET Executions]
          /\ Owned' /\ OneEach'
      BY <1>1, <2>1, <2>3, ControllerStep DEF Points
    <3>2. Waits' /\ loaded' \in [Executions -> Loaded]
      BY <1>1, <2>3 DEF Waits, Loaded
    <3> QED
      BY <2>1, <2>3, <3>1, <3>2 DEF ClosingAborts
  <2> QED
    BY <1>6, <2>2, <2>3 DEF ExecuteLoads
<1>7. CASE ExecuteStarts(e)
  <2>1. /\ ~closing /\ UNCHANGED <<aborted, closing, known, loads, loaded>>
        /\ controllers' = [controllers EXCEPT ![InvocationOf[e]] = {e}]
        /\ pc' = [pc EXCEPT ![e] = "executing"]
    BY <1>7 DEF ExecuteStarts
  <2>2. /\ pc' \in [Executions -> Points] /\ controllers' \in [Invocations -> SUBSET Executions]
        /\ Owned' /\ OneEach'
    BY <1>1, <2>1, ControllerStep DEF Points
  <2>3. Waits'
    BY <2>1 DEF Waits
  <2> QED
    BY <2>1, <2>2, <2>3 DEF ClosingAborts
<1> QED
  BY <1>3, <1>4, <1>5, <1>6, <1>7 DEF Execute

\* A step of a running execution keeps the facade invariant.
LEMMA ExecutionStepStep ==
  ASSUME FacadePart, NEW e \in Executions, ExecutionStep(e)
  PROVE  FacadePart'
<1> USE DEF FacadePart
<1>k. KeyOf[e] \in Keys
  BY FacadeAssumption
<1>b. e \in Busy
  BY DEF ExecutionStep, Starts, RemovesInvalid, Stored, BridgeAnswers, Busy
<1>1. CASE Starts(e)
  <2>1. CASE e \in aborted
    BY <1>1, <1>b, <2>1, SettlesStep DEF Starts
  <2>2. CASE e \notin aborted
    BY <1>1, <1>b, <2>2, GoesOnStep DEF Starts, Points
  <2> QED
    BY <2>1, <2>2
<1>2. CASE RemovesInvalid(e)
  BY <1>2, <1>b, GoesOnStep DEF RemovesInvalid, Points
<1>3. CASE Stored(e)
  <2>1. CASE pc[e] = "replacing"
    BY <1>3, <1>b, <2>1, GoesOnStep DEF Stored, Points
  <2>2. CASE pc[e] = "storing"
    BY <1>3, <1>b, <1>k, <2>2, SettlesStep DEF Stored
  <2> QED
    BY <1>3, <2>1, <2>2 DEF Stored
<1>4. CASE BridgeAnswers(e)
  <2>1. CASE Settles(e)
    <3>1. known' \subseteq Keys
      BY <1>4, <1>k DEF BridgeAnswers, BridgeErrs, BridgeEnds, BridgePrepared
    <3> QED
      BY <1>4, <1>b, <2>1, <3>1, SettlesStep DEF BridgeAnswers
  <2>2. CASE ~Settles(e)
    <3>1. \E at \in {"replacing", "storing"} : pc' = [pc EXCEPT ![e] = at]
      BY <1>4, <2>2 DEF BridgeAnswers, BridgeErrs, BridgeEnds, BridgePrepared
    <3>2. UNCHANGED <<aborted, closing, controllers, known, loads, loaded>>
      BY <1>4, <2>2 DEF BridgeAnswers, BridgeErrs, BridgeEnds, BridgePrepared
    <3> QED
      BY <1>b, <3>1, <3>2, GoesOnStep DEF Points
  <2> QED
    BY <2>1, <2>2
<1> QED
  BY <1>1, <1>2, <1>3, <1>4 DEF ExecutionStep

\* A settled load keeps the facade invariant.
LEMMA LoadSettlesStep ==
  ASSUME FacadePart, NEW k \in Keys, LoadSettles(k)
  PROVE  FacadePart'
<1> USE DEF FacadePart
<1>1. PICK with \in Loaded \ {"none"} : Resume(Waiting(k), with)
  BY DEF LoadSettles
<1>2. /\ loads' \subseteq Keys
      /\ UNCHANGED <<aborted, closing, controllers, known>>
  BY DEF LoadSettles
<1>3. /\ pc' \in [Executions -> Points] /\ loaded' \in [Executions -> Loaded]
      /\ Busy' = Busy /\ Owned' /\ OneEach'
      /\ \A e \in Executions : pc'[e] \in {"idle", "loading"} =>
           pc[e] \in {"idle", "loading"} /\ e \notin Waiting(k) /\ loaded'[e] = loaded[e]
  <2>1. Waiting(k) \in SUBSET {e \in Executions : pc[e] = "loading"}
    BY DEF Waiting
  <2> QED
    BY <1>1, <1>2, <2>1, ResumeStep
<1>4. Waits'
  BY <1>2, <1>3 DEF Waits
<1> QED
  BY <1>2, <1>3, <1>4 DEF ClosingAborts

\* The steps that change nothing but which artifacts are known.
LEMMA KnownStep ==
  ASSUME FacadePart, known' \subseteq Keys,
         UNCHANGED <<aborted, closing, controllers, loads, loaded, pc>>
  PROVE  FacadePart'
BY DEF FacadePart, Owned, OneEach, Waits, ClosingAborts, Busy

\* A caller's signal, cancel() and close() keep the facade invariant.
LEMMA SignalStep ==
  ASSUME FacadePart,
         \/ \E e \in Executions : SignalAborts(e)
         \/ \E c \in Cancels : Cancel(c)
         \/ Close
  PROVE  FacadePart'
<1> USE DEF FacadePart
<1>0. \A i \in Invocations : controllers[i] \subseteq Busy
  BY DEF Owned
<1>1. ASSUME NEW e \in Executions, SignalAborts(e)
      PROVE  FacadePart'
  BY <1>1, AbortStep DEF SignalAborts
<1>2. ASSUME NEW c \in Cancels, Cancel(c)
      PROVE  FacadePart'
  <2>1. CancelOf[c] \in Invocations
    BY FacadeAssumption
  <2>2. PICK es \in SUBSET Busy : Abort(es)
    BY <1>0, <1>2, <2>1 DEF Cancel
  <2> QED
    BY <1>2, <2>2, AbortStep DEF Cancel
<1>3. CASE Close
  <2>1. UNION {controllers[i] : i \in Invocations} = Busy
    <3>1. \A e \in Busy : e \in controllers[InvocationOf[e]]
      BY InvocationType DEF Owned, Busy
    <3>2. \A e \in Busy : InvocationOf[e] \in Invocations
      BY InvocationType DEF Busy
    <3> QED
      BY <1>0, <3>1, <3>2
  <2> QED
    BY <1>3, <2>1, AbortStep DEF Close
<1> QED
  BY <1>1, <1>2, <1>3

\* A step of the gateway keeps the facade invariant.
LEMMA GatewayStepStep ==
  ASSUME FacadeInv, GatewayStep
  PROVE  FacadeInv'
<1>1. GatewayInv'
  <2>1. ASSUME NEW c \in Calls, Handle(c) PROVE GatewayInv'
    BY <2>1, HandleRefusedStep, HandleFaultedStep, HandleDispatchedStep DEF Handle, FacadeInv
  <2>2. ASSUME NEW c \in Calls, HookSettles(c) \/ HandlerSettles(c) PROVE GatewayInv'
    BY <2>2, SettlementStep DEF FacadeInv
  <2> QED
    BY <2>1, <2>2 DEF GatewayStep
<1>2. UNCHANGED <<aborted, facadeVars>>
  BY DEF GatewayStep, Handle, HandleRefused, HandleFaulted, HandleDispatched, HookSettles,
         HandlerSettles
<1>3. FacadePart' /\ AskPart'
  BY <1>2, Parts DEF facadeVars, FacadePart, AskPart, Owned, OneEach, Waits, ClosingAborts, Busy
<1> QED
  BY <1>1, <1>3, Parts

\* Every step keeps the facade invariant.
LEMMA FacadeInvNext == FacadeInv /\ [Next]_vars => FacadeInv'
<1> SUFFICES ASSUME FacadeInv, [Next]_vars PROVE FacadeInv'
  OBVIOUS
<1>0. GatewayInv /\ FacadePart /\ AskPart
  BY Parts
<1>a. ASSUME FacadePart', AskPart', UNCHANGED gatewayVars
      PROVE  FacadeInv'
  BY <1>0, <1>a, GatewaysAlone, Parts DEF FacadePart
<1>1. ASSUME NEW e \in Executions, Execute(e) PROVE FacadeInv'
  <2>1. UNCHANGED gatewayVars /\ UNCHANGED <<inquiry, bridgeClose>>
    BY <1>1 DEF Execute, ExecuteRefused, ExecuteInvalid, ExecuteNotAssembled, ExecuteLoads,
                ExecuteStarts, ExecuteCancelled
  <2> QED
    BY <1>0, <1>1, <1>a, <2>1, ExecuteStep DEF AskPart
<1>2. ASSUME NEW e \in Executions, ExecutionStep(e) PROVE FacadeInv'
  <2>1. UNCHANGED gatewayVars /\ UNCHANGED <<inquiry, bridgeClose>>
    BY <1>2 DEF ExecutionStep, Starts, RemovesInvalid, Stored, BridgeAnswers
  <2> QED
    BY <1>0, <1>2, <1>a, <2>1, ExecutionStepStep DEF AskPart
<1>3. ASSUME NEW e \in Executions, SignalAborts(e) PROVE FacadeInv'
  <2>1. UNCHANGED gatewayVars /\ UNCHANGED <<inquiry, bridgeClose>>
    BY <1>3 DEF SignalAborts
  <2> QED
    BY <1>0, <1>3, <1>a, <2>1, SignalStep DEF AskPart
<1>4. ASSUME NEW k \in Keys, LoadSettles(k) PROVE FacadeInv'
  <2>1. UNCHANGED gatewayVars /\ UNCHANGED <<inquiry, bridgeClose>>
    BY <1>4 DEF LoadSettles
  <2> QED
    BY <1>0, <1>4, <1>a, <2>1, LoadSettlesStep DEF AskPart
<1>5. ASSUME NEW c \in Cancels, Cancel(c) PROVE FacadeInv'
  <2>1. UNCHANGED gatewayVars /\ UNCHANGED bridgeClose
    BY <1>5 DEF Cancel
  <2>2. AskPart'
    BY <1>0, <1>5, <2>1 DEF Cancel, Ask, AskPart
  <2> QED
    BY <1>0, <1>5, <1>a, <2>1, <2>2, SignalStep
<1>6. ASSUME NEW c \in Inquiries, Inquire(c) PROVE FacadeInv'
  <2>1. /\ UNCHANGED gatewayVars
        /\ UNCHANGED <<aborted, closing, controllers, known, loads, loaded, pc, bridgeClose>>
    BY <1>6 DEF Inquire
  <2>2. AskPart'
    BY <1>0, <1>6, <2>1 DEF Inquire, Ask, AskPart
  <2>3. FacadePart'
    BY <1>0, <2>1, KnownStep DEF FacadePart
  <2> QED
    BY <1>a, <2>1, <2>2, <2>3
<1>7. ASSUME NEW c \in Inquiries \cup Cancels, InquiryAnswered(c) PROVE FacadeInv'
  <2>1. /\ UNCHANGED gatewayVars
        /\ UNCHANGED <<aborted, closing, controllers, loads, loaded, pc, bridgeClose>>
    BY <1>7 DEF InquiryAnswered
  <2>2. AskPart'
    BY <1>0, <1>7, <2>1 DEF InquiryAnswered, AskPart
  <2>3. known' \subseteq Keys
    BY <1>0, <1>7 DEF InquiryAnswered, SourceAccepted, BridgeFailed, OtherwiseAnswered, FacadePart
  <2> QED
    BY <1>0, <1>a, <2>1, <2>2, <2>3, KnownStep
<1>8. CASE Close
  <2>1. UNCHANGED gatewayVars /\ UNCHANGED inquiry /\ bridgeClose' = "called"
    BY <1>8 DEF Close
  <2> QED
    BY <1>0, <1>8, <1>a, <2>1, SignalStep DEF AskPart
<1>9. CASE BridgeCloses \/ Closed
  <2>1. /\ UNCHANGED gatewayVars /\ bridgeClose' \in {"answered", "closed"}
        /\ UNCHANGED <<aborted, closing, controllers, known, loads, loaded, pc, inquiry>>
    BY <1>9 DEF BridgeCloses, Closed
  <2>2. FacadePart'
    BY <1>0, <2>1, KnownStep DEF FacadePart
  <2> QED
    BY <1>0, <1>a, <2>1, <2>2 DEF AskPart
<1>10. CASE GatewayStep
  BY <1>10, GatewayStepStep
<1>11. CASE UNCHANGED vars
  <2>1. /\ UNCHANGED gatewayVars
        /\ UNCHANGED <<aborted, closing, controllers, known, loads, loaded, pc, inquiry, bridgeClose>>
    BY <1>11 DEF vars, facadeVars
  <2>2. FacadePart'
    BY <1>0, <2>1, KnownStep DEF FacadePart
  <2> QED
    BY <1>0, <1>a, <2>1, <2>2 DEF AskPart
<1> QED
  BY <1>1, <1>2, <1>3, <1>4, <1>5, <1>6, <1>7, <1>8, <1>9, <1>10, <1>11 DEF Next

\* The facade invariant holds in every reachable state.
LEMMA FacadeInvariant == Spec => []FacadeInv
BY FacadeInvInit, FacadeInvNext, PTL DEF Spec

----------------------------------------------------------------------------
\* The facade's and the gateways' variables hold values of their type.
THEOREM TypeCorrect == Spec => []FacadeTypeOK
BY FacadeInvariant, PTL DEF FacadeInv

\* One action of an invocation is before the host at a time, no sequence number
\* is consumed twice and the host is asked at most hostCalls times, whatever the
\* runtime bridge asks of a gateway.
THEOREM Serial == Spec => []SerialDispatch
<1>1. FacadeInv => SerialDispatch
  <2> SUFFICES ASSUME FacadeInv, NEW e \in Executions
               PROVE  Cardinality(UnderWay(e)) = (IF e \in actionActive THEN 1 ELSE 0)
    BY DEF FacadeInv, GatewayInv, SerialDispatch, Counted, ClaimsDiffer
  <2>1. CASE e \in actionActive
    <3>1. PICK c \in Calls : UnderWay(e) = {c}
      BY <2>1 DEF FacadeInv, GatewayInv, Alone
    <3> QED
      BY <2>1, <3>1, FS_Singleton
  <2>2. CASE e \notin actionActive
    <3>1. UnderWay(e) = {}
      BY <2>2 DEF FacadeInv, GatewayInv, Alone
    <3> QED
      BY <2>2, <3>1, FS_EmptySet
  <2> QED
    BY <2>1, <2>2
<1> QED
  BY <1>1, FacadeInvariant, PTL

\* While the facade closes, every execution before the host has been aborted,
\* whichever executions shared an identifier one after the other.
THEOREM CloseAborts == Spec => []CloseAbortsInvocations
<1>1. FacadeInv => CloseAbortsInvocations
  BY DEF FacadeInv, ClosingAborts, CloseAbortsInvocations
<1> QED
  BY <1>1, FacadeInvariant, PTL

\* No handler starts for an aborted execution, though its policy was asked
\* before the abortion and answered after it.
THEOREM HandlersBeforeAbort == Spec => NoHandlerAfterAbort
<1>1. ASSUME FacadeInv, [Next]_vars, NEW c \in Calls, call[c] # "handler", call'[c] = "handler"
      PROVE  c[1] \notin aborted
  <2> USE DEF FacadeInv, GatewayInv, GatewayTypeOK
  <2>1. call' # call
    BY <1>1
  <2>2. GatewayStep
    <3>1. UNCHANGED gatewayVars => UNCHANGED call
      BY DEF gatewayVars
    <3>2. UNCHANGED vars => UNCHANGED gatewayVars
      BY DEF vars
    <3> QED
      BY <1>1, <2>1, <3>1, <3>2 DEF Next, Execute, ExecutionStep, Starts, RemovesInvalid, Stored, BridgeAnswers,
         SignalAborts, LoadSettles, Inquire, Cancel, InquiryAnswered, Close, BridgeCloses, Closed
  <2>3. PICK d \in Calls : Handle(d) \/ HookSettles(d) \/ HandlerSettles(d)
    BY <2>2 DEF GatewayStep
  <2>4. CASE Handle(d)
    BY <1>1, <2>4 DEF Handle, HandleRefused, HandleFaulted, HandleDispatched, Moves
  <2>5. CASE HookSettles(d)
    BY <1>1, <2>5 DEF HookSettles, Over, Moves
  <2>6. CASE HandlerSettles(d)
    BY <1>1, <2>6 DEF HandlerSettles, Over, Moves
  <2> QED
    BY <2>3, <2>4, <2>5, <2>6
<1>2. FacadeInv /\ [Next]_vars =>
        [\A c \in Calls : call[c] # "handler" /\ call'[c] = "handler" => c[1] \notin aborted]_<<aborted, gatewayVars>>
  BY <1>1
<1> QED
  BY <1>2, FacadeInvariant, PTL DEF Spec, NoHandlerAfterAbort

\* No execution reaches the bridge after its close() was called.
THEOREM NothingStarts == Spec => NothingStartsAfterClose
<1>1. ASSUME FacadeInv, [Next]_vars, NEW e \in Executions, closing, pc'[e] = "executing"
      PROVE  pc[e] = "executing"
  <2> SUFFICES ASSUME pc[e] # "executing" PROVE FALSE
    OBVIOUS
  <2>t. pc \in [Executions -> Points]
    BY <1>1 DEF FacadeInv, FacadeTypeOK
  <2>1. pc' # pc
    BY <1>1
  <2>2. ASSUME NEW f \in Executions, Execute(f) PROVE pc'[e] # "executing"
    BY <1>1, <2>2, <2>t DEF Execute, ExecuteRefused, ExecuteInvalid, ExecuteNotAssembled, ExecuteLoads,
                            ExecuteStarts, ExecuteCancelled, Settles
  <2>3. ASSUME NEW f \in Executions, ExecutionStep(f) PROVE pc'[e] # "executing"
    <3>1. CASE Starts(f)
      <4>1. f \in aborted
        BY <1>1, <3>1 DEF Starts, Busy, FacadeInv, ClosingAborts
      <4> QED
        BY <3>1, <4>1, <2>t DEF Starts, Settles
    <3>2. CASE RemovesInvalid(f) \/ Stored(f) \/ BridgeAnswers(f)
      BY <3>2, <2>t DEF RemovesInvalid, Stored, BridgeAnswers, BridgeErrs, BridgeEnds, BridgePrepared, Settles
    <3> QED
      BY <2>3, <3>1, <3>2 DEF ExecutionStep
  <2>4. ASSUME NEW es, NEW with, Resume(es, with) PROVE pc'[e] # "executing"
    BY <2>4 DEF Resume
  <2>5. ASSUME NEW f \in Executions, SignalAborts(f) PROVE pc'[e] # "executing"
    BY <2>4, <2>5 DEF SignalAborts, Abort
  <2>6. ASSUME NEW k \in Keys, LoadSettles(k) PROVE pc'[e] # "executing"
    BY <2>4, <2>6 DEF LoadSettles
  <2>7. ASSUME NEW c \in Cancels, Cancel(c) PROVE pc'[e] # "executing"
    BY <2>4, <2>7 DEF Cancel, Abort
  <2>8. ~Close
    BY <1>1 DEF Close
  <2>9. \/ UNCHANGED vars \/ GatewayStep \/ BridgeCloses \/ Closed
        \/ \E c \in Inquiries : Inquire(c)
        \/ \E c \in Inquiries \cup Cancels : InquiryAnswered(c)
        => UNCHANGED pc
    BY DEF vars, facadeVars, GatewayStep, BridgeCloses, Closed, Inquire, InquiryAnswered
  <2> QED
    BY <1>1, <2>1, <2>2, <2>3, <2>5, <2>6, <2>7, <2>8, <2>9 DEF Next
<1>2. FacadeInv /\ [Next]_vars =>
        [\A e \in Executions : closing /\ pc'[e] = "executing" => pc[e] = "executing"]_vars
  BY <1>1
<1> QED
  BY <1>2, FacadeInvariant, PTL DEF Spec, NothingStartsAfterClose

\* Aborting an execution never fails the load of another one that shares it.
THEOREM SharedLoads == Spec => SharedLoadSurvivesCancel
<1>1. ASSUME FacadeInv, [Next]_vars, NEW e \in Executions,
             pc[e] = "loading", loaded'[e] = "failure", aborted' # aborted
      PROVE  e \in aborted' \ aborted
  <2>t. loaded \in [Executions -> Loaded] /\ loaded[e] = "none" /\ e \notin aborted
    BY <1>1 DEF FacadeInv, FacadeTypeOK, Waits
  <2>1. ASSUME NEW f \in Executions PROVE ~Execute(f)
    BY <1>1, <2>t, <2>1 DEF Execute, ExecuteRefused, ExecuteInvalid, ExecuteNotAssembled,
                            ExecuteLoads, ExecuteStarts, ExecuteCancelled, Settles
  <2>2. ASSUME NEW es, Abort(es) PROVE e \in aborted'
    BY <1>1, <2>t, <2>2 DEF Abort, Resume
  <2>3. \/ \E f \in Executions : SignalAborts(f)
        \/ \E c \in Cancels : Cancel(c)
        \/ Close
    <3>1. ~UNCHANGED vars
      BY <1>1 DEF vars
    <3>2. \A f \in Executions : ExecutionStep(f) => UNCHANGED aborted
      BY DEF ExecutionStep, Starts, RemovesInvalid, Stored, BridgeAnswers
    <3>3. GatewayStep => UNCHANGED aborted
      BY DEF GatewayStep, Handle, HandleRefused, HandleFaulted, HandleDispatched, HookSettles,
             HandlerSettles
    <3> QED
      BY <1>1, <2>1, <3>1, <3>2, <3>3
         DEF Next, LoadSettles, Inquire, InquiryAnswered, BridgeCloses, Closed
  <2> QED
    BY <2>t, <2>2, <2>3 DEF SignalAborts, Cancel, Close
<1>2. FacadeInv /\ [Next]_vars =>
        [\A e \in Executions : pc[e] = "loading" /\ loaded'[e] = "failure" /\ aborted' # aborted
                                 => e \in aborted' \ aborted]_vars
  BY <1>1
<1> QED
  BY <1>2, FacadeInvariant, PTL DEF Spec, SharedLoadSurvivesCancel
=============================================================================

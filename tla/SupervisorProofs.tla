--------------------------- MODULE SupervisorProofs ---------------------------
(***************************************************************************)
(* Proofs about Supervisor, for any operations and any bound on starts.    *)
(***************************************************************************)
EXTENDS Supervisor, TLAPS

----------------------------------------------------------------------------
\* A start was made exactly where it left a trace, and what it left rules out
\* another one.
StartsOnce ==
  /\ starts <= 1
  /\ starts = 1 => closed \/ failure # "none" \/ connection \/ starting # "none"
  /\ connection \/ failure # "none" \/ starting # "none" => starts = 1
  /\ starting # "none" => failure = "none" /\ ~connection
  /\ starting = "discarding" => closed
  /\ closing # "none" => closed

\* Operations that reached the connection come after the start, and stay with it or
\* outlive it: the facade is then through with it, by its loss or by a close.
Reached(c) == call[c] \in {"calling", "pending", "ok", "worker_lost", "adapter_failure"}
Through    == failure = "worker_lost" \/ (closed /\ failure = "none")
Told ==
  \A c \in Callers :
    /\ Reached(c) => starts = 1 /\ starting = "none" /\ (connection \/ Through)
    /\ call[c] \in {"worker_lost", "adapter_failure"} => ~connection
    /\ call[c] \in StartFailures => failure = call[c]
    /\ call[c] = "bridge_closed" => closed

\* A connection is kept by a facade that has not failed, and closed by its close.
ConnectionKept ==
  /\ connection => failure = "none"
  /\ bridge \in {"closing", "closed"} => closed

SupervisorInv == TypeOK /\ StartsOnce /\ Told /\ ConnectionKept

Values == Results \cup {"idle", "acquiring", "calling", "pending"}

\* The results and codes the steps assign are values of a call.
LEMMA Names ==
  /\ Kept \subseteq Results /\ Kept \subseteq Values /\ Results \subseteq Values
  /\ {"bridge_closed", "ok", "worker_lost", "adapter_failure", "idle", "acquiring", "calling", "pending"} \subseteq Values
BY DEF StartFailures, Kept, Results, Values

\* The supervisor starts with no bridge and nothing in flight.
LEMMA SupervisorInvInit == Init => SupervisorInv
<1> SUFFICES ASSUME Init PROVE SupervisorInv
  OBVIOUS
<1>1. TypeOK
  <2>1. call \in [Callers -> Values]
    BY Names DEF Init
  <2>2. starts \in 0..MaxStarts
    BY SupervisorAssumption DEF Init
  <2>3. closed \in BOOLEAN /\ connection \in BOOLEAN /\ lateSpawn \in BOOLEAN
    BY DEF Init
  <2>4. /\ failure = "none" /\ starting = "none" /\ bridge = "none"
        /\ transport = "none" /\ closing = "none"
    BY DEF Init
  <2> QED
    BY <2>1, <2>2, <2>3, <2>4 DEF TypeOK, Values
<1>2. StartsOnce /\ ConnectionKept
  BY DEF Init, StartsOnce, ConnectionKept
<1>3. Told
  BY DEF Init, Told, Reached, StartFailures
<1> QED
  BY <1>1, <1>2, <1>3 DEF SupervisorInv

\* An answer is one of those a call can have.
LEMMA AnswerType ==
  ASSUME call \in [Callers -> Values], NEW c \in Callers, NEW v \in Values, Answer(c, v)
  PROVE  /\ call' \in [Callers -> Values]
         /\ call'[c] = v /\ \A d \in Callers : d # c => call'[d] = call[d]
BY DEF Answer

\* What the facade has when #observe is through with a result: what it had, or the
\* loss of its connection.
ObservedLoss ==
  \/ UNCHANGED <<failure, connection>>
  \/ connection /\ ~connection' /\ connection' \in BOOLEAN /\ failure' = "worker_lost"

\* What an operation may be told, given what the facade then has.
Sound(v) ==
  /\ v \in {"calling", "pending", "ok", "worker_lost", "adapter_failure"} =>
       starts = 1 /\ starting = "none" /\ (connection \/ Through)
  /\ v \in {"worker_lost", "adapter_failure"} => ~connection
  /\ v \in StartFailures => failure = v
  /\ v = "bridge_closed" => closed

\* An operation that is told what it may be told keeps the invariant.
LEMMA AnswerStep ==
  ASSUME SupervisorInv, NEW c \in Callers, NEW v \in Values, Answer(c, v), Sound(v)', ObservedLoss,
         UNCHANGED <<closed, starting, starts, lateSpawn, bridge, transport, closing>>
  PROVE  SupervisorInv'
<1> USE DEF SupervisorInv
<1>1. /\ call' \in [Callers -> Values] /\ call'[c] = v
      /\ \A d \in Callers : d # c => call'[d] = call[d]
  BY AnswerType DEF TypeOK, Values
<1>2. failure' \in Kept \cup {"none"} /\ connection' \in BOOLEAN
  BY DEF ObservedLoss, TypeOK, Kept
<1>3. TypeOK'
  BY <1>1, <1>2 DEF TypeOK, Values
<1>4. StartsOnce' /\ ConnectionKept'
  BY <1>2 DEF StartsOnce, ConnectionKept, ObservedLoss
<1>5. Told'
  <2> SUFFICES ASSUME NEW d \in Callers PROVE Sound(call[d])'
    BY DEF Told, Sound, Reached
  <2>1. CASE d = c
    BY <1>1, <2>1 DEF Sound, Through
  <2>2. CASE d # c
    <3>1. call'[d] = call[d] /\ Sound(call[d])
      BY <1>1, <2>2 DEF Told, Sound, Reached
    <3>2. CASE UNCHANGED <<failure, connection>>
      BY <3>1, <3>2 DEF Sound, Through
    <3>3. CASE connection /\ ~connection' /\ failure' = "worker_lost"
      <4>1. failure = "none"
        BY <3>3 DEF ConnectionKept
      <4>2. call[d] \notin StartFailures
        BY <3>1, <4>1 DEF Sound, StartFailures
      <4> QED
        BY <3>1, <3>3, <4>2 DEF Sound, Through
    <3> QED
      BY <3>2, <3>3 DEF ObservedLoss
  <2> QED
    BY <2>1, <2>2
<1> QED
  BY <1>3, <1>4, <1>5

\* A call keeps the invariant.
LEMMA CallStep ==
  ASSUME SupervisorInv, NEW c \in Callers, Call(c)
  PROVE  SupervisorInv'
<1> USE DEF SupervisorInv
<1>0. /\ call \in [Callers -> Values] /\ failure \in Kept \cup {"none"}
      /\ UNCHANGED <<closed, lateSpawn, bridge, transport, closing>>
  BY DEF TypeOK, Values, Call
<1>1. ASSUME NEW v \in Values, Answer(c, v), UNCHANGED <<failure, connection, starting, starts>>, Sound(v)
      PROVE  SupervisorInv'
  <2>1. Sound(v)'
    BY <1>0, <1>1 DEF Sound, Through
  <2> QED
    BY <1>0, <1>1, <2>1, AnswerStep DEF ObservedLoss
<1>2. CASE closed /\ Answer(c, "bridge_closed") /\ UNCHANGED <<failure, connection, starting, starts>>
  BY <1>1, <1>2, Names DEF Sound, StartFailures
<1>3. CASE /\ ~closed /\ failure # "none" /\ Answer(c, failure)
           /\ UNCHANGED <<failure, connection, starting, starts>>
  <2>1. failure \in Values /\ ~connection /\ starts = 1 /\ starting = "none"
    BY <1>0, <1>3, Names DEF StartsOnce, ConnectionKept
  <2>2. Sound(failure)
    BY <1>0, <2>1 DEF Sound, Through, Kept, StartFailures
  <2> QED
    BY <1>1, <1>3, <2>1, <2>2
<1>4. CASE /\ ~closed /\ failure = "none" /\ connection /\ Answer(c, "worker_lost")
           /\ failure' = "worker_lost" /\ connection' = FALSE /\ UNCHANGED <<starting, starts>>
  <2>1. Sound("worker_lost")'
    BY <1>4 DEF Sound, Through, StartsOnce, StartFailures
  <2> QED
    BY <1>0, <1>4, <2>1, Names, AnswerStep DEF ObservedLoss
<1>5. CASE connection /\ Answer(c, "calling") /\ UNCHANGED <<failure, connection, starting, starts>>
  BY <1>1, <1>5, Names DEF Sound, StartsOnce, StartFailures
<1>6. CASE Answer(c, "acquiring") /\ UNCHANGED <<failure, connection, starting, starts>>
  BY <1>1, <1>6, Names DEF Sound, StartFailures
<1>7. CASE /\ ~closed /\ failure = "none" /\ ~connection /\ starting = "none"
           /\ starts < MaxStarts /\ Answer(c, "acquiring")
           /\ starting' = "spawning" /\ starts' = starts + 1
           /\ UNCHANGED <<failure, connection>>
  <2>1. starts = 0 /\ starts' = 1
    BY <1>7 DEF StartsOnce, TypeOK
  <2>2. /\ call' \in [Callers -> Values] /\ call'[c] = "acquiring"
        /\ \A d \in Callers : d # c => call'[d] = call[d]
    BY <1>0, <1>7, Names, AnswerType
  <2>3. TypeOK'
    BY <1>0, <1>7, <2>1, <2>2, SupervisorAssumption DEF TypeOK, Values
  <2>4. StartsOnce' /\ ConnectionKept'
    BY <1>0, <1>7, <2>1 DEF StartsOnce, ConnectionKept
  <2>5. \A d \in Callers : ~Reached(d) /\ call[d] \notin StartFailures
    BY <1>7, <2>1 DEF Told, StartFailures
  <2>6. Told'
    BY <1>0, <2>2, <2>5 DEF Told, Reached, StartFailures
  <2> QED
    BY <2>3, <2>4, <2>6
<1> QED
  BY <1>2, <1>3, <1>4, <1>5, <1>6, <1>7 DEF Call

\* #observe leaves the facade with its connection's loss, or with what it had.
LEMMA Observes ==
  ASSUME SupervisorInv, Observe
  PROVE  ObservedLoss /\ (bridge \in Broken => ~connection')
BY DEF SupervisorInv, ConnectionKept, TypeOK, Observe, Sticky, ObservedLoss

\* An operation that is submitted, or returns, keeps it.
LEMMA BridgeAnswersStep ==
  ASSUME SupervisorInv, NEW c \in Callers, Submits(c) \/ CallReturns(c)
  PROVE  SupervisorInv'
<1> USE DEF SupervisorInv
<1>1. /\ UNCHANGED <<closed, starting, starts, lateSpawn, bridge, transport, closing>>
      /\ Observe /\ Reached(c)
  BY DEF Submits, CallReturns, Reached
<1>2. ObservedLoss /\ (bridge \in Broken => ~connection')
  BY <1>1, Observes
<1>3. starts' = 1 /\ starting' = "none" /\ (connection \/ Through)'
  BY <1>1, <1>2 DEF Told, ObservedLoss, Through
<1>4. PICK v \in {"pending", "ok", "bridge_closed", "worker_lost", "adapter_failure"} :
        /\ Answer(c, v)
        /\ v \in {"worker_lost", "adapter_failure"} => bridge \in Broken
        /\ v = "bridge_closed" => bridge \in {"closing", "closed"}
  BY DEF Submits, CallReturns, Broken
<1>5. v \notin StartFailures /\ v \in Values
  BY <1>4, Names DEF StartFailures
<1>6. Sound(v)'
  BY <1>1, <1>2, <1>3, <1>4, <1>5 DEF Sound, ConnectionKept
<1> QED
  BY <1>1, <1>2, <1>4, <1>5, <1>6, AnswerStep

\* A start that ends with a failure answers all that waited for it.
LEMMA StartEndsStep ==
  ASSUME SupervisorInv, NEW code \in StartFailures,
         starting # "none", StartEnds(code),
         UNCHANGED <<closed, connection, starts, closing>>
  PROVE  /\ StartsOnce' /\ Told' /\ ~connection'
         /\ starting' = "none" /\ failure' \in Kept \cup {"none"}
         /\ call' \in [Callers -> Results \cup {"idle", "acquiring", "calling", "pending"}]
<1> USE DEF SupervisorInv
<1>1. failure = "none" /\ starts = 1 /\ ~connection /\ failure' = code /\ starting' = "none"
  BY DEF StartsOnce, StartEnds, Sticky
<1>2. \A c \in Callers : call'[c] = IF call[c] = "acquiring" THEN code ELSE call[c]
  BY <1>1 DEF StartEnds, Acquired
<1>3. \A c \in Callers : call[c] \notin StartFailures /\ ~Reached(c)
  BY <1>1 DEF Told, Through, StartFailures
<1>4. Told'
  BY <1>1, <1>2, <1>3 DEF Told, Reached, StartFailures
<1>5. call' \in [Callers -> Results \cup {"idle", "acquiring", "calling", "pending"}]
  BY <1>1, <1>2 DEF StartEnds, Acquired, TypeOK, Results, Kept
<1> QED
  BY <1>1, <1>4, <1>5 DEF StartsOnce, StartFailures, Kept

\* Every step of a start keeps it.
LEMMA StartStep ==
  ASSUME SupervisorInv,
         \/ Spawned \/ SpawnFails \/ SpawnDeadline \/ Ready
         \/ HandshakeFails \/ HandshakeDeadline \/ StartTerminated
  PROVE  SupervisorInv'
<1> USE DEF SupervisorInv
<1>1. CASE Spawned
  <2>1. TypeOK'
    BY <1>1 DEF Spawned, TypeOK
  <2>2. /\ UNCHANGED <<closed, failure, connection, starts, call, closing>>
        /\ \/ starting' = starting
           \/ starting = "spawning" /\ starting' = "handshaking"
        /\ bridge' \in {bridge, "handshaking"}
    BY <1>1 DEF Spawned
  <2>3. StartsOnce' /\ Told' /\ ConnectionKept'
    BY <2>2 DEF StartsOnce, Told, Reached, Through, ConnectionKept
  <2> QED
    BY <2>1, <2>3
<1>2. CASE SpawnFails
  <2>1. CASE starting = "spawning" /\ \E code \in StartFailures : StartEnds(code)
    BY <1>2, <2>1, StartEndsStep DEF SpawnFails, TypeOK, ConnectionKept
  <2>2. CASE UNCHANGED <<closed, failure, connection, starting, starts, bridge, transport, call, closing>>
    <3>1. lateSpawn' \in BOOLEAN
      BY <1>2 DEF SpawnFails, TypeOK
    <3>2. TypeOK'
      BY <2>2, <3>1 DEF TypeOK
    <3>3. StartsOnce' /\ Told' /\ ConnectionKept'
      BY <2>2 DEF StartsOnce, Told, Reached, Through, ConnectionKept
    <3> QED
      BY <3>2, <3>3
  <2> QED
    BY <1>2, <2>1, <2>2 DEF SpawnFails, StartFailures
<1>3. CASE SpawnDeadline
  BY <1>3, StartEndsStep DEF SpawnDeadline, TypeOK, ConnectionKept, StartFailures
<1>4. CASE HandshakeFails
  BY <1>4, StartEndsStep DEF HandshakeFails, TypeOK, ConnectionKept, StartFailures, CloseCalled, Broken
<1>5. CASE HandshakeDeadline
  BY <1>5 DEF HandshakeDeadline, CloseCalled, Broken, TypeOK, StartsOnce, Told, Reached, Through, ConnectionKept
<1>6. CASE StartTerminated
  <2>1. CASE starting = "terminating" /\ StartEnds("worker_start_timeout")
    BY <1>6, <2>1, StartEndsStep DEF StartTerminated, TypeOK, ConnectionKept, StartFailures
  <2>2. CASE starting = "discarding" /\ starting' = "none" /\ UNCHANGED failure
    <3>1. call' = Acquired("bridge_closed") /\ UNCHANGED <<closed, connection, starts, lateSpawn, bridge, transport, closing>>
      BY <1>6, <2>2 DEF StartTerminated, StartEnds
    <3>2. TypeOK'
      BY <2>2, <3>1 DEF Acquired, TypeOK, Results
    <3>3. StartsOnce' /\ Told' /\ ConnectionKept'
      BY <2>2, <3>1 DEF Acquired, TypeOK, StartsOnce, Told, Reached, Through, ConnectionKept, StartFailures
    <3> QED
      BY <3>2, <3>3
  <2> QED
    BY <1>6, <2>1, <2>2 DEF StartTerminated
<1>7. CASE Ready
  <2>1. starting = "handshaking" /\ starts = 1 /\ failure = "none" /\ ~connection
    BY <1>7 DEF Ready, StartsOnce
  <2>2. CASE closed
    BY <1>7, <2>1, <2>2 DEF Ready, CloseCalled, Broken, TypeOK, StartsOnce, Told, Reached, Through, ConnectionKept
  <2>3. CASE ~closed
    <3>1. /\ starting' = "none" /\ bridge' = "ready" /\ connection' = TRUE
          /\ UNCHANGED <<closed, failure, starts, lateSpawn, transport, closing>>
          /\ call' = Acquired("calling")
      BY <1>7, <2>3 DEF Ready
    <3>2. TypeOK'
      BY <3>1 DEF Acquired, TypeOK
    <3>3. StartsOnce' /\ Told' /\ ConnectionKept'
      BY <2>1, <3>1 DEF Acquired, TypeOK, StartsOnce, Told, Reached, Through, ConnectionKept, StartFailures
    <3> QED
      BY <3>2, <3>3
  <2> QED
    BY <2>2, <2>3
<1> QED
  BY <1>1, <1>2, <1>3, <1>4, <1>5, <1>6, <1>7

\* A connection that is lost keeps it.
LEMMA ConnectionStep ==
  ASSUME SupervisorInv, Lost \/ TransportCloses \/ BridgeCloses
  PROVE  SupervisorInv'
BY DEF Lost, TransportCloses, BridgeCloses, CloseCalled, Broken, SupervisorInv, TypeOK, StartsOnce, Told,
       Reached, Through, ConnectionKept

\* close() keeps it.
LEMMA CloseStep ==
  ASSUME SupervisorInv,
         Close \/ CloseAfterStart \/ CloseCompletes \/ CloseDeadline \/ CloseTerminated
  PROVE  SupervisorInv'
<1> USE DEF SupervisorInv
<1>1. CASE Close
  BY ZenonT(40), <1>1 DEF Close, TakeConnection, TypeOK, StartsOnce, Told, Reached, Through, ConnectionKept, CloseResults
<1>2. CASE CloseAfterStart
  BY <1>2 DEF CloseAfterStart, TakeConnection, TypeOK, StartsOnce, Told, Reached, Through, ConnectionKept, CloseResults
<1>3. CASE CloseCompletes \/ CloseDeadline \/ CloseTerminated
  BY <1>3 DEF CloseCompletes, CloseDeadline, CloseTerminated, CloseCalled, Broken, TypeOK, StartsOnce, Told,
              Reached, Through, ConnectionKept, CloseResults
<1> QED
  BY <1>1, <1>2, <1>3

\* Every step keeps the invariant.
LEMMA SupervisorInvNext == SupervisorInv /\ [Next]_vars => SupervisorInv'
<1> SUFFICES ASSUME SupervisorInv, [Next]_vars PROVE SupervisorInv'
  OBVIOUS
<1>1. CASE UNCHANGED vars
  BY <1>1 DEF vars, SupervisorInv, TypeOK, StartsOnce, Told, Reached, Through, ConnectionKept
<1> QED
  BY <1>1, CallStep, BridgeAnswersStep, StartStep, ConnectionStep, CloseStep DEF Next

\* The invariant holds in every reachable state.
LEMMA SupervisorInvariant == Spec => []SupervisorInv
BY SupervisorInvInit, SupervisorInvNext, PTL DEF Spec

----------------------------------------------------------------------------
\* The supervisor's variables hold values of their type.
THEOREM TypeCorrect == Spec => []TypeOK
BY SupervisorInvariant, PTL DEF SupervisorInv

\* A facade starts one worker in its life; what its operations are told of a failed
\* start, or of the end of the connection, fits what it keeps for the later ones.
THEOREM SingleWorker == Spec => []OneWorker
<1>1. ASSUME SupervisorInv PROVE OneWorker
  <2>1. starts <= 1
    BY <1>1 DEF SupervisorInv, StartsOnce
  <2>2. ASSUME NEW c \in Callers, Reached(c) PROVE failure \in {"none", "worker_lost"}
    BY <1>1, <2>2 DEF SupervisorInv, Told, ConnectionKept, Through
  <2> QED
    BY <1>1, <2>1, <2>2 DEF SupervisorInv, Told, Through, Reached, OneWorker
<1> QED
  BY <1>1, SupervisorInvariant, PTL
=============================================================================

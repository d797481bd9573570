-------------------------- MODULE HandshakeProofs --------------------------
(***************************************************************************)
(* Proofs about Handshake, for any configurations of the host and the      *)
(* worker and any valid ceiling: composing limits by minimum keeps them    *)
(* valid, and a session that is ready is one both peers agreed to.         *)
(***************************************************************************)
EXTENDS Handshake, TLAPS

----------------------------------------------------------------------------
(* Limit selection.                                                        *)

\* What selectLimits picks is one of the three values, and bounds hold for all.
LEMMA SelectedIsMinimum ==
  ASSUME NEW h \in Limits, NEW w \in Limits, NEW key \in LimitKeys
  PROVE  /\ SelectLimits(h, w)[key] \in {h[key], w[key], Ceiling[key]}
         /\ SelectLimits(h, w)[key] <= h[key]
         /\ SelectLimits(h, w)[key] <= w[key]
         /\ SelectLimits(h, w)[key] <= Ceiling[key]
         /\ SelectLimits(h, w)[key] \in Nat
<1>1. h[key] \in Nat /\ w[key] \in Nat /\ Ceiling[key] \in Nat
  BY HandshakeAssumption DEF Limits
<1> QED
  BY <1>1 DEF SelectLimits, Smaller

\* Selected limits are limits.
LEMMA SelectLimitsType ==
  ASSUME NEW h \in Limits, NEW w \in Limits
  PROVE  SelectLimits(h, w) \in Limits
<1>1. \A key \in LimitKeys : SelectLimits(h, w)[key] \in Nat
  BY SelectedIsMinimum
<1>2. SelectLimits(h, w) = [key \in LimitKeys |-> SelectLimits(h, w)[key]]
  BY DEF SelectLimits
<1> QED
  BY <1>1, <1>2 DEF Limits

\* Valid limits compose: the pairwise constraints of the limits survive taking
\* each of them as a minimum on its own (selectLimits, validLimits).
THEOREM SelectedLimitsValid ==
  ASSUME NEW h \in Limits, NEW w \in Limits, ValidLimits(h), ValidLimits(w)
  PROVE  ValidLimits(SelectLimits(h, w))
<1> DEFINE s == SelectLimits(h, w)
<1>1. \A key \in LimitKeys :
        h[key] \in Nat /\ w[key] \in Nat /\ Ceiling[key] \in Nat /\ s[key] \in Nat
  BY HandshakeAssumption, SelectedIsMinimum DEF Limits
<1>2. \A key \in LimitKeys :
        /\ s[key] \in {h[key], w[key], Ceiling[key]}
        /\ s[key] <= h[key] /\ s[key] <= w[key] /\ s[key] <= Ceiling[key]
  BY SelectedIsMinimum
<1>3. ValidLimits(Ceiling)
  BY HandshakeAssumption
<1> HIDE DEF s
<1>4. \A key \in LimitKeys : s[key] >= 1
  BY <1>1, <1>2, <1>3 DEF ValidLimits
<1>5. s["max_payload_bytes"] < s["max_frame_bytes"]
  BY <1>1, <1>2, <1>3 DEF ValidLimits, LimitKeys
<1>6. s["max_pending_replies"] > s["max_in_flight"]
  BY <1>1, <1>2, <1>3 DEF ValidLimits, LimitKeys
<1>7. s["max_queued_bytes"] >= s["max_frame_bytes"] * 2
  BY <1>1, <1>2, <1>3 DEF ValidLimits, LimitKeys
<1> QED
  BY <1>4, <1>5, <1>6, <1>7 DEF ValidLimits, s

\* A writer sized for valid limits is accepted by configureQueue and holds a
\* frame of the largest size in its ordinary class beside a full reserve.
LEMMA ValidLimitsQueue ==
  ASSUME NEW limits \in Limits, ValidLimits(limits)
  PROVE  /\ QueueOf(limits) \in Nat \X Nat
         /\ ConfigurableQueue(QueueOf(limits))
         /\ QueueOf(limits)[1] >= limits["max_frame_bytes"] + QueueOf(limits)[2]
<1>1. /\ limits["max_frame_bytes"] \in Nat /\ limits["max_queued_bytes"] \in Nat
      /\ limits["max_frame_bytes"] >= 1
      /\ limits["max_queued_bytes"] >= limits["max_frame_bytes"] * 2
  BY DEF Limits, LimitKeys, ValidLimits
<1>2. ReservedQueueBytes(limits) = limits["max_frame_bytes"]
  BY <1>1 DEF ReservedQueueBytes, Smaller
<1> QED
  BY <1>1, <1>2 DEF QueueOf, ConfigurableQueue

\* The queue limits a peer derives are limits of a queue.
LEMMA QueueType ==
  ASSUME NEW limits \in Limits
  PROVE  QueueOf(limits) \in Nat \X Nat
<1>1. limits["max_frame_bytes"] \in Nat /\ limits["max_queued_bytes"] \in Nat
  BY DEF Limits, LimitKeys
<1>2. ReservedQueueBytes(limits) \in Nat
  BY <1>1 DEF ReservedQueueBytes, Smaller
<1> QED
  BY <1>1, <1>2 DEF QueueOf

----------------------------------------------------------------------------
(* The session.  What is in flight, and what the worker already holds when *)
(* its welcome is: the three facts the properties need are not inductive   *)
(* without them.                                                           *)

Agreed ==
  /\ workerState = "ready" =>
       /\ Incompatibilities(host, worker) = {}
       /\ workerLimits = SelectLimits(host.limits, worker.limits)
       /\ workerQueue = QueueOf(workerLimits)
  /\ toWorker # None => workerState = "new"
  /\ workerState = "new" => toHost = None /\ hostState \in {"new", "handshaking"}
  /\ toHost # None => hostState = "handshaking"
  /\ toHost # None /\ toHost.kind = "session.welcome" /\ workerState # "foreign" =>
       workerState = "ready" /\ toHost.limits = workerLimits
  /\ hostState = "new" => workerState = "new" /\ toWorker = None
  /\ hostState = "ready" =>
       hostQueue = QueueOf(hostLimits) /\ toHost = None

HandshakeInv ==
  /\ TypeOK
  /\ Agreed
  /\ ReadyPeersAgree
  /\ workerState # "failed"

\* Offers with nothing incompatible are valid, of this release, and of one build.
LEMMA CompatibleLimits ==
  ASSUME NEW h, NEW w, Incompatibilities(h, w) = {}
  PROVE  /\ ValidLimits(h.limits) /\ ValidLimits(w.limits)
         /\ h.version = Release /\ w.version = Release
         /\ h.override \/ h.digest = w.digest
<1>1. /\ "operational_limit" \notin Incompatibilities(h, w)
      /\ "version" \notin Incompatibilities(h, w)
      /\ "worker_build_digest" \notin Incompatibilities(h, w)
  OBVIOUS
<1>2. ValidLimits(h.limits) /\ ValidLimits(w.limits)
  BY <1>1 DEF Incompatibilities
<1>3. h.version = Release /\ w.version = Release
  BY <1>1 DEF Incompatibilities
<1>4. h.override \/ h.digest = w.digest
  BY <1>1 DEF Incompatibilities
<1> QED
  BY <1>2, <1>3, <1>4

\* The handshake starts with nothing negotiated.
LEMMA InvInit == Init => HandshakeInv
BY QueueType, HandshakeAssumption
DEF Init, HandshakeInv, TypeOK, Agreed, ReadyPeersAgree

\* Every step keeps the invariant.
LEMMA InvNext == HandshakeInv /\ [Next]_vars => HandshakeInv'
<1> SUFFICES ASSUME HandshakeInv, [Next]_vars PROVE HandshakeInv'
  OBVIOUS
<1> USE DEF HandshakeInv
<1>h. /\ host \in Hosts /\ worker \in Workers
      /\ host.limits \in Limits /\ worker.limits \in Limits
  BY HandshakeAssumption DEF TypeOK
<1>1. CASE SendHello
  BY <1>1 DEF SendHello, TypeOK, Agreed, ReadyPeersAgree
<1>2. CASE ReplyIncompatible
  <2>1. toHost' \in Messages
    BY <1>2 DEF ReplyIncompatible, Messages, Incompatibilities
  <2>2. TypeOK'
    BY <1>2, <2>1 DEF ReplyIncompatible, TypeOK, Messages
  <2>3. Agreed' /\ ReadyPeersAgree' /\ workerState' # "failed"
    BY <1>2 DEF ReplyIncompatible, TypeOK, Agreed, ReadyPeersAgree
  <2> QED
    BY <2>2, <2>3
<1>3. CASE ReplyWelcome
  <2> DEFINE selected == SelectLimits(host.limits, worker.limits)
  <2>1. toWorker = host /\ Incompatibilities(host, worker) = {}
    BY <1>3 DEF ReplyWelcome, TypeOK
  <2>2. ValidLimits(selected) /\ selected \in Limits
    BY <2>1, <1>h, CompatibleLimits, SelectedLimitsValid, SelectLimitsType
  <2>3. ConfigurableQueue(QueueOf(selected)) /\ QueueOf(selected) \in Nat \X Nat
    BY <2>2, ValidLimitsQueue
  <2>4. /\ workerLimits' = selected /\ workerQueue' = QueueOf(selected)
        /\ workerState' = "ready"
        /\ toHost' = [kind |-> "session.welcome", version |-> Release,
                      digest |-> worker.digest, limits |-> selected]
        /\ toWorker' = None
        /\ UNCHANGED <<host, worker, hostState, hostLimits, hostQueue>>
    BY <1>3, <2>1, <2>3 DEF ReplyWelcome
  <2>5. toHost' \in Messages
    BY <2>2, <2>4, <1>h DEF Messages
  <2>6. TypeOK'
    BY <2>2, <2>3, <2>4, <2>5 DEF TypeOK, Messages
  <2>7. Agreed' /\ ReadyPeersAgree'
    BY <1>3, <2>1, <2>4 DEF ReplyWelcome, TypeOK, Agreed, ReadyPeersAgree
  <2> QED
    BY <2>4, <2>6, <2>7
<1>4. CASE ForeignReply
  <2>1. PICK welcome \in ForeignWelcomes :
          toHost' = [kind |-> "session.welcome", version |-> welcome.version,
                     digest |-> welcome.digest, limits |-> welcome.limits]
    BY <1>4 DEF ForeignReply
  <2>2. toHost' \in Messages
    BY <2>1, HandshakeAssumption DEF Messages
  <2>3. TypeOK'
    BY <1>4, <2>2 DEF ForeignReply, TypeOK, Messages
  <2>4. Agreed' /\ ReadyPeersAgree' /\ workerState' # "failed"
    BY <1>4 DEF ForeignReply, TypeOK, Agreed, ReadyPeersAgree
  <2> QED
    BY <2>3, <2>4
<1>5. CASE AcceptIncompatible
  BY <1>5 DEF AcceptIncompatible, TypeOK, Messages, Agreed, ReadyPeersAgree
<1>6. CASE AcceptWelcome
  <2>1. /\ hostState = "handshaking" /\ toHost # None /\ toHost.kind = "session.welcome"
        /\ toHost' = None /\ hostLimits' = toHost.limits
        /\ UNCHANGED <<host, worker, workerState, toWorker, workerLimits, workerQueue>>
    BY <1>6 DEF AcceptWelcome, WelcomeRefused
  <2>2. toHost.limits \in Limits
    BY <2>1 DEF TypeOK, Messages
  <2>3. QueueOf(toHost.limits) \in Nat \X Nat
    BY <2>2, QueueType
  <2>4. \/ hostState' = "ready" /\ hostQueue' = QueueOf(toHost.limits)
        \/ hostState' = "failed" /\ hostQueue' = hostQueue
    BY <1>6 DEF AcceptWelcome, WelcomeRefused
  <2>5. TypeOK'
    BY <2>1, <2>2, <2>3, <2>4 DEF TypeOK, Messages
  <2>6. Agreed'
    BY <2>1, <2>4 DEF Agreed, TypeOK
  <2>7. ReadyPeersAgree'
    BY <2>1, <2>4 DEF Agreed, ReadyPeersAgree
  <2> QED
    BY <2>1, <2>5, <2>6, <2>7
<1>7. CASE UNCHANGED vars
  BY <1>7 DEF vars, TypeOK, Messages, Agreed, ReadyPeersAgree
<1> QED
  BY <1>1, <1>2, <1>3, <1>4, <1>5, <1>6, <1>7 DEF Next

\* The invariant holds in every reachable state.
LEMMA HandshakeInvariant == Spec => []HandshakeInv
BY InvInit, InvNext, PTL DEF Spec

----------------------------------------------------------------------------
\* In every reachable state the handshake's variables hold values of their type.
THEOREM TypeCorrect == Spec => []TypeOK
BY HandshakeInvariant, PTL DEF HandshakeInv

\* Host and worker of a ready session work under the same limits and queues.
THEOREM PeersAgree == Spec => []ReadyPeersAgree
BY HandshakeInvariant, PTL DEF HandshakeInv

\* A ready session lies within what the host asked, the worker supports and the
\* build allows, whatever limits and builds the two were configured with.
THEOREM WithinHello == Spec => []ReadyWithinHello
<1>1. HandshakeInv => ReadyWithinHello
  <2> SUFFICES ASSUME HandshakeInv, hostState = "ready", workerState # "foreign"
               PROVE  /\ ValidLimits(hostLimits)
                      /\ \A key \in LimitKeys : /\ hostLimits[key] <= host.limits[key]
                                                /\ hostLimits[key] <= worker.limits[key]
                                                /\ hostLimits[key] <= Ceiling[key]
                      /\ host.version = worker.version
                      /\ host.override \/ worker.digest = host.digest
    BY DEF ReadyWithinHello
  <2>1. /\ hostLimits = SelectLimits(host.limits, worker.limits)
        /\ Incompatibilities(host, worker) = {}
    BY DEF HandshakeInv, Agreed, ReadyPeersAgree
  <2>2. host.limits \in Limits /\ worker.limits \in Limits
    BY HandshakeAssumption DEF HandshakeInv, TypeOK
  <2>3. ValidLimits(hostLimits)
    BY <2>1, <2>2, CompatibleLimits, SelectedLimitsValid
  <2>4. \A key \in LimitKeys : /\ hostLimits[key] <= host.limits[key]
                               /\ hostLimits[key] <= worker.limits[key]
                               /\ hostLimits[key] <= Ceiling[key]
    BY <2>1, <2>2, SelectedIsMinimum
  <2>5. host.version = worker.version /\ (host.override \/ worker.digest = host.digest)
    BY <2>1, CompatibleLimits
  <2> QED
    BY <2>3, <2>4, <2>5
<1> QED
  BY <1>1, HandshakeInvariant, PTL

\* Both queues of a ready session hold a frame of the largest negotiated size
\* beside a full reserve, and negotiation never fails the worker.
THEOREM QueuesHoldAFrame == Spec => []ReadyQueuesHoldAFrame
<1>1. HandshakeInv => ReadyQueuesHoldAFrame
  <2> SUFFICES ASSUME HandshakeInv PROVE ReadyQueuesHoldAFrame
    OBVIOUS
  <2>1. workerState = "ready" =>
          workerQueue[1] >= workerLimits["max_frame_bytes"] + workerQueue[2]
    <3> SUFFICES ASSUME workerState = "ready"
                 PROVE  workerQueue[1] >= workerLimits["max_frame_bytes"] + workerQueue[2]
      OBVIOUS
    <3>1. /\ workerLimits = SelectLimits(host.limits, worker.limits)
          /\ workerQueue = QueueOf(workerLimits)
          /\ Incompatibilities(host, worker) = {}
      BY DEF HandshakeInv, Agreed
    <3>2. host.limits \in Limits /\ worker.limits \in Limits
      BY HandshakeAssumption DEF HandshakeInv, TypeOK
    <3>3. workerLimits \in Limits /\ ValidLimits(workerLimits)
      BY <3>1, <3>2, CompatibleLimits, SelectedLimitsValid, SelectLimitsType
    <3> QED
      BY <3>1, <3>3, ValidLimitsQueue
  <2>2. hostState = "ready" /\ workerState # "foreign" =>
          workerState = "ready" /\ hostLimits = workerLimits /\ hostQueue = workerQueue
    BY DEF HandshakeInv, ReadyPeersAgree
  <2> QED
    BY <2>1, <2>2 DEF HandshakeInv, ReadyQueuesHoldAFrame
<1> QED
  BY <1>1, HandshakeInvariant, PTL

\* The negotiated limits are within every party's, and the queues built from
\* them hold a frame, for all configurations of the two peers.
THEOREM LimitsUsable == Spec => []ReadyLimits
<1>1. ReadyWithinHello /\ ReadyQueuesHoldAFrame => ReadyLimits
  BY DEF ReadyLimits
<1> QED
  BY <1>1, WithinHello, QueuesHoldAFrame, PTL
=============================================================================

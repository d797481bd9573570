---------------------------- MODULE FrameWriter ----------------------------
(***************************************************************************)
(* WorkerProtocolFrameWriter (packages/contracts/src/worker-framing.ts):   *)
(* the one byte sink of a protocol peer.  Frames are admitted against a    *)
(* bound on queued bytes, part of which only reserved frames (close,       *)
(* cancel, action outcomes, every worker reply) may use; a frame that does *)
(* not fit waits.  One frame at a time is handed to the sink, and a        *)
(* completed frame makes room, admits waiting frames and starts the next.  *)
(*                                                                         *)
(* A member of Writes is a caller with at most one write outstanding: it   *)
(* may call write() again once its previous write is settled, so a         *)
(* behaviour is an unbounded stream of writes.  Bytes[w] is the length of  *)
(* its encoded envelope and w \in ReservedWrites its reserved option.      *)
(***************************************************************************)
EXTENDS Integers, SequencesExt, Sums

CONSTANTS
  Writes,             \* callers of write()
  ReservedWrites,     \* those that pass {reserved: true}
  Bytes,              \* Bytes[w]: encoded envelope bytes of w's frame
  MaxFrameBytes,      \* options.maxFrameBytes
  InitialQueue,       \* <<maxQueuedBytes, reservedQueuedBytes>> of the constructor
  NegotiatedQueues,   \* the pairs configureQueue() may be called with
  NoWrite             \* no frame is at the sink

ASSUME WriterAssumption ==
  /\ ReservedWrites \subseteq Writes
  /\ Bytes \in [Writes -> Nat \ {0}]
  /\ MaxFrameBytes \in Nat \ {0}
  /\ InitialQueue \in Nat \X Nat
  /\ NegotiatedQueues \subseteq Nat \X Nat
  /\ NoWrite \notin Writes

VARIABLES
  queue,     \* the writer's private fields
  outcome    \* outcome[w]: what became of w's latest write()

vars == <<queue, outcome>>

----------------------------------------------------------------------------
(* The queue limits, and which frames they can never hold.                 *)

ValidQueue(max, res) == max >= 1 /\ res < max

Fits(q, w) ==
  Bytes[w] <= (IF w \in ReservedWrites THEN q.maxQueuedBytes
                                       ELSE q.maxQueuedBytes - q.reservedQueuedBytes)

Refused(q, w) ==
  \/ Bytes[w] > MaxFrameBytes
  \/ ~ValidQueue(q.maxQueuedBytes, q.reservedQueuedBytes)
  \/ ~Fits(q, w)

CanAdmit(q, w) ==
  LET maximum == IF w \in ReservedWrites THEN q.maxQueuedBytes
                 ELSE q.maxQueuedBytes - q.reservedQueuedBytes
  IN  q.queuedBytes + Bytes[w] <= maximum

\* Mutant: reserved frames always go first.
PumpReservedFirst(q) ==
  IF q.writing # NoWrite \/ (q.reserved = <<>> /\ q.ordinary = <<>>) THEN q
  ELSE IF q.reserved # <<>>
  THEN [q EXCEPT !.writing = Head(q.reserved), !.reserved = Tail(@)]
  ELSE [q EXCEPT !.writing = Head(q.ordinary), !.ordinary = Tail(@)]

\* Hands the next frame to an idle sink: reserved frames first, but never two
\* reserved frames in a row while an ordinary one is queued.
Pump(q) ==
  LET useReserved == q.reserved # <<>> /\ (q.ordinary = <<>> \/ ~q.lastReserved)
  IN  IF q.writing # NoWrite \/ (q.reserved = <<>> /\ q.ordinary = <<>>) THEN q
      ELSE IF useReserved
      THEN [q EXCEPT !.writing = Head(q.reserved), !.reserved = Tail(@), !.lastReserved = TRUE]
      ELSE [q EXCEPT !.writing = Head(q.ordinary), !.ordinary = Tail(@), !.lastReserved = FALSE]

Admit(q, w) ==
  LET counted == [q EXCEPT !.queuedBytes = @ + Bytes[w]]
  IN  Pump(IF w \in ReservedWrites THEN [counted EXCEPT !.reserved = Append(@, w)]
                                   ELSE [counted EXCEPT !.ordinary = Append(@, w)])

\* Mutant: the pass stops at the first frame that does not fit.
AdmitPassInOrder(q, class) ==
  FoldLeft(LAMBDA acc, w :
             IF acc.waiting = <<>> /\ w \in class /\ CanAdmit(acc, w)
             THEN Admit(acc, w)
             ELSE [acc EXCEPT !.waiting = Append(@, w)],
           [q EXCEPT !.waiting = <<>>], q.waiting)

\* A waiting frame that does not fit, or is not of the class, goes on waiting.
Offer(q, class, w) ==
  IF w \in class /\ CanAdmit(q, w) THEN Admit(q, w)
                                  ELSE [q EXCEPT !.waiting = Append(@, w)]

Emptied(q) == [q EXCEPT !.waiting = <<>>]

\* One pass over the waiting frames, in order, for one class: a frame that
\* does not fit is passed over and a later, smaller one may be admitted.
AdmitPass(q, class) ==
  LET after[i \in 0..Len(q.waiting)] ==
        IF i = 0 THEN Emptied(q)
                 ELSE Offer(after[i - 1], class, q.waiting[i])
  IN  after[Len(q.waiting)]

AdmitWaiting(q) == AdmitPass(AdmitPass(q, ReservedWrites), Writes \ ReservedWrites)

\* Mutant: a settled frame keeps its bytes.
CompleteUncounted(q) == Pump(AdmitWaiting([q EXCEPT !.writing = NoWrite]))

\* The frame at the sink is settled, whether the sink accepted or rejected it.
Complete(q) ==
  Pump(AdmitWaiting([q EXCEPT !.queuedBytes = @ - Bytes[q.writing], !.writing = NoWrite]))

----------------------------------------------------------------------------
Init ==
  /\ queue = [maxQueuedBytes |-> InitialQueue[1], reservedQueuedBytes |-> InitialQueue[2],
              ordinary |-> <<>>, reserved |-> <<>>, waiting |-> <<>>,
              queuedBytes |-> 0, writing |-> NoWrite, lastReserved |-> FALSE]
  /\ outcome = [w \in Writes |-> "none"]

\* write(envelope, options)
Write(w) ==
  /\ outcome[w] # "pending"
  /\ IF Refused(queue, w)
     THEN /\ outcome' = [outcome EXCEPT ![w] = "refused"]
          /\ UNCHANGED queue
     ELSE /\ outcome' = [outcome EXCEPT ![w] = "pending"]
          /\ queue' = IF CanAdmit(queue, w) THEN Admit(queue, w)
                      ELSE [queue EXCEPT !.waiting = Append(@, w)]

\* configureQueue(maxQueuedBytes, reservedQueuedBytes); a refused call changes nothing
ConfigureQueue(limits) ==
  /\ queue.waiting = <<>>
  /\ ValidQueue(limits[1], limits[2])
  /\ queue.queuedBytes <= limits[1]
  /\ queue' = [queue EXCEPT !.maxQueuedBytes = limits[1], !.reservedQueuedBytes = limits[2]]
  /\ UNCHANGED outcome

\* The sink's promise settles: written, or rejected with a write error.
SinkSettles(result) ==
  /\ queue.writing # NoWrite
  /\ queue' = Complete(queue)
  /\ outcome' = [outcome EXCEPT ![queue.writing] = result]

Next ==
  \/ \E w \in Writes : Write(w)
  \/ \E limits \in NegotiatedQueues : ConfigureQueue(limits)
  \/ SinkSettles("written")
  \/ SinkSettles("failed")

\* The sink settles every frame it is given (a drained pipe, or an error);
\* callers need never write again.
Fairness == WF_vars(SinkSettles("written") \/ SinkSettles("failed"))

Spec == Init /\ [][Next]_vars /\ Fairness

----------------------------------------------------------------------------
Admitted == ToSet(queue.ordinary) \cup ToSet(queue.reserved)
             \cup (IF queue.writing = NoWrite THEN {} ELSE {queue.writing})

TypeOK ==
  /\ queue.ordinary \in Seq(Writes \ ReservedWrites)
  /\ queue.reserved \in Seq(ReservedWrites)
  /\ queue.waiting \in Seq(Writes)
  /\ queue.writing \in Writes \cup {NoWrite}
  /\ queue.lastReserved \in BOOLEAN
  /\ queue.queuedBytes \in Nat
  /\ <<queue.maxQueuedBytes, queue.reservedQueuedBytes>> \in {InitialQueue} \cup NegotiatedQueues
  /\ outcome \in [Writes -> {"none", "pending", "refused", "written", "failed"}]

BytesOf(frames) == SumOf([i \in DOMAIN frames |-> Bytes[frames[i]]])
AtSink(q) == IF q.writing = NoWrite THEN <<>> ELSE <<q.writing>>
Frames(q) == q.ordinary \o q.reserved \o AtSink(q) \o q.waiting

\* #queuedBytes is exactly the bytes of the admitted frames, the one at the
\* sink included, and never exceeds the active bound: no completion is counted
\* twice or missed across narrowing, waiting and failed writes.  Every write that
\* is pending is in one place, once: no promise is forgotten or settled twice.
QueueAccounting ==
  /\ queue.queuedBytes
       = BytesOf(queue.ordinary) + BytesOf(queue.reserved) + BytesOf(AtSink(queue))
  /\ queue.queuedBytes <= queue.maxQueuedBytes
  /\ IsInjective(Frames(queue))
  /\ ToSet(Frames(queue)) = {w \in Writes : outcome[w] = "pending"}

\* A frame waits only while it does not fit.  admitWaiting() must look at the
\* reserved frames before the ordinary ones and at all of them, and a direct
\* write() must not leave room behind that a waiting frame could use.
NoIdleCapacity == \A w \in ToSet(queue.waiting) : ~CanAdmit(queue, w)

\* Every admitted frame is eventually settled, in spite of an unbounded stream
\* of later frames of the other class.
AdmittedSettles == \A w \in Writes : (w \in Admitted) ~> (outcome[w] # "pending")
============================================================================

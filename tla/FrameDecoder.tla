---------------------------- MODULE FrameDecoder ----------------------------
(***************************************************************************)
(* WorkerProtocolFrameDecoder (packages/contracts/src/worker-framing.ts)   *)
(* as the read loop of a peer drives it (ProcessRuntimeBridge.#read in     *)
(* packages/sdk/src/process-bridge.ts; RuntimeWorkerServer.#receive is the *)
(* same loop): chunks of any size go in, whole frames come out, and a      *)
(* deadline runs while a frame is incomplete.                              *)
(*                                                                         *)
(* A byte is not modelled, only where it falls: the stream is a sequence   *)
(* of declared lengths, each standing for a header of four bytes followed  *)
(* by that many body bytes, and the peer may stop anywhere inside it.      *)
(***************************************************************************)
EXTENDS Integers, SequencesExt, Sums

CONSTANTS
  Streams,       \* sequences of declared lengths a peer may send, naturals
  MaxFrameBytes, \* the active maximum
  MaxChunk,      \* bound: bytes of one chunk
  NoBody         \* no body is being collected, not a natural

HeaderBytes == 4

VARIABLES
  stream,    \* what the peer sends
  consumed,  \* bytes of it that were pushed
  decoder,   \* the decoder's private fields
  delivered, \* frames handed to the peer's message handler, by length
  deadline,  \* is the partial-frame timer armed
  connection \* "open", "ended" (clean EOF) or the failure code

vars == <<stream, consumed, decoder, delivered, deadline, connection>>

----------------------------------------------------------------------------
(* The stream: frame i starts after the bytes of the frames before it.     *)

FrameEnd(i) == PartialSums([j \in DOMAIN stream |-> HeaderBytes + stream[j]])[i]
ByteCount == FrameEnd(Len(stream))
\* The declared length of the frame whose bytes include byte number n
LengthAt(n) == stream[CHOOSE i \in 1..Len(stream) : FrameEnd(i - 1) < n /\ n <= FrameEnd(i)]

----------------------------------------------------------------------------
(* push(): one byte after the other, as the loop over the chunk does.      *)

Stop(d, code) == [d EXCEPT !.terminal = code, !.header = 0, !.body = NoBody, !.bodyBytes = 0]

\* Mutant: the header counter survives the frame.
TakeByteKeepsHeader(d, n) ==
  IF d.terminal # "none" THEN d
  ELSE IF d.body = NoBody
  THEN IF d.header + 1 < HeaderBytes THEN [d EXCEPT !.header = @ + 1]
       ELSE IF LengthAt(n) \notin 1..MaxFrameBytes THEN Stop(d, "frame_too_large")
       ELSE [d EXCEPT !.header = HeaderBytes, !.body = LengthAt(n), !.bodyBytes = 0]
  ELSE IF d.bodyBytes + 1 < d.body THEN [d EXCEPT !.bodyBytes = @ + 1]
       ELSE [d EXCEPT !.frames = Append(@, d.body), !.body = NoBody, !.bodyBytes = 0]

TakeByte(d, n) ==
  IF d.terminal # "none" THEN d
  ELSE IF d.body = NoBody
  THEN IF d.header + 1 < HeaderBytes THEN [d EXCEPT !.header = @ + 1]
       ELSE IF LengthAt(n) = 0 THEN Stop(d, "frame_length_zero")
       ELSE IF LengthAt(n) > MaxFrameBytes THEN Stop(d, "frame_too_large")
       ELSE [d EXCEPT !.header = HeaderBytes, !.body = LengthAt(n), !.bodyBytes = 0]
  ELSE IF d.bodyBytes + 1 < d.body THEN [d EXCEPT !.bodyBytes = @ + 1]
       ELSE [d EXCEPT !.frames = Append(@, d.body),
                      !.body = NoBody, !.bodyBytes = 0, !.header = 0]

PushBytes(count) ==
  LET after[k \in 0..count] == IF k = 0 THEN [decoder EXCEPT !.frames = <<>>]
                                        ELSE TakeByte(after[k - 1], consumed + k)
  IN  after[count]

\* Mutant: an incomplete header does not count.
HasPartialBody(d) == d.terminal = "none" /\ ~d.finished /\ d.body # NoBody

HasPartialFrame(d) == d.terminal = "none" /\ ~d.finished /\ (d.header # 0 \/ d.body # NoBody)

----------------------------------------------------------------------------
Init ==
  /\ stream \in Streams
  /\ consumed = 0
  /\ decoder = [header |-> 0, body |-> NoBody, bodyBytes |-> 0,
                terminal |-> "none", finished |-> FALSE, frames |-> <<>>]
  /\ delivered = <<>>
  /\ deadline = FALSE
  /\ connection = "open"

\* A chunk arrives: its frames are handled and the deadline restarts, or is
\* cleared, according to what is left over.
Chunk(count) ==
  /\ connection = "open"
  /\ consumed + count <= ByteCount
  /\ consumed' = consumed + count
  /\ decoder' = PushBytes(count)
  /\ IF decoder'.terminal = "none"
     THEN /\ delivered' = delivered \o decoder'.frames
          /\ deadline' = HasPartialFrame(decoder')
          /\ UNCHANGED connection
     ELSE /\ connection' = decoder'.terminal
          /\ deadline' = FALSE
          /\ UNCHANGED delivered
  /\ UNCHANGED stream

\* The peer's stream ends, at a frame boundary or inside a frame.
EndOfStream ==
  /\ connection = "open"
  /\ deadline' = FALSE
  /\ IF decoder.header # 0 \/ decoder.body # NoBody
     THEN /\ decoder' = Stop([decoder EXCEPT !.finished = TRUE], "truncated_frame")
          /\ connection' = "truncated_frame"
     ELSE /\ decoder' = [decoder EXCEPT !.finished = TRUE]
          /\ connection' = "ended"
  /\ UNCHANGED <<stream, consumed, delivered>>

\* The deadline timer fires.
ExpirePartialFrame ==
  /\ connection = "open"
  /\ deadline
  /\ deadline' = FALSE
  /\ IF decoder.header = 0 /\ decoder.body = NoBody
     THEN UNCHANGED <<decoder, connection>>
     ELSE /\ decoder' = Stop(decoder, "frame_timeout")
          /\ connection' = "frame_timeout"
  /\ UNCHANGED <<stream, consumed, delivered>>

Next ==
  \/ \E count \in 1..MaxChunk : Chunk(count)
  \/ EndOfStream
  \/ ExpirePartialFrame

Spec == Init /\ [][Next]_vars

----------------------------------------------------------------------------
\* Reference: the frames that lie wholly within the first n bytes
WholeFrames(n) == SubSeq(stream, 1, Max({k \in 0..Len(stream) : FrameEnd(k) <= n}))

\* However the stream is cut into chunks, the frames delivered are exactly the
\* whole frames received, in order; after a failure they are a prefix of them with
\* no length outside the limit, so that nothing behind a bad length is taken for a
\* frame, and a stream that ends inside a frame is a failure.
FramesMatchStream ==
  /\ IsPrefix(delivered, WholeFrames(consumed))
  /\ \A i \in DOMAIN delivered : delivered[i] \in 1..MaxFrameBytes
  /\ connection \in {"open", "ended"} => delivered = WholeFrames(consumed)
  /\ connection = "ended" => \E i \in 0..Len(stream) : consumed = FrameEnd(i)

\* A frame that is incomplete on an open connection always has a deadline
\* running, and the deadline never runs, so never fails, an idle connection.
DeadlineCoversPartialFrame ==
  connection = "open" =>
    (deadline <=> \A i \in 0..Len(stream) : consumed # FrameEnd(i))

=============================================================================

------------------------------ MODULE Framing ------------------------------
(***************************************************************************)
(* The two halves of packages/contracts/src/worker-framing.ts, the writer  *)
(* and the decoder.  They share no state: a behaviour is of one of them,   *)
(* while the other one rests.                                              *)
(***************************************************************************)
EXTENDS FrameWriter

CONSTANTS
  Streams,         \* sequences of declared lengths a peer may send
  MaxDecodedBytes, \* options.maxFrameBytes of the decoder
  MaxChunk,        \* bound: bytes of one chunk
  NoBody           \* no body is being collected

ASSUME DecoderAssumption ==
  /\ Streams \subseteq Seq(Nat)
  /\ MaxDecodedBytes \in Nat \ {0}
  /\ MaxChunk \in Nat
  /\ NoBody \notin Nat

VARIABLES side, stream, consumed, decoder, delivered, deadline, connection

Decoder == INSTANCE FrameDecoder WITH MaxFrameBytes <- MaxDecodedBytes

decoderVars == <<stream, consumed, decoder, delivered, deadline, connection>>

FramingInit ==
  /\ side \in {"writer", "decoder"}
  /\ Init /\ Decoder!Init
  /\ side = "writer" => stream = <<>>

FramingNext ==
  /\ \/ side = "writer" /\ Next /\ UNCHANGED decoderVars
     \/ side = "decoder" /\ Decoder!Next /\ UNCHANGED vars
  /\ UNCHANGED side

FramingSpec == FramingInit /\ [][FramingNext]_<<side, vars, decoderVars>> /\ Fairness

\* The properties of FrameDecoder, by name.
FramesMatchStream          == Decoder!FramesMatchStream
DeadlineCoversPartialFrame == Decoder!DeadlineCoversPartialFrame
=============================================================================

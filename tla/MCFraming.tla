------------------------------ MODULE MCFraming ------------------------------
(***************************************************************************)
(* Writer: two ordinary and three reserved callers over a queue of four    *)
(* bytes, one or two of them reserved; one frame of each class is as large *)
(* as its class allows, so that frames wait behind it and smaller ones     *)
(* pass it.                                                                *)
(* Decoder: up to three frames of one or two bytes, with a zero or an      *)
(* over-long length anywhere among them, cut into chunks of up to seven    *)
(* bytes: a chunk can hold a part of a header, or end one frame, hold a    *)
(* whole one and begin a third.                                            *)
(***************************************************************************)
EXTENDS Framing

MCWrites == {"small", "large", "cancel", "close", "reply"}
MCReservedWrites == {"cancel", "close", "reply"}
MCBytes == [w \in MCWrites |-> CASE w = "small" -> 1 [] w = "large" -> 3
                                 [] w = "reply" -> 4 [] OTHER -> 1]
MCInitialQueue == <<4, 1>>
MCNegotiatedQueues == {<<4, 1>>, <<4, 2>>, <<3, 1>>}
MCStreams == UNION {[1..n -> 0..3] : n \in 0..3}
============================================================================

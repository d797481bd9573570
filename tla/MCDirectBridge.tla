--------------------------- MODULE MCDirectBridge ---------------------------
(* Two executions of different identifiers, one cancel and a close. *)
EXTENDS DirectBridge, TLC

CONSTANTS e1, e2, c1

MCInvocationOf == e1 :> "i" @@ e2 :> "j"
MCCancelOf     == c1 :> "i"
=============================================================================

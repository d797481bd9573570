------------------------------- MODULE MCFacade -------------------------------
(* Two executions of one source under different identifiers. *)
EXTENDS Facade, TLC

CONSTANTS e1, e2, c1, q1, k1

MCInvocationOf == e1 :> "i" @@ e2 :> "j"
\* The bridge is hostile to the gateway of e1.
MCCalls        == {e1} \X {1, 2}
MCKeyOf        == e1 :> k1 @@ e2 :> k1
MCCancelOf     == c1 :> "i"
=============================================================================

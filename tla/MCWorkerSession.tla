-------------------------- MODULE MCWorkerSession --------------------------
(* Instances of WorkerSession: a few calls of each method on one connection. *)
EXTENDS WorkerSession

CONSTANTS e1, e2, e3, q1, x1, close, i1, i2, i3

\* e1, e2 and e3 are invocations of their own and x1 cancels e1.
MCDistinct == [c \in Executions \cup Cancels |->
                 IF c = e2 THEN i2 ELSE IF c = e3 THEN i3 ELSE i1]

\* e2 uses the invocation id of e1 again.
MCReused == [c \in Executions \cup Cancels |-> IF c = e3 THEN i3 ELSE i1]

MCNoFaults  == {}
MCAllFaults == AllFaults

\* A host that waits for the answers to its calls before it calls close().
PatientClose == result[Close] = "idle" /\ result'[Close] # "idle" => Pending = {}
SpecPatient  == Init /\ [][Next /\ PatientClose]_vars
=============================================================================

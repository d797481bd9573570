--------------------------- MODULE BridgeContract ---------------------------
(***************************************************************************)
(* What RuntimeBridge (packages/contracts/src/index.ts) promises a host,   *)
(* whatever carries it: a call is answered once; an action handler is run  *)
(* at most once per request, only for an execution that is not answered    *)
(* and after the execution's earlier actions have settled; an answered     *)
(* execution has no handler running; a closed bridge owes no answer and a  *)
(* lost one answers everything it owes at once.                            *)
(***************************************************************************)
EXTENDS Naturals, FiniteSets

CONSTANTS Executions, Inquiries, Cancels, Close, InvocationOf, MaxActions

Calls   == Executions \cup Inquiries \cup Cancels \cup {Close}
Actions == Executions \X (1..MaxActions)

VARIABLES status, call, effect

contractVars == <<status, call, effect>>

RequestId(a) == <<InvocationOf[a[1]], a[2]>>

Open         == status \in {"ready", "closing"}
RunningOf(c) == {a \in Actions : a[1] = c /\ effect[a] = "running"}
Unanswered   == {c \in Calls : call[c] = "pending"}

\* Answers of the runtime, of a bridge that refuses a call, and of a lost one.
Answers  == {"completed", "failed", "cancelled", "not_started", "done", "accepted", "not_active"}
Declines == {"duplicate", "capacity_exceeded", "invalid_request", "bridge_closed", "adapter_failure"}
Losses   == {"worker_lost", "adapter_failure"}

Init ==
  /\ status = "ready"
  /\ call = [c \in Calls |-> "idle"]
  /\ effect = [a \in Actions |-> "none"]

Begin(c) ==
  /\ status = "ready" /\ call[c] = "idle"
  /\ call' = [call EXCEPT ![c] = "pending"]
  /\ status' = IF c = Close THEN "closing" ELSE status
  /\ UNCHANGED effect

Decline(c) ==
  /\ call[c] = "idle"
  /\ \E v \in Declines : call' = [call EXCEPT ![c] = v]
  /\ UNCHANGED <<status, effect>>

\* A cancelled execution was cancelled by somebody who was told so, or by close.
CancelledBy(c) ==
  \/ call[Close] = "pending"
  \/ \E x \in Cancels : InvocationOf[x] = InvocationOf[c] /\ call[x] = "accepted"

Answer(c) ==
  /\ Open /\ c # Close
  /\ call[c] = "pending" /\ RunningOf(c) = {}
  /\ \E v \in Answers : /\ call' = [call EXCEPT ![c] = v]
                        /\ v = "cancelled" => c \in Executions /\ CancelledBy(c)
  /\ UNCHANGED <<status, effect>>

Perform(a) ==
  /\ Open
  /\ call[a[1]] = "pending" /\ effect[a] = "none"
  /\ \A n \in 1..(a[2] - 1) : effect[<<a[1], n>>] = "settled"
  /\ \A b \in Actions : effect[b] # "none" => RequestId(b) # RequestId(a)
  /\ effect' = [effect EXCEPT ![a] = "running"]
  /\ UNCHANGED <<status, call>>

Conclude(a) ==
  /\ effect[a] = "running"
  /\ effect' = [effect EXCEPT ![a] = "settled"]

FinishClose ==
  /\ status = "closing" /\ Unanswered = {Close}
  /\ \A a \in Actions : effect[a] # "running"
  /\ status' = "closed"
  /\ call' = [call EXCEPT ![Close] = "closed"]
  /\ UNCHANGED effect

\* A bad outcome of a handler may be what loses the worker.
Lose ==
  /\ Open
  /\ status' = "failed"
  /\ \E v \in Losses : call' = [c \in Calls |-> IF c \in Unanswered THEN v ELSE call[c]]
  /\ UNCHANGED effect \/ \E a \in Actions : Conclude(a)

Next ==
  \/ \E c \in Calls : Begin(c) \/ Decline(c) \/ Answer(c)
  \/ \E a \in Actions : Perform(a) \/ (Conclude(a) /\ UNCHANGED <<status, call>>)
  \/ FinishClose
  \/ Lose

Spec == Init /\ [][Next]_contractVars
=============================================================================

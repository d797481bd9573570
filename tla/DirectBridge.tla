---------------------------- MODULE DirectBridge ----------------------------
(***************************************************************************)
(* DirectRuntimeBridge and ActionDispatcher (packages/engine/src/bridge.ts)*)
(* at the grain of microtasks: executions that are prepared, interpreted   *)
(* and wait for one action at a time, cancellations that race the outcome  *)
(* of an action, and close.                                                *)
(*                                                                         *)
(* The microtask queue of the event loop is modelled as it is, first in    *)
(* first out: which of two promises settles another one first is decided   *)
(* by the number of reactions each has still to pass.  The host may act    *)
(* between any two microtasks.                                             *)
(*                                                                         *)
(* The interpreter (module Interpreter) is reduced to what it may do next: *)
(* see a cancellation, end, or request an action.  Values are left out; a  *)
(* charge or a conversion that the meter or a codec refuses is a choice.   *)
(***************************************************************************)
EXTENDS Naturals, Sequences, FiniteSets

CONSTANTS
  Executions,     \* calls of execute()
  InvocationOf,   \* the invocation identifier each carries
  Cancels,        \* calls of cancel()
  CancelOf,       \* the identifier each names
  MaxActions      \* bound: actions of one execution

ASSUME DirectBridgeAssumption ==
  /\ MaxActions \in Nat
  /\ DOMAIN InvocationOf = Executions /\ DOMAIN CancelOf = Cancels

VARIABLES
  jobs,        \* the microtask queue
  closed,      \* closed
  active,      \* active, as the executions registered in it
  cancelled,   \* cancelled of each execution's ActiveInvocation
  listening,   \* executions with a listener in cancellationListeners
  race,        \* what settled the race of the action an execution waits for
  sequence,    \* actions requested
  records,     \* the action records of each execution
  verdict,     \* what run() returned
  result,      \* what the promise that execute() returned holds
  handler,     \* host.handleAction per action: not called, running, outcome
  cancelResult,
  closing,     \* the first close()
  awaited      \* the executions its Promise.allSettled waits for

vars == <<jobs, closed, active, cancelled, listening, race, sequence, records,
          verdict, result, handler, cancelResult, closing, awaited>>

Actions     == Executions \X (1..MaxActions)
Invocations == {InvocationOf[e] : e \in Executions}

\* What a host's handler may answer.  "unknown" is a handler that failed or
\* threw, "cancelled" a gateway that saw its signal aborted, "invalid" anything
\* isActionOutcome refuses.
Outcomes == {"completed", "not_performed", "unknown", "cancelled", "invalid"}
Refusals == {"bridge_closed", "invalid_request", "duplicate"}
Verdicts == {"completed", "failed", "cancelled", "not_started"}
Kinds    == {"prepared", "step", "dispatch", "outcome", "cancel", "resume", "settled", "closed"}

TypeOK ==
  /\ \A i \in DOMAIN jobs : jobs[i][1] \in Kinds
  /\ closed \in BOOLEAN
  /\ active \subseteq Executions /\ listening \subseteq Executions
  /\ cancelled \subseteq Executions /\ awaited \subseteq Executions
  /\ race \in [Executions -> Outcomes \cup {"open", "abandoned"}]
  /\ sequence \in [Executions -> 0..MaxActions]
  /\ verdict \in [Executions -> Verdicts \cup {"none"}]
  /\ result \in [Executions -> Verdicts \cup Refusals \cup {"idle", "pending"}]
  /\ handler \in [Actions -> Outcomes \cup {"none", "running"}]
  /\ cancelResult \in [Cancels -> {"idle", "accepted", "not_active", "bridge_closed"}]
  /\ closing \in {"none", "waiting", "closed"}

Init ==
  /\ jobs = <<>>
  /\ closed = FALSE
  /\ active = {} /\ cancelled = {} /\ listening = {} /\ awaited = {}
  /\ race = [e \in Executions |-> "open"]
  /\ sequence = [e \in Executions |-> 0]
  /\ records = [e \in Executions |-> <<>>]
  /\ verdict = [e \in Executions |-> "none"]
  /\ result = [e \in Executions |-> "idle"]
  /\ handler = [a \in Actions |-> "none"]
  /\ cancelResult = [c \in Cancels |-> "idle"]
  /\ closing = "none"

----------------------------------------------------------------------------
(* Jobs.                                                                   *)

\* A job with a third element has that many promises to pass yet.
Job(kind) == jobs # <<>> /\ jobs[1][1] = kind /\ (Len(jobs[1]) = 3 => jobs[1][3] = 0)
Subject   == jobs[1][2]

Passes ==
  /\ jobs # <<>> /\ Len(jobs[1]) = 3 /\ jobs[1][3] > 0
  /\ jobs' = Append(Tail(jobs), [jobs[1] EXCEPT ![3] = @ - 1])
  /\ UNCHANGED <<closed, active, cancelled, listening, race, sequence, records, verdict,
                 result, handler, cancelResult, closing, awaited>>

\* The action an execution requested last.
Current(e) == <<e, sequence[e]>>

Requested(n)   == [phase |-> "requested", action |-> n, outcome |-> "none"]
Resolved(n, o) == [phase |-> "resolved", action |-> n, outcome |-> o]

\* run() returns: a microtask later the reaction of finally() takes place.
Ends(e, v, before) ==
  /\ verdict' = [verdict EXCEPT ![e] = v]
  /\ jobs' = before \o <<<<"settled", e>>>>

\* Every listener of a cancelled execution resolves its promise, once.
CancelJobs(es) ==
  LET order == CHOOSE s \in [1..Cardinality(es) -> es] : \A i, j \in DOMAIN s : i # j => s[i] # s[j]
  IN  [i \in 1..Cardinality(es) |-> <<"cancel", Current(order[i])>>]

----------------------------------------------------------------------------
(* execute().                                                              *)

Refuse(e, why) ==
  /\ result' = [result EXCEPT ![e] = why]
  /\ UNCHANGED <<jobs, closed, active, cancelled, listening, race, sequence, records,
                 verdict, handler, cancelResult, closing, awaited>>

ActiveUnder(i) == {e \in active : InvocationOf[e] = i}

\* run() goes on to its first await in the same turn: to a refusal of the
\* request, to the compilation of a source, or into the interpreter.
Execute(e) ==
  /\ result[e] = "idle"
  /\ \/ closed /\ Refuse(e, "bridge_closed")
     \/ ~closed /\ ActiveUnder(InvocationOf[e]) # {} /\ Refuse(e, "duplicate")
     \/ ~closed /\ Refuse(e, "invalid_request")
     \/ /\ ~closed /\ ActiveUnder(InvocationOf[e]) = {}
        /\ active' = active \cup {e}
        /\ result' = [result EXCEPT ![e] = "pending"]
        /\ \/ Ends(e, "not_started", jobs)
           \/ \E next \in {"prepared", "step"} :
                jobs' = Append(jobs, <<next, e>>) /\ UNCHANGED verdict
        /\ UNCHANGED <<closed, cancelled, listening, race, sequence, records,
                       handler, cancelResult, closing, awaited>>

\* The compilation of a source, and the decoding of the input, end.
Prepared ==
  /\ Job("prepared")
  /\ LET e == Subject IN
       \/ Ends(e, "not_started", Tail(jobs))
       \/ jobs' = Append(Tail(jobs), <<"step", e>>) /\ UNCHANGED verdict
  /\ UNCHANGED <<closed, active, cancelled, listening, race, sequence, records,
                 result, handler, cancelResult, closing, awaited>>

----------------------------------------------------------------------------
(* The interpreter goes on.                                                *)

\* It polls at a statement and at an action, but need not reach either.
StepCancelled(e) ==
  /\ e \in cancelled
  /\ Ends(e, "cancelled", Tail(jobs))
  /\ UNCHANGED <<sequence, records, listening, race>>

StepEnds(e) ==
  /\ \E v \in {"completed", "failed"} : Ends(e, v, Tail(jobs))
  /\ UNCHANGED <<sequence, records, listening, race>>

\* handle(): poll, encode, charge, record and, in the same turn, receive().
\* host.handleAction is called a microtask later.
Receive(e, n) ==
  /\ listening' = listening \cup {e}
  /\ race' = [race EXCEPT ![e] = "open"]
  /\ jobs' = Append(Tail(jobs), <<"dispatch", <<e, n>>, 0>>)

StepActs(e) ==
  /\ e \notin cancelled
  /\ sequence[e] < MaxActions
  /\ LET n == sequence[e] + 1 IN
       /\ sequence' = [sequence EXCEPT ![e] = n]
       /\ records' = [records EXCEPT ![e] = Append(@, Requested(n))]
       /\ Receive(e, n)
  /\ UNCHANGED verdict

Step ==
  /\ Job("step")
  /\ StepCancelled(Subject) \/ StepEnds(Subject) \/ StepActs(Subject)
  /\ UNCHANGED <<closed, active, cancelled, result, handler, cancelResult, closing, awaited>>

----------------------------------------------------------------------------
(* receive(): the race of the outcome and the cancellation.                *)

Dispatch ==
  /\ Job("dispatch")
  /\ handler' = [handler EXCEPT ![Subject] = "running"]
  /\ jobs' = Tail(jobs)
  /\ UNCHANGED <<closed, active, cancelled, listening, race, sequence, records, verdict,
                 result, cancelResult, closing, awaited>>

\* The outcome has two more promises to pass before it reaches the race:
\* the one then() returned and the one catch() returned.
HandlerSettles(a) ==
  /\ handler[a] = "running"
  /\ \E o \in Outcomes :
       /\ handler' = [handler EXCEPT ![a] = o]
       /\ jobs' = Append(jobs, <<"outcome", a, 2>>)
  /\ UNCHANGED <<closed, active, cancelled, listening, race, sequence, records, verdict,
                 result, cancelResult, closing, awaited>>

\* A reaction of the race: the first of the two settles it.
RaceSettles(e, by) ==
  IF race[e] = "open"
    THEN /\ race' = [race EXCEPT ![e] = by]
         /\ jobs' = Append(Tail(jobs), <<"resume", e>>)
    ELSE /\ jobs' = Tail(jobs)
         /\ UNCHANGED race

\* An outcome or a cancellation of an action that its execution no longer
\* waits for settles a race that is over.
Stale(a) == a # Current(a[1]) \/ a[1] \notin listening

OutcomeArrives ==
  /\ Job("outcome")
  /\ IF Stale(Subject)
       THEN jobs' = Tail(jobs) /\ UNCHANGED race
       ELSE RaceSettles(Subject[1], handler[Subject])
  /\ UNCHANGED <<closed, active, cancelled, listening, sequence, records, verdict,
                 result, handler, cancelResult, closing, awaited>>

CancelArrives ==
  /\ Job("cancel")
  /\ IF Stale(Subject)
       THEN jobs' = Tail(jobs) /\ UNCHANGED race
       ELSE RaceSettles(Subject[1], "abandoned")
  /\ UNCHANGED <<closed, active, cancelled, listening, sequence, records, verdict,
                 result, handler, cancelResult, closing, awaited>>

----------------------------------------------------------------------------
(* interpretOutcome() and completed().                                     *)

\* What the records say of an outcome.
\* Mutant: an abandoned action is taken for one that never began.
RecordedNotPerformed(o) ==
  IF o = "abandoned" THEN "not_performed" ELSE IF o = "invalid" THEN "unknown" ELSE o

Recorded(o) == IF o \in {"abandoned", "invalid"} THEN "unknown" ELSE o

Resolve(e, o) == records' = [records EXCEPT ![e] = Append(@, Resolved(sequence[e], o))]

ResumeFailed(e) ==
  /\ race[e] # "completed"
  /\ Resolve(e, Recorded(race[e]))
  /\ Ends(e, IF race[e] \in {"abandoned", "cancelled"} THEN "cancelled" ELSE "failed", Tail(jobs))

\* The scan of the value is charged before its record is written, its
\* allocation after.
ResumeCompleted(e) ==
  /\ race[e] = "completed"
  /\ \/ Resolve(e, "unknown") /\ Ends(e, "failed", Tail(jobs))     \* does not decode
     \/ UNCHANGED records /\ Ends(e, "failed", Tail(jobs))         \* scan refused
     \/ Resolve(e, "completed") /\ Ends(e, "failed", Tail(jobs))   \* allocation refused
     \/ /\ Resolve(e, "completed")
        /\ jobs' = Append(Tail(jobs), <<"step", e>>)
        /\ UNCHANGED verdict

Resume ==
  /\ Job("resume")
  /\ listening' = listening \ {Subject}
  /\ ResumeFailed(Subject) \/ ResumeCompleted(Subject)
  /\ UNCHANGED <<closed, active, cancelled, race, sequence, result, handler,
                 cancelResult, closing, awaited>>

----------------------------------------------------------------------------
(* The reaction of finally(), cancel() and close().                        *)

AllSettled(es, results) == \A e \in es : results[e] # "pending"

\* Mutant: the caller holds the promise of run() and the identifier is freed
\* a turn later.
SettledUnfreed ==
  /\ Job("settled")
  /\ result' = [result EXCEPT ![Subject] = verdict[Subject]]
  /\ jobs' = Tail(jobs) \o (IF closing = "waiting" /\ Subject \in awaited /\ AllSettled(awaited, result')
                              THEN <<<<"closed", 0>>>> ELSE <<>>)
  /\ UNCHANGED <<closed, active, cancelled, listening, race, sequence, records, verdict,
                 handler, cancelResult, closing, awaited>>

Settled ==
  /\ Job("settled")
  /\ active' = active \ {Subject}
  /\ result' = [result EXCEPT ![Subject] = verdict[Subject]]
  /\ jobs' = Tail(jobs) \o (IF closing = "waiting" /\ Subject \in awaited /\ AllSettled(awaited, result')
                              THEN <<<<"closed", 0>>>> ELSE <<>>)
  /\ UNCHANGED <<closed, cancelled, listening, race, sequence, records, verdict,
                 handler, cancelResult, closing, awaited>>

Cancel(c) ==
  /\ cancelResult[c] = "idle"
  /\ LET es == ActiveUnder(CancelOf[c]) IN
       /\ cancelResult' = [cancelResult EXCEPT ![c] =
                             IF closed THEN "bridge_closed"
                             ELSE IF es = {} THEN "not_active" ELSE "accepted"]
       /\ IF closed
            THEN UNCHANGED <<cancelled, jobs>>
            ELSE /\ cancelled' = cancelled \cup es
                 /\ jobs' = jobs \o CancelJobs((es \cap listening) \ cancelled)
  /\ UNCHANGED <<closed, active, listening, race, sequence, records, verdict, result,
                 handler, closing, awaited>>

\* Mutant: close waits for the executions without cancelling them.
CloseWithoutCancelling ==
  /\ closing = "none"
  /\ closed' = TRUE
  /\ closing' = "waiting"
  /\ awaited' = active
  /\ jobs' = jobs \o (IF active = {} THEN <<<<"closed", 0>>>> ELSE <<>>)
  /\ UNCHANGED <<active, cancelled, listening, race, sequence, records, verdict, result,
                 handler, cancelResult>>

Close ==
  /\ closing = "none"
  /\ closed' = TRUE
  /\ closing' = "waiting"
  /\ cancelled' = cancelled \cup active
  /\ awaited' = active
  /\ jobs' = jobs \o CancelJobs((active \cap listening) \ cancelled)
                  \o (IF active = {} THEN <<<<"closed", 0>>>> ELSE <<>>)
  /\ UNCHANGED <<active, listening, race, sequence, records, verdict, result,
                 handler, cancelResult>>

Closed ==
  /\ Job("closed")
  /\ closing' = "closed"
  /\ jobs' = Tail(jobs)
  /\ UNCHANGED <<closed, active, cancelled, listening, race, sequence, records, verdict,
                 result, handler, cancelResult, awaited>>

----------------------------------------------------------------------------
Microtask ==
  \/ Prepared \/ Step \/ Dispatch \/ Passes \/ OutcomeArrives
  \/ CancelArrives \/ Resume \/ Settled \/ Closed

Next ==
  \/ Microtask
  \/ \E e \in Executions : Execute(e)
  \/ \E a \in Actions : HandlerSettles(a)
  \/ \E c \in Cancels : Cancel(c)
  \/ Close

\* The event loop runs its microtasks.  Nothing is assumed of the host: a
\* handler may never settle and nobody has to call anything.
Spec == Init /\ [][Next]_vars /\ WF_vars(Microtask)

----------------------------------------------------------------------------
(* Properties.                                                             *)

Answered(e) == result[e] \in Verdicts

\* The facts of an answered execution tell the truth about the host: it was
\* asked for exactly the actions requested there, each was resolved before the
\* next was requested, one recorded as completed was completed by its handler
\* and one recorded as not performed was said by its handler not to be.  A
\* request without a resolution is the last of an execution that failed, the
\* meter having refused the scan of its value (ActionDispatcher.handle,
\* receive and interpretOutcome).
RecordsAlternate(e) ==
  \A i \in DOMAIN records[e] :
    /\ records[e][i].action = (i + 1) \div 2
    /\ records[e][i].phase = IF i % 2 = 1 THEN "requested" ELSE "resolved"
    /\ Answered(e) /\ i = Len(records[e]) /\ i % 2 = 1 => result[e] = "failed"

RecordsTrue(e) ==
  /\ {n \in 1..MaxActions : \E i \in DOMAIN records[e] : records[e][i] = Requested(n)}
       = {n \in 1..MaxActions : handler[<<e, n>>] # "none"}
  /\ \A i \in DOMAIN records[e] : records[e][i].outcome \in {"completed", "not_performed"} =>
       handler[<<e, records[e][i].action>>] = records[e][i].outcome

FactsMatchHost ==
  \A e \in Executions : RecordsAlternate(e) /\ (Answered(e) => RecordsTrue(e))

\* What is answered is over: an execution whose result the host has is no
\* longer active, so that its identifier may be used again and no cancel is
\* accepted for it, and close() resolves after the executions it found (the
\* promise execute() returns, and close() waits for, is the one finally()
\* returned).
AnsweredIsOver ==
  /\ \A e \in active : result[e] = "pending"
  /\ closing = "closed" => \A e \in Executions : result[e] # "pending"

\* close() resolves whatever the host's handlers do: those that never settle
\* are raced by the cancellation.
CloseNeedsNoHost == (closing = "waiting") ~> (closing = "closed")
=============================================================================

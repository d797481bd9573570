------------------------- MODULE DirectBridgeProofs -------------------------
(***************************************************************************)
(* Proofs about the bridge that runs scripts in the host's process, for any*)
(* executions, cancellations and bound of actions, and for a queue of      *)
(* microtasks of any length.                                               *)
(***************************************************************************)
EXTENDS DirectBridge, SequencesExt, SequenceTheorems, FiniteSetTheorems, TLAPS

----------------------------------------------------------------------------
(* The inductive invariant.                                                *)

\* The jobs of an execution's own progress: it has one of them at most.
Control == {"prepared", "step", "resume", "settled"}

JobSet ==
  (Control \X Executions) \cup ({"cancel"} \X Actions) \cup {<<"closed", 0>>}
    \cup ({"dispatch"} \X Actions \X {0}) \cup ({"outcome"} \X Actions \X (0..2))

RecordSet ==
  [phase : {"requested", "resolved"}, action : Nat, outcome : Outcomes \cup {"none"}]

\* x may not come before y: an execution is at one place, an action is dispatched
\* once, and before a cancellation of it arrives.
Clash(x, y) ==
  /\ \/ x[1] \in Control /\ y[1] \in Control
     \/ x[1] \in {"dispatch", "cancel"} /\ y[1] = "dispatch"
  /\ x[2] = y[2]

Ordered(s) == \A i, j \in 1..Len(s) : i < j => ~Clash(s[i], s[j])

\* What a job in the queue says of the state.
JobTrue(x) ==
  /\ x[1] \in {"prepared", "step"} => x[2] \in active \ listening /\ verdict[x[2]] = "none"
  /\ x[1] = "resume" => x[2] \in listening /\ race[x[2]] # "open"
  /\ x[1] = "settled" => x[2] \in active \ listening /\ verdict[x[2]] \in Verdicts
  /\ x[1] = "dispatch" =>
       x[2][1] \in listening /\ race[x[2][1]] = "open" /\ x[2][2] = sequence[x[2][1]]
  /\ x[1] = "cancel" => x[2][2] <= sequence[x[2][1]]
  /\ x[1] = "outcome" => handler[x[2]] \in Outcomes
  /\ x[1] = "closed" => closed /\ active = {}

JobsTrue == \A x \in ToSet(jobs) : JobTrue(x)

DispatchOf(a) == <<"dispatch", a, 0>>

\* A handler is called when its action has been requested and dispatched.
HandlersAsked ==
  \A e \in Executions, n \in 1..MaxActions :
    handler[<<e, n>>] = "none" <=> (n > sequence[e] \/ DispatchOf(<<e, n>>) \in ToSet(jobs))

\* An execution that listens waits for an action it requested; a race that an
\* outcome settled holds what the handler of that action said.
RaceTrue ==
  \A e \in listening : /\ e \in active /\ verdict[e] = "none" /\ sequence[e] # 0
                       /\ \/ race[e] \in {"open", "abandoned"}
                          \/ race[e] \in Outcomes /\ handler[Current(e)] = race[e]

\* n actions requested in order, and resolved as their handler said.
Told(r, n, h, e) ==
  /\ r \in Seq(RecordSet)
  /\ \A m \in 1..n : r[2 * m - 1] = Requested(m)
  /\ \A m \in 1..n : 2 * m <= Len(r) =>
       \E o \in Outcomes : /\ r[2 * m] = Resolved(m, o)
                           /\ o \in {"completed", "not_performed"} => h[<<e, m>>] = o

\* Only the last request may be without a resolution: the execution waits for it,
\* or failed when its value was scanned.
RecordTrue(e) ==
  /\ Told(records[e], sequence[e], handler, e)
  /\ \/ Len(records[e]) = 2 * sequence[e] /\ e \notin listening
     \/ /\ Len(records[e]) = 2 * sequence[e] - 1 /\ sequence[e] # 0
        /\ e \in listening \/ verdict[e] = "failed"

\* Active is what has been accepted and not been answered; an answer is the
\* verdict of the run.
Answering ==
  \A e \in Executions :
    /\ e \in active <=> result[e] = "pending"
    /\ result[e] = "idle" => verdict[e] = "none"
    /\ result[e] \in Verdicts => result[e] = verdict[e]

\* Nothing is registered after close() and it resolves when nothing is left.
Closing ==
  /\ closed <=> closing # "none"
  /\ closed => active \subseteq awaited
  /\ closing = "closed" => active = {}

BridgeTypes ==
  /\ jobs \in Seq(JobSet)
  /\ closed \in BOOLEAN
  /\ active \subseteq Executions /\ listening \subseteq Executions
  /\ cancelled \subseteq Executions /\ awaited \subseteq Executions
  /\ race \in [Executions -> Outcomes \cup {"open", "abandoned"}]
  /\ sequence \in [Executions -> 0..MaxActions]
  /\ DOMAIN records = Executions
  /\ verdict \in [Executions -> Verdicts \cup {"none"}]
  /\ result \in [Executions -> Verdicts \cup Refusals \cup {"idle", "pending"}]
  /\ handler \in [Actions -> Outcomes \cup {"none", "running"}]
  /\ cancelResult \in [Cancels -> {"idle", "accepted", "not_active", "bridge_closed"}]
  /\ closing \in {"none", "waiting", "closed"}

BridgeInv ==
  /\ BridgeTypes
  /\ IsFiniteSet(active)
  /\ Ordered(jobs)
  /\ JobsTrue
  /\ HandlersAsked
  /\ RaceTrue
  /\ \A e \in Executions : RecordTrue(e)
  /\ Answering
  /\ Closing

----------------------------------------------------------------------------
(* The queue.                                                              *)

\* Taking the first job off.
LEMMA TailOrdered ==
  ASSUME NEW s \in Seq(JobSet), s # <<>>, Ordered(s)
  PROVE  /\ s[1] \in JobSet /\ Tail(s) \in Seq(JobSet) /\ Ordered(Tail(s))
         /\ ToSet(s) = {s[1]} \cup ToSet(Tail(s))
         /\ \A y \in ToSet(Tail(s)) : y \in JobSet /\ ~Clash(s[1], y)
<1>1. /\ s[1] \in JobSet /\ Tail(s) \in Seq(JobSet)
      /\ Len(s) \in Nat \ {0} /\ DOMAIN s = 1..Len(s) /\ DOMAIN Tail(s) = 1..(Len(s) - 1)
      /\ Len(Tail(s)) = Len(s) - 1
      /\ \A i \in 1..(Len(s) - 1) : Tail(s)[i] = s[i + 1]
      /\ \A i \in 1..Len(s) : s[i] \in JobSet
  BY HeadTailProperties, LenProperties, EmptySeq, ElementOfSeq
<1>2. /\ \A i \in DOMAIN Tail(s) : i + 1 \in DOMAIN s /\ 1 < i + 1 /\ Tail(s)[i] = s[i + 1]
      /\ \A i \in DOMAIN s : i = 1 \/ (i - 1 \in DOMAIN Tail(s) /\ Tail(s)[i - 1] = s[i])
      /\ 1 \in DOMAIN s
  BY <1>1
<1>3. Ordered(Tail(s))
  <2> SUFFICES ASSUME NEW i \in 1..Len(Tail(s)), NEW j \in 1..Len(Tail(s)), i < j
               PROVE  ~Clash(Tail(s)[i], Tail(s)[j])
    BY DEF Ordered
  <2>1. i + 1 \in 1..Len(s) /\ j + 1 \in 1..Len(s) /\ i + 1 < j + 1
    BY <1>1
  <2>2. Tail(s)[i] = s[i + 1] /\ Tail(s)[j] = s[j + 1]
    BY <1>1
  <2> QED
    BY <2>1, <2>2 DEF Ordered
<1>4. ToSet(s) = {s[1]} \cup ToSet(Tail(s))
  BY <1>1, <1>2 DEF ToSet
<1>5. ASSUME NEW y \in ToSet(Tail(s)) PROVE y \in JobSet /\ ~Clash(s[1], y)
  <2>1. PICK i \in DOMAIN Tail(s) : y = s[i + 1] /\ i + 1 \in 1..Len(s) /\ 1 < i + 1
    BY <1>1, <1>2 DEF ToSet
  <2> QED
    BY <1>1, <1>2, <2>1 DEF Ordered
<1> QED
  BY <1>1, <1>3, <1>4, <1>5

\* Jobs behind others.
LEMMA ConcatOrdered ==
  ASSUME NEW s \in Seq(JobSet), NEW t \in Seq(JobSet), Ordered(s), Ordered(t),
         \A x \in ToSet(s), y \in ToSet(t) : ~Clash(x, y)
  PROVE  s \o t \in Seq(JobSet) /\ Ordered(s \o t) /\ ToSet(s \o t) = ToSet(s) \cup ToSet(t)
<1>1. /\ s \o t \in Seq(JobSet) /\ Len(s) \in Nat /\ Len(t) \in Nat
      /\ DOMAIN s = 1..Len(s) /\ DOMAIN t = 1..Len(t) /\ DOMAIN (s \o t) = 1..(Len(s) + Len(t))
      /\ Len(s \o t) = Len(s) + Len(t)
      /\ \A i \in 1..(Len(s) + Len(t)) :
           (s \o t)[i] = IF i <= Len(s) THEN s[i] ELSE t[i - Len(s)]
  BY ConcatProperties, LenProperties
<1>2. ASSUME NEW i \in 1..Len(s \o t)
      PROVE  \/ i <= Len(s) /\ i \in 1..Len(s) /\ (s \o t)[i] = s[i]
             \/ ~(i <= Len(s)) /\ i - Len(s) \in 1..Len(t) /\ (s \o t)[i] = t[i - Len(s)]
  <2>1. CASE i <= Len(s)
    BY <1>1, <2>1
  <2>2. CASE ~(i <= Len(s))
    BY <1>1, <2>2
  <2> QED
    BY <2>1, <2>2
<1>3. ToSet(s \o t) = ToSet(s) \cup ToSet(t)
  <2>1. ASSUME NEW x \in ToSet(s \o t) PROVE x \in ToSet(s) \cup ToSet(t)
    BY <1>1, <1>2 DEF ToSet
  <2>2. ASSUME NEW x \in ToSet(s) PROVE x \in ToSet(s \o t)
    <3>1. PICK i \in 1..Len(s) : x = s[i]
      BY <1>1 DEF ToSet
    <3>2. i \in 1..(Len(s) + Len(t)) /\ i <= Len(s)
      BY <1>1
    <3> QED
      BY <1>1, <3>1, <3>2 DEF ToSet
  <2>3. ASSUME NEW x \in ToSet(t) PROVE x \in ToSet(s \o t)
    <3>1. PICK i \in 1..Len(t) : x = t[i]
      BY <1>1 DEF ToSet
    <3>2. Len(s) + i \in 1..(Len(s) + Len(t)) /\ ~(Len(s) + i <= Len(s)) /\ (Len(s) + i) - Len(s) = i
      BY <1>1
    <3> QED
      BY <1>1, <3>1, <3>2 DEF ToSet
  <2> QED
    BY <2>1, <2>2, <2>3
<1>4. ASSUME NEW i \in 1..Len(s \o t), NEW j \in 1..Len(s \o t), i < j
      PROVE  ~Clash((s \o t)[i], (s \o t)[j])
  <2>1. \A a \in 1..Len(s), b \in 1..Len(t) : ~Clash(s[a], t[b])
    BY <1>1 DEF ToSet
  <2>2. CASE i <= Len(s) /\ j <= Len(s)
    BY <1>2, <2>2, <1>4 DEF Ordered
  <2>3. CASE i <= Len(s) /\ ~(j <= Len(s))
    BY <1>2, <2>1, <2>3
  <2>4. CASE ~(i <= Len(s)) /\ ~(j <= Len(s))
    <3>1. i - Len(s) < j - Len(s)
      BY <1>1, <1>4
    <3> QED
      BY <1>2, <2>4, <3>1 DEF Ordered
  <2>5. ~(~(i <= Len(s)) /\ j <= Len(s))
    BY <1>1, <1>4
  <2> QED
    BY <2>2, <2>3, <2>4, <2>5
<1> QED
  BY <1>1, <1>3, <1>4 DEF Ordered

\* One job more.
LEMMA Enqueue ==
  ASSUME NEW s \in Seq(JobSet), Ordered(s), NEW x \in JobSet, \A y \in ToSet(s) : ~Clash(y, x)
  PROVE  /\ Append(s, x) \in Seq(JobSet) /\ Ordered(Append(s, x))
         /\ ToSet(Append(s, x)) = ToSet(s) \cup {x}
         /\ s \o <<x>> = Append(s, x)
<1>1. Append(s, x) = s \o <<x>> /\ <<x>> \in Seq(JobSet)
  BY AppendIsConcat
<1>2. ToSet(<<x>>) = {x} /\ Ordered(<<x>>)
  BY DEF ToSet, Ordered
<1> QED
  BY ZenonT(40), <1>1, <1>2, ConcatOrdered

\* What a job of each kind is.
LEMMA JobParts ==
  ASSUME NEW x \in JobSet
  PROVE  /\ x[1] \in Kinds
         /\ Len(x) = 3 <=> x[1] \in {"dispatch", "outcome"}
         /\ x[1] \in Control => x[2] \in Executions
         /\ x[1] \in {"dispatch", "cancel", "outcome"} =>
              /\ x[2] \in Actions /\ x[2][1] \in Executions /\ x[2][2] \in 1..MaxActions
              /\ x[2] = <<x[2][1], x[2][2]>>
         /\ x[1] = "dispatch" => x = DispatchOf(x[2]) /\ x[3] = 0
         /\ x[1] = "outcome" => x[3] \in 0..2 /\ x = <<"outcome", x[2], x[3]>>
<1>1. CASE x \in Control \X Executions
  BY <1>1 DEF Control, Kinds
<1>2. CASE x \in {"cancel"} \X Actions
  BY <1>2 DEF Control, Kinds, Actions
<1>3. CASE x = <<"closed", 0>>
  BY <1>3 DEF Control, Kinds
<1>4. CASE x \in {"dispatch"} \X Actions \X {0}
  BY <1>4 DEF Control, Kinds, Actions, DispatchOf
<1>5. CASE x \in {"outcome"} \X Actions \X (0..2)
  BY <1>5 DEF Control, Kinds, Actions
<1> QED
  BY <1>1, <1>2, <1>3, <1>4, <1>5 DEF JobSet

\* The jobs the steps add.
LEMMA NewJobs ==
  /\ \A kind \in Control, e \in Executions :
       <<kind, e>> \in JobSet /\ <<kind, e>>[1] = kind /\ <<kind, e>>[2] = e
  /\ \A a \in Actions : /\ DispatchOf(a) \in JobSet /\ <<"cancel", a>> \in JobSet
                        /\ \A k \in 0..2 : <<"outcome", a, k>> \in JobSet
  /\ <<"closed", 0>> \in JobSet
BY DEF JobSet, DispatchOf

\* The job a microtask takes, and those behind it.
LEMMA TakeJob ==
  ASSUME BridgeInv, jobs # <<>>
  PROVE  /\ jobs[1] \in JobSet /\ JobTrue(jobs[1])
         /\ Tail(jobs) \in Seq(JobSet) /\ Ordered(Tail(jobs))
         /\ ToSet(jobs) = {jobs[1]} \cup ToSet(Tail(jobs))
         /\ \A y \in ToSet(Tail(jobs)) : y \in JobSet /\ JobTrue(y) /\ ~Clash(jobs[1], y)
<1>1. jobs \in Seq(JobSet) /\ Ordered(jobs) /\ JobsTrue
  BY DEF BridgeInv, BridgeTypes
<1> QED
  BY <1>1, TailOrdered DEF JobsTrue

\* Behind a job of an execution there is no other of it, and no dispatch.
LEMMA TakeControl ==
  ASSUME BridgeInv, jobs # <<>>, jobs[1][1] \in Control
  PROVE  /\ jobs[1][2] \in Executions /\ jobs[1][2] \in active
         /\ \A y \in ToSet(Tail(jobs)) : y[1] \in Control => y[2] # jobs[1][2]
         /\ \A y \in ToSet(Tail(jobs)) : y[1] = "dispatch" => y[2][1] # jobs[1][2]
         /\ \A a : DispatchOf(a) \in ToSet(jobs) <=> DispatchOf(a) \in ToSet(Tail(jobs))
         /\ \A kind \in Control : \A y \in ToSet(Tail(jobs)) : ~Clash(y, <<kind, jobs[1][2]>>)
<1> DEFINE e == jobs[1][2]
<1>1. /\ jobs[1] \in JobSet /\ JobTrue(jobs[1])
      /\ ToSet(jobs) = {jobs[1]} \cup ToSet(Tail(jobs))
      /\ \A y \in ToSet(Tail(jobs)) : y \in JobSet /\ JobTrue(y) /\ ~Clash(jobs[1], y)
  BY TakeJob
<1>2. e \in Executions /\ jobs[1][1] \in {"prepared", "step", "resume", "settled"}
  BY <1>1, JobParts DEF Control
<1>3. e \in active /\ (e \in listening => race[e] # "open")
  BY <1>1, <1>2 DEF JobTrue, BridgeInv, RaceTrue
<1>4. \A y \in ToSet(Tail(jobs)) : y[1] \in Control => y[2] # e
  BY <1>1 DEF Clash
<1>5. \A y \in ToSet(Tail(jobs)) : y[1] = "dispatch" => y[2][1] # e
  BY <1>1, <1>3 DEF JobTrue
<1>6. \A a : jobs[1] # DispatchOf(a)
  BY <1>2 DEF DispatchOf
<1>7. \A a : DispatchOf(a) \in ToSet(jobs) <=> DispatchOf(a) \in ToSet(Tail(jobs))
  BY <1>1, <1>6
<1>8. \A kind \in Control : \A y \in ToSet(Tail(jobs)) : ~Clash(y, <<kind, e>>)
  <2> SUFFICES ASSUME NEW kind \in Control, NEW y \in ToSet(Tail(jobs)), Clash(y, <<kind, e>>)
               PROVE  FALSE
    OBVIOUS
  <2>1. kind # "dispatch"
    BY DEF Control
  <2>2. y[1] \in Control /\ y[2] = e
    BY <2>1 DEF Clash
  <2> QED
    BY <1>4, <2>2
<1> QED
  BY <1>2, <1>3, <1>4, <1>5, <1>7, <1>8

----------------------------------------------------------------------------
(* The records.                                                            *)

\* The steps of an action's handler take nothing back.
LEMMA ToldKept ==
  ASSUME NEW r, NEW n \in Nat, NEW h, NEW g, NEW e, Told(r, n, h, e),
         \A m \in 1..n : h[<<e, m>>] \in Outcomes => g[<<e, m>>] = h[<<e, m>>]
  PROVE  Told(r, n, g, e)
BY DEF Told, Outcomes

\* Requesting an action.
LEMMA ToldRequest ==
  ASSUME NEW r, NEW n \in Nat, NEW h, NEW e, Told(r, n, h, e), Len(r) = 2 * n
  PROVE  /\ Told(Append(r, Requested(n + 1)), n + 1, h, e)
         /\ Len(Append(r, Requested(n + 1))) = 2 * (n + 1) - 1
<1> DEFINE q == Append(r, Requested(n + 1))
<1>1. r \in Seq(RecordSet) /\ Requested(n + 1) \in RecordSet
  BY DEF Told, Requested, RecordSet
<1>2. /\ q \in Seq(RecordSet) /\ Len(q) = 2 * n + 1
      /\ \A i \in 1..(2 * n) : q[i] = r[i]
      /\ q[2 * n + 1] = Requested(n + 1)
  BY <1>1, AppendProperties
<1> HIDE DEF q
<1>3. ASSUME NEW m \in 1..(n + 1) PROVE q[2 * m - 1] = Requested(m)
  <2>1. CASE m = n + 1
    <3>1. 2 * m - 1 = 2 * n + 1
      BY <2>1
    <3> QED
      BY <1>2, <2>1, <3>1
  <2>2. CASE m # n + 1
    <3>1. m \in 1..n /\ 2 * m - 1 \in 1..(2 * n)
      BY <2>2
    <3> QED
      BY <1>2, <3>1 DEF Told
  <2> QED
    BY <2>1, <2>2
<1>4. ASSUME NEW m \in 1..(n + 1), 2 * m <= Len(q)
      PROVE  \E o \in Outcomes : /\ q[2 * m] = Resolved(m, o)
                                 /\ o \in {"completed", "not_performed"} => h[<<e, m>>] = o
  <2>1. m \in 1..n /\ 2 * m \in 1..(2 * n) /\ 2 * m <= Len(r)
    BY <1>2, <1>4
  <2>2. q[2 * m] = r[2 * m]
    BY <1>2, <2>1
  <2> QED
    BY <2>1, <2>2 DEF Told
<1>5. Len(q) = 2 * (n + 1) - 1
  BY <1>2
<1> QED
  BY <1>2, <1>3, <1>4, <1>5 DEF Told, q

\* Resolving the action requested last.
LEMMA ToldResolve ==
  ASSUME NEW r, NEW n \in Nat, n # 0, NEW h, NEW e, Told(r, n, h, e), Len(r) = 2 * n - 1,
         NEW o \in Outcomes, o \in {"completed", "not_performed"} => h[<<e, n>>] = o
  PROVE  /\ Told(Append(r, Resolved(n, o)), n, h, e)
         /\ Len(Append(r, Resolved(n, o))) = 2 * n
<1> DEFINE q == Append(r, Resolved(n, o))
<1>1. r \in Seq(RecordSet) /\ Resolved(n, o) \in RecordSet
  BY DEF Told, Resolved, RecordSet
<1>2. /\ q \in Seq(RecordSet) /\ Len(q) = 2 * n
      /\ \A i \in 1..(2 * n - 1) : q[i] = r[i]
      /\ q[2 * n] = Resolved(n, o)
  BY SMTT(30), <1>1, AppendProperties
<1> HIDE DEF q
<1>3. ASSUME NEW m \in 1..n PROVE q[2 * m - 1] = Requested(m)
  <2>1. 2 * m - 1 \in 1..(2 * n - 1)
    OBVIOUS
  <2> QED
    BY <1>2, <2>1 DEF Told
<1>4. ASSUME NEW m \in 1..n, 2 * m <= Len(q)
      PROVE  \E p \in Outcomes : /\ q[2 * m] = Resolved(m, p)
                                 /\ p \in {"completed", "not_performed"} => h[<<e, m>>] = p
  <2>1. CASE m = n
    BY <1>2, <2>1
  <2>2. CASE m # n
    <3>1. 2 * m \in 1..(2 * n - 1) /\ 2 * m <= Len(r)
      BY <2>2
    <3>2. q[2 * m] = r[2 * m]
      BY <1>2, <3>1
    <3> QED
      BY <3>1, <3>2 DEF Told
  <2> QED
    BY <2>1, <2>2
<1> QED
  BY <1>2, <1>3, <1>4 DEF Told, q

----------------------------------------------------------------------------
(* The initial state and the steps.                                        *)

\* Nothing has been called.
LEMMA BridgeInit == Init => BridgeInv
<1> SUFFICES ASSUME Init PROVE BridgeInv
  OBVIOUS
<1>1. BridgeTypes
  <2>1. jobs \in Seq(JobSet)
    BY DEF Init
  <2>2. sequence \in [Executions -> 0..MaxActions]
    BY DirectBridgeAssumption DEF Init
  <2>3. /\ closed \in BOOLEAN /\ active \subseteq Executions /\ listening \subseteq Executions
        /\ cancelled \subseteq Executions /\ awaited \subseteq Executions
        /\ DOMAIN records = Executions /\ closing \in {"none", "waiting", "closed"}
    BY DEF Init
  <2>4. /\ race \in [Executions -> Outcomes \cup {"open", "abandoned"}]
        /\ verdict \in [Executions -> Verdicts \cup {"none"}]
        /\ result \in [Executions -> Verdicts \cup Refusals \cup {"idle", "pending"}]
        /\ handler \in [Actions -> Outcomes \cup {"none", "running"}]
        /\ cancelResult \in [Cancels -> {"idle", "accepted", "not_active", "bridge_closed"}]
    BY DEF Init
  <2> QED
    BY <2>1, <2>2, <2>3, <2>4 DEF BridgeTypes
<1>2. ToSet(jobs) = {} /\ Ordered(jobs)
  BY DEF Init, ToSet, Ordered
<1>3. HandlersAsked
  BY <1>2 DEF Init, HandlersAsked, Actions
<1>4. \A e \in Executions : RecordTrue(e)
  <2> SUFFICES ASSUME NEW e \in Executions PROVE RecordTrue(e)
    OBVIOUS
  <2>1. records[e] = <<>> /\ sequence[e] = 0 /\ e \notin listening
    BY DEF Init
  <2>2. Len(<<>>) = 2 * 0 /\ <<>> \in Seq(RecordSet)
    OBVIOUS
  <2> QED
    BY <2>1, <2>2 DEF RecordTrue, Told
<1>5. IsFiniteSet(active) /\ active = {} /\ listening = {} /\ closed = FALSE /\ closing = "none"
  BY FS_EmptySet DEF Init
<1>6. Answering
  BY DEF Init, Answering, Verdicts
<1> QED
  BY <1>1, <1>2, <1>3, <1>4, <1>5, <1>6 DEF BridgeInv, JobsTrue, RaceTrue, Closing

\* An execution goes on, or its run ends: its job makes room for the next one.
LEMMA GoesOn ==
  ASSUME BridgeInv, jobs # <<>>, jobs[1][1] \in {"prepared", "step", "resume"},
         NEW e, e = jobs[1][2], NEW kind, NEW v, (kind = "step" /\ v = "none") \/ (kind = "settled" /\ v \in Verdicts),
         jobs' = Append(Tail(jobs), <<kind, e>>),
         verdict' = [verdict EXCEPT ![e] = v],
         listening' = listening \ {e},
         UNCHANGED <<closed, active, cancelled, race, sequence, result, handler, cancelResult,
                     closing, awaited>>,
         DOMAIN records' = Executions,
         \A f \in Executions \ {e} : records'[f] = records[f],
         Told(records'[e], sequence[e], handler, e),
         \/ Len(records'[e]) = 2 * sequence[e]
         \/ /\ Len(records'[e]) = 2 * sequence[e] - 1
            /\ sequence[e] # 0 /\ v = "failed"
  PROVE  BridgeInv'
<1> DEFINE x == <<kind, e>>
           rest == Tail(jobs)
<1>1. jobs[1][1] \in Control /\ kind \in Control /\ x[1] = kind /\ x[2] = e
  BY DEF Control
<1>2. /\ jobs[1] \in JobSet /\ JobTrue(jobs[1]) /\ rest \in Seq(JobSet) /\ Ordered(rest)
      /\ \A y \in ToSet(rest) : y \in JobSet /\ JobTrue(y) /\ ~Clash(jobs[1], y)
  BY TakeJob
<1>3. /\ e \in Executions /\ e \in active
      /\ \A y \in ToSet(rest) : y[1] \in Control => y[2] # e
      /\ \A y \in ToSet(rest) : y[1] = "dispatch" => y[2][1] # e
      /\ \A a : DispatchOf(a) \in ToSet(jobs) <=> DispatchOf(a) \in ToSet(rest)
      /\ \A y \in ToSet(rest) : ~Clash(y, x)
  BY <1>1, TakeControl
<1>4. x \in JobSet
  BY <1>1, <1>3, NewJobs
<1>5. jobs' \in Seq(JobSet) /\ Ordered(jobs') /\ ToSet(jobs') = ToSet(rest) \cup {x}
  BY <1>2, <1>3, <1>4, Enqueue
<1>6. \A a : DispatchOf(a) \in ToSet(jobs) <=> DispatchOf(a) \in ToSet(jobs')
  <2>1. \A a : x # DispatchOf(a)
    BY <1>1 DEF DispatchOf, Control
  <2> QED
    BY <1>3, <1>5, <2>1
<1> HIDE DEF x, rest
<1>7. /\ verdict' = [verdict EXCEPT ![e] = v] /\ listening' = listening \ {e}
      /\ verdict \in [Executions -> Verdicts \cup {"none"}] /\ listening \subseteq Executions
      /\ closed' = closed /\ active' = active /\ cancelled' = cancelled /\ race' = race
      /\ sequence' = sequence /\ result' = result /\ handler' = handler
      /\ cancelResult' = cancelResult /\ closing' = closing /\ awaited' = awaited
  BY DEF BridgeInv, BridgeTypes
<1>8. BridgeTypes'
  <2>1. verdict' \in [Executions -> Verdicts \cup {"none"}] /\ listening' \subseteq Executions
    <3>1. v \in Verdicts \cup {"none"}
      OBVIOUS
    <3>2. verdict' \in [Executions -> Verdicts \cup {"none"}]
      <4>1. \A T, f : f \in [Executions -> T] /\ v \in T => [f EXCEPT ![e] = v] \in [Executions -> T]
        OBVIOUS
      <4> QED
        BY ZenonT(40), <1>7, <3>1, <4>1
    <3>3. listening' \subseteq Executions
      BY <1>7
    <3> QED
      BY <3>2, <3>3
  <2> QED
    BY <1>5, <1>7, <2>1 DEF BridgeInv, BridgeTypes
<1>9. JobsTrue'
  <2>1. ASSUME NEW y \in ToSet(rest) PROVE JobTrue(y)'
    <3>1. y \in JobSet /\ JobTrue(y)
      BY <1>2, <2>1
    <3>2. y[1] \in Control => y[2] # e /\ y[2] \in Executions
      BY <1>3, <2>1, <3>1, JobParts
    <3>3. y[1] = "dispatch" => y[2][1] # e
      BY <1>3, <2>1
    <3>4. y[1] \in Control => verdict'[y[2]] = verdict[y[2]] /\ (y[2] \in listening' <=> y[2] \in listening)
      BY <1>7, <3>2
    <3>5. y[1] = "dispatch" => (y[2][1] \in listening' <=> y[2][1] \in listening)
      BY <1>7, <3>3
    <3> QED
      BY <1>7, <3>1, <3>4, <3>5 DEF JobTrue, Control
  <2>2. JobTrue(x)'
    <3>1. verdict'[e] = v /\ e \notin listening' /\ e \in active'
      BY <1>3, <1>7
    <3> QED
      BY <1>1, <3>1 DEF JobTrue, Control
  <2> QED
    BY <1>5, <2>1, <2>2 DEF JobsTrue
<1>10. HandlersAsked'
  BY <1>6 DEF BridgeInv, HandlersAsked
<1>11. RaceTrue'
  BY <1>7 DEF BridgeInv, RaceTrue, Current
<1>12. ASSUME NEW f \in Executions PROVE RecordTrue(f)'
  <2>1. CASE f = e
    <3>1. verdict'[f] = v /\ f \notin listening'
      BY <1>7, <2>1, <1>3
    <3>2. /\ Told(records'[f], sequence'[f], handler', f)
          /\ \/ Len(records'[f]) = 2 * sequence'[f]
             \/ /\ Len(records'[f]) = 2 * sequence'[f] - 1
                /\ sequence'[f] # 0 /\ v = "failed"
      BY <1>7, <2>1
    <3> QED
      BY <3>1, <3>2 DEF RecordTrue
  <2>2. CASE f # e
    <3>1. /\ records'[f] = records[f] /\ verdict'[f] = verdict[f] /\ sequence' = sequence
          /\ handler' = handler /\ (f \in listening' <=> f \in listening)
      BY <1>7, <2>2
    <3>2. RecordTrue(f)
      BY DEF BridgeInv
    <3> QED
      BY <3>1, <3>2 DEF RecordTrue
  <2> QED
    BY <2>1, <2>2
<1>13. Answering'
  BY <1>3, <1>7 DEF BridgeInv, Answering, Verdicts
<1>14. IsFiniteSet(active') /\ Closing'
  BY <1>7 DEF BridgeInv, Closing
<1> QED
  BY <1>5, <1>8, <1>9, <1>10, <1>11, <1>12, <1>13, <1>14 DEF BridgeInv

\* What holds of an execution that is compiled or interpreted.
LEMMA AtWork ==
  ASSUME BridgeInv, NEW e, jobs # <<>>, jobs[1][1] \in {"prepared", "step"}, e = jobs[1][2]
  PROVE  /\ e \in Executions /\ e \in active /\ e \notin listening /\ verdict[e] = "none"
         /\ sequence[e] \in Nat /\ DOMAIN records = Executions
         /\ Told(records[e], sequence[e], handler, e) /\ Len(records[e]) = 2 * sequence[e]
<1>1. /\ jobs[1] \in JobSet /\ JobTrue(jobs[1]) /\ jobs[1][1] \in Control
  BY TakeJob DEF Control
<1>2. e \in Executions
  BY <1>1, JobParts
<1>3. e \in active /\ e \notin listening /\ verdict[e] = "none"
  BY <1>1 DEF JobTrue
<1>4. sequence[e] \in 0..MaxActions /\ DOMAIN records = Executions
  BY <1>2 DEF BridgeInv, BridgeTypes
<1>5. RecordTrue(e)
  BY <1>2 DEF BridgeInv
<1> QED
  BY <1>2, <1>3, <1>4, <1>5, DirectBridgeAssumption DEF RecordTrue

\* The run of an execution at work goes on, or ends, without an action.
LEMMA WorkStep ==
  ASSUME BridgeInv, jobs # <<>>, jobs[1][1] \in {"prepared", "step"},
         UNCHANGED <<closed, active, cancelled, listening, race, sequence, records, result, handler,
                     cancelResult, closing, awaited>>,
         \/ \E v \in Verdicts : Ends(jobs[1][2], v, Tail(jobs))
         \/ jobs' = Append(Tail(jobs), <<"step", jobs[1][2]>>) /\ UNCHANGED verdict
  PROVE  BridgeInv'
<1>1. PICK e : e = jobs[1][2]
  OBVIOUS
<1>2. /\ e \in Executions /\ e \notin listening /\ verdict[e] = "none"
      /\ DOMAIN records = Executions
      /\ Told(records[e], sequence[e], handler, e) /\ Len(records[e]) = 2 * sequence[e]
  BY <1>1, AtWork
<1>3. listening' = listening \ {e} /\ records' = records
  BY <1>2
<1>4. verdict \in [Executions -> Verdicts \cup {"none"}]
  BY DEF BridgeInv, BridgeTypes
<1>5. CASE jobs' = Append(Tail(jobs), <<"step", e>>) /\ UNCHANGED verdict
  <2>1. verdict' = [verdict EXCEPT ![e] = "none"]
    BY <1>2, <1>4, <1>5
  <2> QED
    BY <1>1, <1>2, <1>3, <1>5, <2>1, GoesOn
<1>6. ASSUME NEW v \in Verdicts, Ends(e, v, Tail(jobs))
      PROVE  BridgeInv'
  <2>1. verdict' = [verdict EXCEPT ![e] = v] /\ jobs' = Append(Tail(jobs), <<"settled", e>>)
    <3>1. Tail(jobs) \in Seq(JobSet)
      BY TakeJob
    <3>2. <<"settled", e>> \in JobSet
      BY <1>2, NewJobs DEF Control
    <3>3. Tail(jobs) \o <<<<"settled", e>>>> = Append(Tail(jobs), <<"settled", e>>)
      BY <3>1, <3>2, AppendIsConcat
    <3> QED
      BY <1>6, <3>3 DEF Ends
  <2> QED
    BY <1>1, <1>2, <1>3, <2>1, GoesOn
<1> QED
  BY <1>1, <1>5, <1>6

\* The action an execution waited for ends it, or lets it go on.
LEMMA ResumeStep == ASSUME BridgeInv, Resume PROVE BridgeInv'
<1>1. /\ jobs # <<>> /\ jobs[1][1] = "resume"
      /\ listening' = listening \ {jobs[1][2]}
      /\ UNCHANGED <<closed, active, cancelled, race, sequence, result, handler,
                     cancelResult, closing, awaited>>
      /\ ResumeFailed(jobs[1][2]) \/ ResumeCompleted(jobs[1][2])
  BY DEF Resume, Job, Subject
<1>2. PICK e : e = jobs[1][2]
  OBVIOUS
<1>3. /\ jobs[1] \in JobSet /\ JobTrue(jobs[1]) /\ Tail(jobs) \in Seq(JobSet)
  BY <1>1, TakeJob
<1>4. e \in Executions /\ e \in listening /\ race[e] # "open"
  BY <1>1, <1>2, <1>3, JobParts DEF JobTrue, Control
<1>5. /\ verdict[e] = "none" /\ sequence[e] # 0 /\ sequence[e] \in Nat
      /\ race[e] = "abandoned" \/ (race[e] \in Outcomes /\ handler[<<e, sequence[e]>>] = race[e])
      /\ verdict \in [Executions -> Verdicts \cup {"none"}] /\ DOMAIN records = Executions
  <2>1. sequence[e] \in 0..MaxActions
    BY <1>4 DEF BridgeInv, BridgeTypes
  <2>2. sequence[e] \in Nat
    BY <2>1, DirectBridgeAssumption
  <2> QED
    BY <1>4, <2>2 DEF BridgeInv, BridgeTypes, RaceTrue, Current
<1>6. Told(records[e], sequence[e], handler, e) /\ Len(records[e]) = 2 * sequence[e] - 1
  BY <1>4 DEF BridgeInv, RecordTrue
<1>7. ASSUME NEW o \in Outcomes, Resolve(e, o),
             o \in {"completed", "not_performed"} => handler[<<e, sequence[e]>>] = o
      PROVE  /\ DOMAIN records' = Executions
             /\ \A f \in Executions \ {e} : records'[f] = records[f]
             /\ Told(records'[e], sequence[e], handler, e) /\ Len(records'[e]) = 2 * sequence[e]
  <2>1. records' = [records EXCEPT ![e] = Append(records[e], Resolved(sequence[e], o))]
    BY <1>7 DEF Resolve
  <2>2. records'[e] = Append(records[e], Resolved(sequence[e], o))
    BY <1>4, <1>5, <2>1
  <2>3. /\ Told(Append(records[e], Resolved(sequence[e], o)), sequence[e], handler, e)
        /\ Len(Append(records[e], Resolved(sequence[e], o))) = 2 * sequence[e]
    <3>1. PICK r, n, h : r = records[e] /\ n = sequence[e] /\ h = handler
      OBVIOUS
    <3>2. /\ n \in Nat /\ n # 0 /\ Told(r, n, h, e) /\ Len(r) = 2 * n - 1
          /\ o \in {"completed", "not_performed"} => h[<<e, n>>] = o
      BY <1>5, <1>6, <1>7, <3>1
    <3>3. Told(Append(r, Resolved(n, o)), n, h, e) /\ Len(Append(r, Resolved(n, o))) = 2 * n
      BY <3>2, ToldResolve
    <3> QED
      BY <3>1, <3>3
  <2> QED
    BY <1>5, <2>1, <2>2, <2>3
<1>8. \A v \in Verdicts : Ends(e, v, Tail(jobs)) =>
        verdict' = [verdict EXCEPT ![e] = v] /\ jobs' = Append(Tail(jobs), <<"settled", e>>)
  <2>1. <<"settled", e>> \in JobSet
    BY <1>4, NewJobs DEF Control
  <2>2. Tail(jobs) \o <<<<"settled", e>>>> = Append(Tail(jobs), <<"settled", e>>)
    BY <1>3, <2>1, AppendIsConcat
  <2> QED
    BY <2>2 DEF Ends
<1>9. ASSUME NEW o \in Outcomes, Resolve(e, o),
             o \in {"completed", "not_performed"} => handler[<<e, sequence[e]>>] = o,
             NEW v \in Verdicts, Ends(e, v, Tail(jobs))
      PROVE  BridgeInv'
  BY <1>1, <1>2, <1>7, <1>8, <1>9, GoesOn
<1>10. CASE ResumeFailed(e)
  <2>1. Recorded(race[e]) \in Outcomes
        /\ (Recorded(race[e]) \in {"completed", "not_performed"}
              => handler[<<e, sequence[e]>>] = Recorded(race[e]))
    BY <1>5 DEF Recorded, Outcomes
  <2>2. PICK v \in Verdicts : Resolve(e, Recorded(race[e])) /\ Ends(e, v, Tail(jobs))
    BY <1>10 DEF ResumeFailed, Verdicts
  <2>3. PICK o : o = Recorded(race[e])
    OBVIOUS
  <2> QED
    BY <1>9, <2>1, <2>2, <2>3
<1>11. CASE ResumeCompleted(e)
  <2>1. handler[<<e, sequence[e]>>] = "completed"
    BY <1>5, <1>11 DEF ResumeCompleted
  <2>2. CASE Resolve(e, "unknown") /\ Ends(e, "failed", Tail(jobs))
    BY <1>9, <2>2 DEF Outcomes, Verdicts
  <2>3. CASE Resolve(e, "completed") /\ Ends(e, "failed", Tail(jobs))
    BY <1>9, <2>1, <2>3 DEF Outcomes, Verdicts
  <2>4. CASE UNCHANGED records /\ Ends(e, "failed", Tail(jobs))
    <3>1. verdict' = [verdict EXCEPT ![e] = "failed"] /\ jobs' = Append(Tail(jobs), <<"settled", e>>)
      BY <1>8, <2>4 DEF Verdicts
    <3>2. "failed" \in Verdicts /\ records' = records
      BY <2>4 DEF Verdicts
    <3> QED
      BY <1>1, <1>2, <1>5, <1>6, <3>1, <3>2, GoesOn
  <2>5. CASE /\ Resolve(e, "completed")
             /\ jobs' = Append(Tail(jobs), <<"step", e>>)
             /\ UNCHANGED verdict
    <3>1. verdict' = [verdict EXCEPT ![e] = "none"]
      BY <1>4, <1>5, <2>5
    <3>2. /\ DOMAIN records' = Executions
          /\ \A f \in Executions \ {e} : records'[f] = records[f]
          /\ Told(records'[e], sequence[e], handler, e) /\ Len(records'[e]) = 2 * sequence[e]
      BY <1>7, <2>1, <2>5 DEF Outcomes
    <3> QED
      BY <1>1, <1>2, <2>5, <3>1, <3>2, GoesOn
  <2> QED
    BY <1>11, <2>2, <2>3, <2>4, <2>5 DEF ResumeCompleted
<1> QED
  BY <1>1, <1>2, <1>10, <1>11

\* The facts about a state whose handlers and records stay.
LEMMA RecordsKept ==
  ASSUME BridgeInv, UNCHANGED <<records, sequence, handler, verdict, listening>>
  PROVE  \A f \in Executions : RecordTrue(f)'
BY DEF BridgeInv, RecordTrue

\* An action is requested and its dispatch queued.
LEMMA ActStep ==
  ASSUME BridgeInv, jobs # <<>>, jobs[1][1] = "step", StepActs(jobs[1][2]),
         UNCHANGED <<closed, active, cancelled, result, handler, cancelResult, closing, awaited>>
  PROVE  BridgeInv'
<1>1. PICK e : e = jobs[1][2]
  OBVIOUS
<1>2. /\ e \in Executions /\ e \in active /\ e \notin listening /\ verdict[e] = "none"
      /\ sequence[e] \in Nat /\ DOMAIN records = Executions
      /\ Told(records[e], sequence[e], handler, e) /\ Len(records[e]) = 2 * sequence[e]
  BY <1>1, AtWork
<1>3. PICK n : n = sequence[e] + 1
  OBVIOUS
<1> DEFINE a == <<e, n>>
           x == DispatchOf(a)
           rest == Tail(jobs)
<1>4. /\ n \in 1..MaxActions /\ a \in Actions /\ a[1] = e /\ a[2] = n
      /\ sequence' = [sequence EXCEPT ![e] = n]
      /\ records' = [records EXCEPT ![e] = Append(records[e], Requested(n))]
      /\ listening' = listening \cup {e}
      /\ race' = [race EXCEPT ![e] = "open"]
      /\ jobs' = Append(rest, x)
      /\ verdict' = verdict
  <2>1. n \in 1..MaxActions
    <3>1. sequence[e] < MaxActions
      BY <1>1 DEF StepActs
    <3> QED
      BY <1>2, <1>3, <3>1, DirectBridgeAssumption
  <2> QED
    BY <1>1, <1>2, <1>3, <2>1 DEF StepActs, Receive, DispatchOf, Actions
<1>5. /\ jobs[1][1] \in Control /\ rest \in Seq(JobSet) /\ Ordered(rest)
      /\ \A y \in ToSet(rest) : y \in JobSet /\ JobTrue(y)
  BY TakeJob DEF Control
<1>6. /\ \A y \in ToSet(rest) : y[1] \in Control => y[2] # e
      /\ \A y \in ToSet(rest) : y[1] = "dispatch" => y[2][1] # e
      /\ \A b : DispatchOf(b) \in ToSet(jobs) <=> DispatchOf(b) \in ToSet(rest)
  BY <1>1, <1>5, TakeControl
<1>7. /\ \A y \in ToSet(rest) : ~Clash(y, x)
  <2> SUFFICES ASSUME NEW y \in ToSet(rest), Clash(y, x) PROVE FALSE
    OBVIOUS
  <2>1. x[1] = "dispatch" /\ x[2] = a
    BY DEF DispatchOf
  <2>2. y[1] \in {"dispatch", "cancel"} /\ y[2] = a /\ y \in JobSet /\ JobTrue(y)
    BY <1>5, <2>1 DEF Clash, Control
  <2>3. CASE y[1] = "dispatch"
    BY <1>4, <1>6, <2>2, <2>3
  <2>4. CASE y[1] = "cancel"
    <3>1. n <= sequence[e]
      BY <1>4, <2>2, <2>4 DEF JobTrue
    <3> QED
      BY <1>2, <1>3, <3>1
  <2> QED
    BY <2>2, <2>3, <2>4
<1>8. x \in JobSet
  BY <1>4, NewJobs
<1>9. jobs' \in Seq(JobSet) /\ Ordered(jobs') /\ ToSet(jobs') = ToSet(rest) \cup {x}
  BY <1>4, <1>5, <1>7, <1>8, Enqueue
<1>10. \A b : DispatchOf(b) \in ToSet(jobs') <=> (DispatchOf(b) \in ToSet(jobs) \/ b = a)
  <2>1. \A b : DispatchOf(b) = DispatchOf(a) <=> b = a
    BY DEF DispatchOf
  <2> QED
    BY <1>6, <1>9, <2>1
<1>11. x[1] = "dispatch" /\ x[2] = a
  BY DEF DispatchOf
<1> HIDE DEF x, rest, a
<1>12. /\ sequence \in [Executions -> 0..MaxActions] /\ race \in [Executions -> Outcomes \cup {"open", "abandoned"}]
       /\ closed' = closed /\ active' = active /\ cancelled' = cancelled /\ result' = result
       /\ handler' = handler /\ cancelResult' = cancelResult /\ closing' = closing /\ awaited' = awaited
  BY DEF BridgeInv, BridgeTypes
<1>13. BridgeTypes'
  <2>1. /\ sequence' \in [Executions -> 0..MaxActions]
        /\ race' \in [Executions -> Outcomes \cup {"open", "abandoned"}]
        /\ DOMAIN records' = Executions
    BY <1>2, <1>4, <1>12
  <2>2. listening' \subseteq Executions
    BY <1>2, <1>4 DEF BridgeInv, BridgeTypes
  <2> QED
    BY <1>4, <1>9, <1>12, <2>1, <2>2 DEF BridgeInv, BridgeTypes
<1>14. /\ race'[e] = "open" /\ sequence'[e] = n /\ e \in listening'
       /\ \A f \in Executions \ {e} : /\ race'[f] = race[f] /\ sequence'[f] = sequence[f]
                                      /\ records'[f] = records[f]
                                      /\ f \in listening' <=> f \in listening
       /\ records'[e] = Append(records[e], Requested(n))
  BY <1>2, <1>4, <1>12
<1>15. JobsTrue'
  <2>1. ASSUME NEW y \in ToSet(rest) PROVE JobTrue(y)'
    <3>1. y \in JobSet /\ JobTrue(y)
      BY <1>5, <2>1
    <3>2. y[1] \in Control => y[2] # e /\ y[2] \in Executions
      BY <1>6, <2>1, <3>1, JobParts
    <3>3. y[1] = "dispatch" => y[2][1] # e /\ y[2][1] \in Executions
      BY <1>6, <2>1, <3>1, JobParts
    <3>4. y[1] = "cancel" => y[2][2] <= sequence'[y[2][1]]
      <4>1. y[1] = "cancel" => /\ y[2][1] \in Executions /\ y[2][2] \in Nat
                               /\ y[2][2] <= sequence[y[2][1]]
        BY <3>1, JobParts, DirectBridgeAssumption DEF JobTrue
      <4>2. \A f \in Executions : sequence[f] \in Nat /\ sequence[f] <= sequence'[f]
        BY <1>2, <1>3, <1>12, <1>14, DirectBridgeAssumption
      <4>3. \A f \in Executions : sequence'[f] \in Nat
        BY <1>13, DirectBridgeAssumption DEF BridgeTypes
      <4> QED
        BY <4>1, <4>2, <4>3
    <3>5. y[1] \in {"prepared", "step", "settled"} =>
            y[2] \in active' \ listening' /\ verdict'[y[2]] = verdict[y[2]]
      BY <1>4, <1>12, <1>14, <3>1, <3>2 DEF JobTrue, Control
    <3>6. y[1] = "resume" => y[2] \in listening' /\ race'[y[2]] # "open"
      BY <1>14, <3>1, <3>2 DEF JobTrue, Control
    <3>7. y[1] = "dispatch" => /\ y[2][1] \in listening' /\ race'[y[2][1]] = "open"
                               /\ y[2][2] = sequence'[y[2][1]]
      BY <1>14, <3>1, <3>3 DEF JobTrue
    <3> QED
      BY <1>12, <3>1, <3>4, <3>5, <3>6, <3>7 DEF JobTrue
  <2>2. JobTrue(x)'
    BY <1>4, <1>11, <1>14 DEF JobTrue, a, x, DispatchOf
  <2> QED
    BY <1>9, <2>1, <2>2 DEF JobsTrue
<1>16. HandlersAsked'
  <2> SUFFICES ASSUME NEW f \in Executions, NEW m \in 1..MaxActions
               PROVE  handler[<<f, m>>] = "none" <=> (m > sequence'[f] \/ DispatchOf(<<f, m>>) \in ToSet(jobs'))
    BY <1>12 DEF HandlersAsked
  <2>1. handler[<<f, m>>] = "none" <=> (m > sequence[f] \/ DispatchOf(<<f, m>>) \in ToSet(jobs))
    BY DEF BridgeInv, HandlersAsked
  <2>2. CASE f = e
    <3>1. DispatchOf(<<f, m>>) \in ToSet(jobs') <=> (DispatchOf(<<f, m>>) \in ToSet(jobs) \/ m = n)
      BY <1>10, <2>2 DEF a
    <3>2. m > sequence[f] <=> (m > n \/ m = n)
      BY <1>2, <1>3, <2>2
    <3> QED
      BY <1>14, <2>1, <2>2, <3>1, <3>2
  <2>3. CASE f # e
    BY <1>10, <1>14, <2>1, <2>3 DEF a
  <2> QED
    BY <2>2, <2>3
<1>17. RaceTrue'
  <2> SUFFICES ASSUME NEW f \in listening'
               PROVE  /\ f \in active' /\ verdict'[f] = "none" /\ sequence'[f] # 0
                      /\ \/ race'[f] \in {"open", "abandoned"}
                         \/ race'[f] \in Outcomes /\ handler'[<<f, sequence'[f]>>] = race'[f]
    BY DEF RaceTrue, Current
  <2>1. CASE f = e
    BY <1>2, <1>3, <1>4, <1>12, <1>14, <2>1
  <2>2. CASE f # e
    <3>1. f \in listening /\ f \in Executions
      BY <1>4, <2>2 DEF BridgeInv, BridgeTypes
    <3> QED
      BY <1>4, <1>12, <1>14, <2>2, <3>1 DEF BridgeInv, RaceTrue, Current
  <2> QED
    BY <2>1, <2>2
<1>18. ASSUME NEW f \in Executions PROVE RecordTrue(f)'
  <2>1. CASE f = e
    <3>1. /\ Told(Append(records[e], Requested(sequence[e] + 1)), sequence[e] + 1, handler, e)
          /\ Len(Append(records[e], Requested(sequence[e] + 1))) = 2 * (sequence[e] + 1) - 1
      BY <1>2, ToldRequest
    <3>2. Told(records'[e], n, handler', e) /\ Len(records'[e]) = 2 * n - 1 /\ n # 0
      BY <1>2, <1>3, <1>12, <1>14, <3>1
    <3> QED
      BY <1>14, <2>1, <3>2 DEF RecordTrue
  <2>2. CASE f # e
    <3>1. RecordTrue(f)
      BY DEF BridgeInv
    <3> QED
      BY <1>4, <1>12, <1>14, <2>2, <3>1 DEF RecordTrue
  <2> QED
    BY <2>1, <2>2
<1>19. Answering' /\ IsFiniteSet(active') /\ Closing'
  BY <1>4, <1>12 DEF BridgeInv, Answering, Closing
<1> QED
  BY <1>9, <1>13, <1>15, <1>16, <1>17, <1>18, <1>19 DEF BridgeInv

\* The interpreter's turn: every way Step has.
LEMMA StepStep == ASSUME BridgeInv, Step PROVE BridgeInv'
<1>1. /\ jobs # <<>> /\ jobs[1][1] = "step"
      /\ UNCHANGED <<closed, active, cancelled, result, handler, cancelResult, closing, awaited>>
  BY DEF Step, Job
<1>2. CASE StepActs(jobs[1][2])
  BY <1>1, <1>2, ActStep
<1>3. CASE StepCancelled(jobs[1][2]) \/ StepEnds(jobs[1][2])
  <2>1. UNCHANGED <<sequence, records, listening, race>>
    BY <1>3 DEF StepCancelled, StepEnds
  <2>2. \E v \in Verdicts : Ends(jobs[1][2], v, Tail(jobs))
    <3>1. CASE Ends(jobs[1][2], "cancelled", Tail(jobs))
      BY <3>1 DEF Verdicts
    <3>2. CASE \E v \in {"completed", "failed"} : Ends(jobs[1][2], v, Tail(jobs))
      BY <3>2 DEF Verdicts
    <3> QED
      BY <1>3, <3>1, <3>2 DEF StepCancelled, StepEnds
  <2> QED
    BY <1>1, <2>1, <2>2, WorkStep
<1> QED
  BY <1>2, <1>3 DEF Step, Subject

\* The end of the compilation.
LEMMA PreparedStep == ASSUME BridgeInv, Prepared PROVE BridgeInv'
<1>1. /\ jobs # <<>> /\ jobs[1][1] = "prepared"
      /\ UNCHANGED <<closed, active, cancelled, listening, race, sequence, records, result, handler,
                     cancelResult, closing, awaited>>
      /\ \/ Ends(jobs[1][2], "not_started", Tail(jobs))
         \/ jobs' = Append(Tail(jobs), <<"step", jobs[1][2]>>) /\ UNCHANGED verdict
  BY DEF Prepared, Job, Subject
<1>2. "not_started" \in Verdicts
  BY DEF Verdicts
<1> QED
  BY <1>1, <1>2, WorkStep

\* A step that changes little more than the queue, and adds no dispatch.
LEMMA QueueKept ==
  ASSUME BridgeInv, jobs' \in Seq(JobSet), Ordered(jobs'),
         \A y \in ToSet(jobs') : JobTrue(y)',
         \A a : DispatchOf(a) \in ToSet(jobs') <=> DispatchOf(a) \in ToSet(jobs),
         UNCHANGED <<active, listening, race, sequence, records, verdict, result, handler>>,
         closed' \in BOOLEAN, cancelled' \subseteq Executions, awaited' \subseteq Executions,
         cancelResult' \in [Cancels -> {"idle", "accepted", "not_active", "bridge_closed"}],
         closing' \in {"none", "waiting", "closed"}, Closing'
  PROVE  BridgeInv'
<1>1. BridgeTypes'
  BY DEF BridgeInv, BridgeTypes
<1>2. JobsTrue'
  BY DEF JobsTrue
<1>3. HandlersAsked'
  BY DEF BridgeInv, HandlersAsked
<1>4. RaceTrue' /\ Answering' /\ IsFiniteSet(active')
  BY DEF BridgeInv, RaceTrue, Answering, Current
<1>5. \A f \in Executions : RecordTrue(f)'
  BY RecordsKept
<1> QED
  BY <1>1, <1>2, <1>3, <1>4, <1>5 DEF BridgeInv

\* What a job says does not depend on the rest of the state.
LEMMA JobKept ==
  ASSUME NEW x, JobTrue(x), closed => closed',
         UNCHANGED <<active, listening, race, sequence, verdict, handler>>
  PROVE  JobTrue(x)'
BY DEF JobTrue

\* A job is taken and has no effect.
LEMMA Spent ==
  ASSUME BridgeInv, jobs # <<>>, jobs[1][1] # "dispatch", jobs' = Tail(jobs),
         UNCHANGED <<closed, active, cancelled, listening, race, sequence, records, verdict, result,
                     handler, cancelResult, awaited>>,
         closing' \in {"none", "waiting", "closed"}, Closing'
  PROVE  BridgeInv'
<1>1. /\ Tail(jobs) \in Seq(JobSet) /\ Ordered(Tail(jobs))
      /\ ToSet(jobs) = {jobs[1]} \cup ToSet(Tail(jobs))
      /\ \A y \in ToSet(Tail(jobs)) : JobTrue(y)
  BY TakeJob
<1>2. \A a : jobs[1] # DispatchOf(a)
  BY DEF DispatchOf
<1>3. \A a : DispatchOf(a) \in ToSet(jobs') <=> DispatchOf(a) \in ToSet(jobs)
  BY <1>1, <1>2
<1>4. \A y \in ToSet(jobs') : JobTrue(y)'
  BY <1>1, JobKept
<1>5. /\ closed' \in BOOLEAN /\ cancelled' \subseteq Executions /\ awaited' \subseteq Executions
      /\ cancelResult' \in [Cancels -> {"idle", "accepted", "not_active", "bridge_closed"}]
  BY DEF BridgeInv, BridgeTypes
<1>6. jobs' \in Seq(JobSet) /\ Ordered(jobs')
  BY <1>1
<1> QED
  BY <1>3, <1>4, <1>5, <1>6, QueueKept

\* close() resolves.
LEMMA ClosedStep == ASSUME BridgeInv, Closed PROVE BridgeInv'
<1>1. /\ jobs # <<>> /\ jobs[1][1] = "closed" /\ jobs' = Tail(jobs) /\ closing' = "closed"
      /\ UNCHANGED <<closed, active, cancelled, listening, race, sequence, records, verdict, result,
                     handler, cancelResult, awaited>>
  BY DEF Closed, Job
<1>2. closed /\ active = {}
  BY <1>1, TakeJob DEF JobTrue
<1>3. Closing'
  BY <1>1, <1>2 DEF Closing
<1> QED
  BY <1>1, <1>3, Spent

\* An outcome passes a promise.
LEMMA PassesStep == ASSUME BridgeInv, Passes PROVE BridgeInv'
<1>1. /\ jobs # <<>> /\ Len(jobs[1]) = 3 /\ jobs[1][3] > 0
      /\ jobs' = Append(Tail(jobs), [jobs[1] EXCEPT ![3] = @ - 1])
      /\ UNCHANGED <<closed, active, cancelled, listening, race, sequence, records, verdict, result,
                     handler, cancelResult, closing, awaited>>
  BY DEF Passes
<1>2. /\ jobs[1] \in JobSet /\ JobTrue(jobs[1]) /\ Tail(jobs) \in Seq(JobSet) /\ Ordered(Tail(jobs))
      /\ ToSet(jobs) = {jobs[1]} \cup ToSet(Tail(jobs))
      /\ \A y \in ToSet(Tail(jobs)) : JobTrue(y)
  BY <1>1, TakeJob
<1>3. PICK a, k : a = jobs[1][2] /\ k = jobs[1][3]
  OBVIOUS
<1>4. jobs[1][1] = "outcome" /\ a \in Actions /\ k \in 1..2 /\ jobs[1] = <<"outcome", a, k>>
  <2>1. jobs[1][1] \in {"dispatch", "outcome"}
    BY <1>1, <1>2, JobParts
  <2>2. jobs[1][1] = "outcome"
    BY <1>1, <1>2, <2>1, JobParts
  <2>3. jobs[1][2] \in Actions /\ jobs[1][3] \in 0..2 /\ jobs[1] = <<"outcome", jobs[1][2], jobs[1][3]>>
    BY <1>2, <2>2, JobParts
  <2> QED
    BY <1>1, <1>3, <2>2, <2>3
<1>5. PICK y : y = <<"outcome", a, k - 1>>
  OBVIOUS
<1>6. [jobs[1] EXCEPT ![3] = @ - 1] = y
  BY <1>4, <1>5
<1>7. y \in JobSet /\ y[1] = "outcome" /\ y[2] = a
  <2>1. k - 1 \in 0..2
    BY <1>4
  <2> QED
    BY <1>4, <1>5, <2>1, NewJobs
<1>8. \A z \in ToSet(Tail(jobs)) : ~Clash(z, y)
  BY <1>7 DEF Clash, Control
<1>9. jobs' \in Seq(JobSet) /\ Ordered(jobs') /\ ToSet(jobs') = ToSet(Tail(jobs)) \cup {y}
  BY <1>1, <1>2, <1>6, <1>7, <1>8, Enqueue
<1>10. \A b : y # DispatchOf(b) /\ jobs[1] # DispatchOf(b)
  BY <1>4, <1>7 DEF DispatchOf
<1>11. \A b : DispatchOf(b) \in ToSet(jobs') <=> DispatchOf(b) \in ToSet(jobs)
  BY <1>2, <1>9, <1>10
<1>12. JobTrue(y)
  BY <1>2, <1>3, <1>4, <1>7 DEF JobTrue, Control
<1>13. \A z \in ToSet(jobs') : JobTrue(z)'
  BY <1>1, <1>2, <1>9, <1>12, JobKept
<1>14. Closing'
  BY <1>1 DEF BridgeInv, Closing
<1> QED
  BY <1>1, <1>9, <1>11, <1>13, <1>14, QueueKept DEF BridgeInv, BridgeTypes

\* The race of the action an execution waits for is settled.
LEMMA RaceOver ==
  ASSUME BridgeInv, jobs # <<>>, jobs[1][1] \in {"outcome", "cancel"},
         NEW e \in listening, race[e] = "open", jobs[1][2] = Current(e),
         NEW by, \/ by = "abandoned" /\ jobs[1][1] = "cancel"
                 \/ by = handler[Current(e)] /\ jobs[1][1] = "outcome",
         race' = [race EXCEPT ![e] = by], jobs' = Append(Tail(jobs), <<"resume", e>>),
         UNCHANGED <<closed, active, cancelled, listening, sequence, records, verdict, result,
                     handler, cancelResult, closing, awaited>>
  PROVE  BridgeInv'
<1>1. /\ jobs[1] \in JobSet /\ JobTrue(jobs[1]) /\ Tail(jobs) \in Seq(JobSet) /\ Ordered(Tail(jobs))
      /\ ToSet(jobs) = {jobs[1]} \cup ToSet(Tail(jobs))
      /\ \A y \in ToSet(Tail(jobs)) : y \in JobSet /\ JobTrue(y) /\ ~Clash(jobs[1], y)
  BY TakeJob
<1>2. /\ e \in Executions /\ race \in [Executions -> Outcomes \cup {"open", "abandoned"}]
      /\ HandlersAsked
  BY DEF BridgeInv, BridgeTypes
<1>3. (by \in Outcomes /\ handler[Current(e)] = by) \/ by = "abandoned"
  BY <1>1 DEF JobTrue
<1>4. by # "open" /\ by \in Outcomes \cup {"open", "abandoned"}
  BY <1>3 DEF Outcomes
<1>5. jobs[1][2] \in Actions /\ Current(e)[1] = e /\ Current(e)[2] = sequence[e]
      /\ sequence[e] \in 1..MaxActions
  <2>1. jobs[1][2] \in Actions /\ jobs[1][2][2] \in 1..MaxActions
    BY <1>1, JobParts
  <2> QED
    BY <2>1 DEF Current
<1>6. ASSUME NEW y \in ToSet(Tail(jobs)), y[1] = "dispatch" PROVE y[2][1] # e
  <2> SUFFICES ASSUME y[2][1] = e PROVE FALSE
    OBVIOUS
  <2>1. y[2] = Current(e) /\ y = DispatchOf(Current(e))
    <3>1. y \in JobSet /\ JobTrue(y)
      BY <1>1, <1>6
    <3>2. y[2] = <<y[2][1], y[2][2]>> /\ y = DispatchOf(y[2])
      BY <1>6, <3>1, JobParts
    <3>3. y[2][2] = sequence[e]
      BY <1>6, <3>1 DEF JobTrue
    <3> QED
      BY <3>2, <3>3 DEF Current
  <2>2. CASE jobs[1][1] = "cancel"
    BY <1>1, <1>6, <2>1, <2>2 DEF Clash
  <2>3. CASE jobs[1][1] = "outcome"
    <3>1. handler[Current(e)] \in Outcomes
      BY <1>1, <2>3 DEF JobTrue
    <3>2. DispatchOf(Current(e)) \in ToSet(jobs)
      BY <1>1, <1>6, <2>1
    <3>3. handler[<<e, sequence[e]>>] = "none"
      BY <1>2, <1>5, <3>2 DEF HandlersAsked, Current
    <3> QED
      BY <3>1, <3>3 DEF Current, Outcomes
  <2> QED
    BY <2>2, <2>3
<1>7. ASSUME NEW y \in ToSet(Tail(jobs)), y[1] \in Control PROVE y[2] # e
  BY <1>1, <1>7 DEF JobTrue, Control
<1>8. PICK x : x = <<"resume", e>>
  OBVIOUS
<1>9. x \in JobSet /\ x[1] = "resume" /\ x[2] = e
  BY <1>2, <1>8, NewJobs DEF Control
<1>10. \A y \in ToSet(Tail(jobs)) : ~Clash(y, x)
  BY <1>7, <1>9 DEF Clash
<1>11. jobs' \in Seq(JobSet) /\ Ordered(jobs') /\ ToSet(jobs') = ToSet(Tail(jobs)) \cup {x}
  BY <1>1, <1>8, <1>9, <1>10, Enqueue
<1>12. \A b : x # DispatchOf(b) /\ jobs[1] # DispatchOf(b)
  BY <1>9 DEF DispatchOf
<1>13. \A b : DispatchOf(b) \in ToSet(jobs') <=> DispatchOf(b) \in ToSet(jobs)
  BY <1>1, <1>11, <1>12
<1>14. race'[e] = by /\ \A f \in Executions \ {e} : race'[f] = race[f]
  BY <1>2
<1>15. BridgeTypes'
  <2>1. race' \in [Executions -> Outcomes \cup {"open", "abandoned"}]
    BY <1>2, <1>4
  <2> QED
    BY <1>11, <2>1 DEF BridgeInv, BridgeTypes
<1>16. JobsTrue'
  <2>1. ASSUME NEW y \in ToSet(Tail(jobs)) PROVE JobTrue(y)'
    <3>1. y \in JobSet /\ JobTrue(y)
      BY <1>1, <2>1
    <3>2. y[1] \in Control => y[2] # e /\ y[2] \in Executions
      BY <1>7, <2>1, <3>1, JobParts
    <3>3. y[1] = "dispatch" => y[2][1] # e /\ y[2][1] \in Executions
      BY <1>6, <2>1, <3>1, JobParts
    <3>4. y[1] \in Control => race'[y[2]] = race[y[2]]
      BY <1>14, <3>2
    <3>5. y[1] = "dispatch" => race'[y[2][1]] = race[y[2][1]]
      BY <1>14, <3>3
    <3> QED
      BY <3>1, <3>4, <3>5 DEF JobTrue, Control
  <2>2. JobTrue(x)'
    BY <1>4, <1>9, <1>14 DEF JobTrue
  <2> QED
    BY <1>11, <2>1, <2>2 DEF JobsTrue
<1>17. HandlersAsked'
  BY <1>13 DEF BridgeInv, HandlersAsked
<1>18. RaceTrue'
  <2> SUFFICES ASSUME NEW f \in listening
               PROVE  /\ f \in active /\ verdict[f] = "none" /\ sequence[f] # 0
                      /\ \/ race'[f] \in {"open", "abandoned"}
                         \/ race'[f] \in Outcomes /\ handler[Current(f)] = race'[f]
    BY DEF RaceTrue, Current
  <2>1. /\ f \in active /\ verdict[f] = "none" /\ sequence[f] # 0 /\ f \in Executions
        /\ \/ race[f] \in {"open", "abandoned"}
           \/ race[f] \in Outcomes /\ handler[Current(f)] = race[f]
    BY DEF BridgeInv, RaceTrue, BridgeTypes
  <2>2. CASE f = e
    BY <1>3, <1>14, <2>1, <2>2
  <2>3. CASE f # e
    BY <1>14, <2>1, <2>3
  <2> QED
    BY <2>2, <2>3
<1>19. \A f \in Executions : RecordTrue(f)'
  BY RecordsKept
<1>20. Answering' /\ IsFiniteSet(active') /\ Closing'
  BY DEF BridgeInv, Answering, Closing
<1> QED
  BY <1>11, <1>15, <1>16, <1>17, <1>18, <1>19, <1>20 DEF BridgeInv

\* An outcome or a cancellation arrives.
LEMMA ArrivesStep == ASSUME BridgeInv, OutcomeArrives \/ CancelArrives PROVE BridgeInv'
<1>1. /\ jobs # <<>> /\ jobs[1][1] \in {"outcome", "cancel"}
      /\ UNCHANGED <<closed, active, cancelled, listening, sequence, records, verdict, result,
                     handler, cancelResult, closing, awaited>>
  BY DEF OutcomeArrives, CancelArrives, Job
<1>2. Closing' /\ closing' \in {"none", "waiting", "closed"}
  BY <1>1 DEF BridgeInv, Closing, BridgeTypes
<1>3. CASE jobs' = Tail(jobs) /\ UNCHANGED race
  BY <1>1, <1>2, <1>3, Spent
<1>4. ASSUME NEW by, ~Stale(Subject), RaceSettles(Subject[1], by),
             \/ by = "abandoned" /\ jobs[1][1] = "cancel"
             \/ by = handler[Subject] /\ jobs[1][1] = "outcome"
      PROVE  BridgeInv'
  <2>1. PICK e : e = Subject[1]
    OBVIOUS
  <2>2. Subject = Current(e) /\ e \in listening /\ jobs[1][2] = Current(e)
    BY <1>4, <2>1 DEF Stale, Subject
  <2>3. CASE race[e] = "open"
    <3>1. race' = [race EXCEPT ![e] = by] /\ jobs' = Append(Tail(jobs), <<"resume", e>>)
      BY <1>4, <2>1, <2>3 DEF RaceSettles
    <3>2. \/ by = "abandoned" /\ jobs[1][1] = "cancel"
          \/ by = handler[Current(e)] /\ jobs[1][1] = "outcome"
      BY <1>4, <2>2
    <3> QED
      BY <1>1, <2>2, <2>3, <3>1, <3>2, RaceOver
  <2>4. CASE race[e] # "open"
    BY <1>3, <1>4, <2>1, <2>4 DEF RaceSettles
  <2> QED
    BY <2>3, <2>4
<1>5. CASE OutcomeArrives
  <2>1. CASE Stale(Subject)
    BY <1>3, <1>5, <2>1 DEF OutcomeArrives
  <2>2. CASE ~Stale(Subject)
    <3>1. PICK by : by = handler[Subject]
      OBVIOUS
    <3>2. RaceSettles(Subject[1], by) /\ jobs[1][1] = "outcome"
      BY <1>5, <2>2, <3>1 DEF OutcomeArrives, Job
    <3> QED
      BY <1>4, <2>2, <3>1, <3>2
  <2> QED
    BY <2>1, <2>2
<1>6. CASE CancelArrives
  <2>1. CASE Stale(Subject)
    BY <1>3, <1>6, <2>1 DEF CancelArrives
  <2>2. CASE ~Stale(Subject)
    <3>1. RaceSettles(Subject[1], "abandoned") /\ jobs[1][1] = "cancel"
      BY <1>6, <2>2 DEF CancelArrives, Job
    <3> QED
      BY <1>4, <2>2, <3>1
  <2> QED
    BY <2>1, <2>2
<1> QED
  BY <1>5, <1>6

\* An action's handler is called, or settles: no other action's is touched.
LEMMA HandlerKept ==
  ASSUME BridgeInv, NEW a \in Actions, handler[a] \in {"none", "running"},
         NEW h \in Outcomes \cup {"running"}, handler' = [handler EXCEPT ![a] = h],
         UNCHANGED <<closed, active, cancelled, listening, race, sequence, records, verdict, result,
                     cancelResult, closing, awaited>>,
         jobs' \in Seq(JobSet), Ordered(jobs'),
         \A y \in ToSet(jobs') : y \in ToSet(jobs) \/ (y[1] = "outcome" /\ y[2] = a /\ h \in Outcomes),
         \A b \in Actions : b # a => (DispatchOf(b) \in ToSet(jobs) <=> DispatchOf(b) \in ToSet(jobs')),
         DispatchOf(a) \notin ToSet(jobs') /\ a[2] <= sequence[a[1]]
  PROVE  BridgeInv'
<1>1. handler \in [Actions -> Outcomes \cup {"none", "running"}]
  BY DEF BridgeInv, BridgeTypes
<1>2. handler'[a] = h /\ \A b \in Actions \ {a} : handler'[b] = handler[b]
  BY <1>1
<1>3. \A b \in Actions : handler[b] \in Outcomes => handler'[b] = handler[b]
  BY <1>2 DEF Outcomes
<1>4. BridgeTypes'
  <2>1. handler' \in [Actions -> Outcomes \cup {"none", "running"}]
    BY <1>1
  <2> QED
    BY <2>1 DEF BridgeInv, BridgeTypes
<1>5. JobsTrue'
  <2> SUFFICES ASSUME NEW y \in ToSet(jobs') PROVE JobTrue(y)'
    BY DEF JobsTrue
  <2>1. CASE y \in ToSet(jobs)
    <3>1. JobTrue(y) /\ y \in JobSet
      <4>1. jobs \in Seq(JobSet) /\ JobTrue(y)
        BY <2>1 DEF BridgeInv, BridgeTypes, JobsTrue
      <4> QED
        BY <2>1, <4>1, LenProperties DEF ToSet
    <3>2. y[1] = "outcome" => y[2] \in Actions
      BY <3>1, JobParts
    <3>3. y[1] = "outcome" => handler'[y[2]] \in Outcomes
      BY <1>3, <3>1, <3>2 DEF JobTrue
    <3> QED
      BY <3>1, <3>3 DEF JobTrue
  <2>2. CASE y[1] = "outcome" /\ y[2] = a /\ h \in Outcomes
    BY <1>2, <2>2 DEF JobTrue
  <2> QED
    BY <2>1, <2>2
<1>6. HandlersAsked'
  <2> SUFFICES ASSUME NEW e \in Executions, NEW n \in 1..MaxActions
               PROVE  handler'[<<e, n>>] = "none" <=> (n > sequence[e] \/ DispatchOf(<<e, n>>) \in ToSet(jobs'))
    BY DEF HandlersAsked
  <2>1. handler[<<e, n>>] = "none" <=> (n > sequence[e] \/ DispatchOf(<<e, n>>) \in ToSet(jobs))
    BY DEF BridgeInv, HandlersAsked
  <2>2. <<e, n>> \in Actions
    BY DEF Actions
  <2>3. CASE <<e, n>> = a
    <3>1. h # "none" /\ n <= sequence[e]
      BY <2>3 DEF Outcomes
    <3>2. sequence[e] \in Nat /\ n \in Nat
      BY DirectBridgeAssumption DEF BridgeInv, BridgeTypes
    <3>3. ~(n > sequence[e])
      BY <3>1, <3>2
    <3> QED
      BY <1>2, <2>3, <3>1, <3>3
  <2>4. CASE <<e, n>> # a
    BY <1>2, <2>1, <2>2, <2>4
  <2> QED
    BY <2>3, <2>4
<1>7. \A e \in listening : sequence[e] # 0 => Current(e) \in Actions
  <2> SUFFICES ASSUME NEW e \in listening, sequence[e] # 0 PROVE Current(e) \in Actions
    OBVIOUS
  <2>1. e \in Executions /\ sequence[e] \in 0..MaxActions
    BY DEF BridgeInv, BridgeTypes
  <2>2. sequence[e] \in 1..MaxActions
    BY <2>1, DirectBridgeAssumption
  <2> QED
    BY <2>1, <2>2 DEF Current, Actions
<1>8. RaceTrue'
  <2> SUFFICES ASSUME NEW e \in listening
               PROVE  /\ e \in active /\ verdict[e] = "none" /\ sequence[e] # 0
                      /\ \/ race[e] \in {"open", "abandoned"}
                         \/ race[e] \in Outcomes /\ handler'[Current(e)] = race[e]
    BY DEF RaceTrue, Current
  <2>1. /\ e \in active /\ verdict[e] = "none" /\ sequence[e] # 0
        /\ \/ race[e] \in {"open", "abandoned"}
           \/ race[e] \in Outcomes /\ handler[Current(e)] = race[e]
    BY DEF BridgeInv, RaceTrue
  <2> QED
    BY <1>3, <1>7, <2>1
<1>9. ASSUME NEW f \in Executions PROVE RecordTrue(f)'
  <2>1. RecordTrue(f) /\ sequence[f] \in 0..MaxActions /\ sequence[f] \in Nat
    BY DirectBridgeAssumption DEF BridgeInv, BridgeTypes
  <2>2. \A m \in 1..sequence[f] : <<f, m>> \in Actions
    <3>1. \A m \in 1..sequence[f] : m \in 1..MaxActions
      BY <2>1, DirectBridgeAssumption
    <3> QED
      BY <3>1 DEF Actions
  <2>3. \A m \in 1..sequence[f] : handler[<<f, m>>] \in Outcomes => handler'[<<f, m>>] = handler[<<f, m>>]
    BY <1>3, <2>2
  <2>4. Told(records[f], sequence[f], handler, f)
    BY <2>1 DEF RecordTrue
  <2>5. Told(records[f], sequence[f], handler', f)
    BY <2>1, <2>3, <2>4, ToldKept
  <2> QED
    BY <2>1, <2>5 DEF RecordTrue
<1>10. Answering' /\ IsFiniteSet(active') /\ Closing'
  BY DEF BridgeInv, Answering, Closing
<1> QED
  BY <1>4, <1>5, <1>6, <1>8, <1>9, <1>10 DEF BridgeInv

\* host.handleAction is called.
LEMMA DispatchStep == ASSUME BridgeInv, Dispatch PROVE BridgeInv'
<1>1. /\ jobs # <<>> /\ jobs[1][1] = "dispatch" /\ jobs' = Tail(jobs)
      /\ handler' = [handler EXCEPT ![jobs[1][2]] = "running"]
      /\ UNCHANGED <<closed, active, cancelled, listening, race, sequence, records, verdict, result,
                     cancelResult, closing, awaited>>
  BY DEF Dispatch, Job, Subject
<1>2. PICK a : a = jobs[1][2]
  OBVIOUS
<1>3. /\ jobs[1] \in JobSet /\ JobTrue(jobs[1]) /\ Tail(jobs) \in Seq(JobSet) /\ Ordered(Tail(jobs))
      /\ ToSet(jobs) = {jobs[1]} \cup ToSet(Tail(jobs))
      /\ \A y \in ToSet(Tail(jobs)) : ~Clash(jobs[1], y)
  BY <1>1, TakeJob
<1>4. /\ a \in Actions /\ a[1] \in Executions /\ a[2] \in 1..MaxActions /\ a = <<a[1], a[2]>>
      /\ jobs[1] = DispatchOf(a)
  BY <1>1, <1>2, <1>3, JobParts
<1>5. a[2] = sequence[a[1]] /\ handler[a] = "none"
  <2>1. a[2] = sequence[a[1]]
    BY <1>1, <1>2, <1>3 DEF JobTrue
  <2>2. DispatchOf(<<a[1], a[2]>>) \in ToSet(jobs)
    BY <1>3, <1>4
  <2>3. handler[<<a[1], a[2]>>] = "none"
    BY <1>4, <2>2 DEF BridgeInv, HandlersAsked
  <2> QED
    BY <1>4, <2>1, <2>3
<1>6. DispatchOf(a) \notin ToSet(Tail(jobs))
  <2>1. Clash(jobs[1], DispatchOf(a))
    BY <1>1, <1>2 DEF Clash, DispatchOf
  <2> QED
    BY <1>3, <2>1
<1>7. \A b \in Actions : b # a => (DispatchOf(b) \in ToSet(jobs) <=> DispatchOf(b) \in ToSet(Tail(jobs)))
  <2>1. \A b \in Actions : b # a => DispatchOf(b) # jobs[1]
    BY <1>4 DEF DispatchOf
  <2> QED
    BY <1>3, <2>1
<1>8. a[2] <= sequence[a[1]] /\ handler' = [handler EXCEPT ![a] = "running"]
  BY <1>1, <1>2, <1>4, <1>5, DirectBridgeAssumption
<1>9. \A y \in ToSet(jobs') : y \in ToSet(jobs)
  BY <1>1, <1>3
<1> QED
  BY <1>1, <1>3, <1>4, <1>5, <1>6, <1>7, <1>8, <1>9, HandlerKept

\* A handler settles.
LEMMA HandlerStep == ASSUME BridgeInv, NEW a \in Actions, HandlerSettles(a) PROVE BridgeInv'
<1>1. PICK o \in Outcomes : /\ handler' = [handler EXCEPT ![a] = o]
                            /\ jobs' = Append(jobs, <<"outcome", a, 2>>)
  BY DEF HandlerSettles
<1>2. /\ handler[a] = "running"
      /\ UNCHANGED <<closed, active, cancelled, listening, race, sequence, records, verdict, result,
                     cancelResult, closing, awaited>>
  BY DEF HandlerSettles
<1>3. PICK x : x = <<"outcome", a, 2>>
  OBVIOUS
<1>4. x \in JobSet /\ x[1] = "outcome" /\ x[2] = a
  <2>1. \A k \in 0..2 : <<"outcome", a, k>> \in JobSet
    BY NewJobs
  <2>2. 2 \in 0..2
    OBVIOUS
  <2> QED
    BY <1>3, <2>1, <2>2
<1>5. jobs \in Seq(JobSet) /\ Ordered(jobs)
  BY DEF BridgeInv, BridgeTypes
<1>6. \A y \in ToSet(jobs) : ~Clash(y, x)
  BY <1>4 DEF Clash, Control
<1>7. jobs' \in Seq(JobSet) /\ Ordered(jobs') /\ ToSet(jobs') = ToSet(jobs) \cup {x}
  BY <1>1, <1>3, <1>4, <1>5, <1>6, Enqueue
<1>8. \A b : x # DispatchOf(b)
  BY <1>4 DEF DispatchOf
<1>9. PICK e \in Executions, n \in 1..MaxActions : a = <<e, n>>
  BY DEF Actions
<1>10. a[2] <= sequence[a[1]] /\ DispatchOf(a) \notin ToSet(jobs)
  <2>1. handler[<<e, n>>] = "none" <=> (n > sequence[e] \/ DispatchOf(<<e, n>>) \in ToSet(jobs))
    BY DEF BridgeInv, HandlersAsked
  <2>2. ~(n > sequence[e]) /\ DispatchOf(a) \notin ToSet(jobs)
    BY <1>2, <1>9, <2>1
  <2>3. sequence[e] \in Nat /\ n \in Nat
    BY DirectBridgeAssumption DEF BridgeInv, BridgeTypes
  <2>4. n <= sequence[e]
    BY <2>2, <2>3
  <2> QED
    BY <1>9, <2>2, <2>4
<1>11. \A y \in ToSet(jobs') : y \in ToSet(jobs) \/ (y[1] = "outcome" /\ y[2] = a /\ o \in Outcomes)
  BY <1>4, <1>7
<1>12. /\ \A b \in Actions : b # a => (DispatchOf(b) \in ToSet(jobs) <=> DispatchOf(b) \in ToSet(jobs'))
       /\ DispatchOf(a) \notin ToSet(jobs')
  BY <1>7, <1>8, <1>10
<1> QED
  BY <1>1, <1>2, <1>7, <1>10, <1>11, <1>12, HandlerKept

\* The reaction of finally(): the execution is no longer active.
LEMMA SettledStep == ASSUME BridgeInv, Settled PROVE BridgeInv'
<1>1. /\ jobs # <<>> /\ jobs[1][1] = "settled"
      /\ UNCHANGED <<closed, cancelled, listening, race, sequence, records, verdict, handler,
                     cancelResult, closing, awaited>>
  BY DEF Settled, Job
<1>2. PICK e : e = jobs[1][2]
  OBVIOUS
<1>3. PICK t : t = IF closing = "waiting" /\ e \in awaited /\ AllSettled(awaited, result')
                     THEN <<<<"closed", 0>>>> ELSE <<>>
  OBVIOUS
<1>4. /\ active' = active \ {e} /\ result' = [result EXCEPT ![e] = verdict[e]]
      /\ jobs' = Tail(jobs) \o t
  BY <1>2, <1>3 DEF Settled, Subject
<1>5. /\ jobs[1] \in JobSet /\ JobTrue(jobs[1]) /\ Tail(jobs) \in Seq(JobSet) /\ Ordered(Tail(jobs))
      /\ ToSet(jobs) = {jobs[1]} \cup ToSet(Tail(jobs))
      /\ \A y \in ToSet(Tail(jobs)) : y \in JobSet /\ JobTrue(y)
  BY <1>1, TakeJob
<1>6. /\ e \in Executions /\ e \in active /\ e \notin listening /\ verdict[e] \in Verdicts
      /\ jobs[1][1] \in Control
  BY <1>1, <1>2, <1>5, JobParts DEF JobTrue, Control
<1>7. /\ \A y \in ToSet(Tail(jobs)) : y[1] \in Control => y[2] # e
      /\ \A a : DispatchOf(a) \in ToSet(jobs) <=> DispatchOf(a) \in ToSet(Tail(jobs))
  BY <1>1, <1>2, <1>6, TakeControl
<1>8. /\ result'[e] = verdict[e] /\ \A f \in Executions \ {e} : result'[f] = result[f]
      /\ result \in [Executions -> Verdicts \cup Refusals \cup {"idle", "pending"}]
  BY <1>4, <1>6 DEF BridgeInv, BridgeTypes
<1>9. t # <<>> => closed /\ active' = {}
  <2> SUFFICES ASSUME t # <<>>, NEW f \in active' PROVE closed /\ FALSE
    <3>1. closed \/ t = <<>>
      BY <1>3 DEF BridgeInv, Closing
    <3> QED
      BY <3>1
  <2>1. closing = "waiting" /\ AllSettled(awaited, result')
    BY <1>3
  <2>2. f \in active /\ f # e /\ f \in Executions /\ f \in awaited
    BY <1>4, <2>1 DEF BridgeInv, BridgeTypes, Closing
  <2>3. result'[f] = "pending"
    BY <1>8, <2>2 DEF BridgeInv, Answering
  <2> QED
    BY <2>1, <2>2, <2>3 DEF AllSettled
<1>10. /\ t \in Seq(JobSet) /\ Ordered(t) /\ ToSet(t) \subseteq {<<"closed", 0>>}
       /\ t = <<>> \/ ToSet(t) = {<<"closed", 0>>}
  <2>1. <<"closed", 0>> \in JobSet
    BY NewJobs
  <2>2. CASE t = <<>>
    BY <2>2 DEF Ordered, ToSet
  <2>3. CASE t = <<<<"closed", 0>>>>
    BY <2>1, <2>3 DEF Ordered, ToSet
  <2> QED
    BY <1>3, <2>2, <2>3
<1>11. jobs' \in Seq(JobSet) /\ Ordered(jobs') /\ ToSet(jobs') = ToSet(Tail(jobs)) \cup ToSet(t)
  <2>1. \A x \in ToSet(Tail(jobs)), y \in ToSet(t) : ~Clash(x, y)
    BY <1>10 DEF Clash, Control
  <2> QED
    BY <1>4, <1>5, <1>10, <2>1, ConcatOrdered
<1>12. \A a : DispatchOf(a) \in ToSet(jobs) <=> DispatchOf(a) \in ToSet(jobs')
  <2>1. \A a : DispatchOf(a) \notin ToSet(t)
    BY <1>10 DEF DispatchOf
  <2> QED
    BY <1>7, <1>11, <2>1
<1>13. BridgeTypes'
  <2>1. result' \in [Executions -> Verdicts \cup Refusals \cup {"idle", "pending"}]
    BY <1>4, <1>6, <1>8
  <2> QED
    BY <1>1, <1>4, <1>11, <2>1 DEF BridgeInv, BridgeTypes
<1>14. JobsTrue'
  <2>1. ASSUME NEW y \in ToSet(Tail(jobs)) PROVE JobTrue(y)'
    <3>1. JobTrue(y) /\ (y[1] \in Control => y[2] # e)
      BY <1>5, <1>7, <2>1
    <3>2. y[1] # "closed"
      BY <1>6, <3>1 DEF JobTrue
    <3> QED
      BY <1>1, <1>4, <3>1, <3>2 DEF JobTrue, Control
  <2>2. ASSUME NEW y \in ToSet(t) PROVE JobTrue(y)'
    <3>1. y = <<"closed", 0>> /\ t # <<>>
      BY <1>10, <2>2 DEF ToSet
    <3>2. closed' /\ active' = {} /\ y[1] = "closed"
      BY <1>1, <1>9, <3>1
    <3> QED
      BY <3>2 DEF JobTrue
  <2> QED
    BY <1>11, <2>1, <2>2 DEF JobsTrue
<1>15. HandlersAsked'
  BY <1>1, <1>12 DEF BridgeInv, HandlersAsked
<1>16. RaceTrue'
  BY <1>1, <1>4, <1>6 DEF BridgeInv, RaceTrue, Current
<1>17. \A f \in Executions : RecordTrue(f)'
  BY <1>1, RecordsKept
<1>18. Answering'
  <2> SUFFICES ASSUME NEW f \in Executions
               PROVE  /\ f \in active' <=> result'[f] = "pending"
                      /\ result'[f] = "idle" => verdict[f] = "none"
                      /\ result'[f] \in Verdicts => result'[f] = verdict[f]
    BY <1>1 DEF Answering
  <2>1. CASE f = e
    BY <1>4, <1>6, <1>8, <2>1 DEF Verdicts
  <2>2. CASE f # e
    BY <1>4, <1>8, <2>2 DEF BridgeInv, Answering
  <2> QED
    BY <2>1, <2>2
<1>19. IsFiniteSet(active')
  BY <1>4, FS_RemoveElement DEF BridgeInv
<1>20. Closing'
  BY <1>1, <1>4 DEF BridgeInv, Closing
<1> QED
  BY <1>11, <1>13, <1>14, <1>15, <1>16, <1>17, <1>18, <1>19, <1>20 DEF BridgeInv

\* An execution is refused or registered, and its run begins.
LEMMA ExecuteStep == ASSUME BridgeInv, NEW e \in Executions, Execute(e) PROVE BridgeInv'
<1>1. result[e] = "idle"
  BY DEF Execute
<1>2. /\ jobs \in Seq(JobSet) /\ Ordered(jobs) /\ JobsTrue
      /\ \A y \in ToSet(jobs) : y \in JobSet /\ JobTrue(y)
      /\ result \in [Executions -> Verdicts \cup Refusals \cup {"idle", "pending"}]
      /\ verdict \in [Executions -> Verdicts \cup {"none"}]
  <2>1. jobs \in Seq(JobSet) /\ Ordered(jobs) /\ JobsTrue
    BY DEF BridgeInv, BridgeTypes
  <2>2. \A y \in ToSet(jobs) : y \in JobSet
    BY <2>1, LenProperties DEF ToSet
  <2> QED
    BY <2>1, <2>2 DEF BridgeInv, BridgeTypes, JobsTrue
<1>3. e \notin active /\ e \notin listening /\ verdict[e] = "none"
  <2>1. e \notin active /\ verdict[e] = "none"
    BY <1>1 DEF BridgeInv, Answering
  <2>2. e \notin listening
    BY <2>1 DEF BridgeInv, RaceTrue
  <2> QED
    BY <2>1, <2>2
<1>4. ASSUME NEW why \in Refusals, Refuse(e, why) PROVE BridgeInv'
  <2>1. /\ result' = [result EXCEPT ![e] = why]
        /\ UNCHANGED <<jobs, closed, active, cancelled, listening, race, sequence, records,
                       verdict, handler, cancelResult, closing, awaited>>
    BY <1>4 DEF Refuse
  <2>2. result'[e] = why /\ \A f \in Executions \ {e} : result'[f] = result[f]
    BY <1>2, <2>1
  <2>3. BridgeTypes'
    <3>1. result' \in [Executions -> Verdicts \cup Refusals \cup {"idle", "pending"}]
      BY <1>2, <2>1
    <3> QED
      BY <2>1, <3>1 DEF BridgeInv, BridgeTypes
  <2>4. JobsTrue' /\ Ordered(jobs')
    <3>1. \A y \in ToSet(jobs') : JobTrue(y)'
      BY <1>2, <2>1, JobKept
    <3> QED
      BY <1>2, <2>1, <3>1 DEF JobsTrue
  <2>5. Answering'
    <3> SUFFICES ASSUME NEW f \in Executions
                 PROVE  /\ f \in active <=> result'[f] = "pending"
                        /\ result'[f] = "idle" => verdict[f] = "none"
                        /\ result'[f] \in Verdicts => result'[f] = verdict[f]
      BY <2>1 DEF Answering
    <3>1. CASE f = e
      BY <1>3, <2>2, <3>1 DEF Verdicts, Refusals
    <3>2. CASE f # e
      BY <2>2, <3>2 DEF BridgeInv, Answering
    <3> QED
      BY <3>1, <3>2
  <2>6. HandlersAsked' /\ RaceTrue' /\ IsFiniteSet(active') /\ Closing'
    BY <2>1 DEF BridgeInv, HandlersAsked, RaceTrue, Closing, Current
  <2>7. \A f \in Executions : RecordTrue(f)'
    BY <2>1, RecordsKept
  <2> QED
    BY <2>3, <2>4, <2>5, <2>6, <2>7 DEF BridgeInv
<1>5. ASSUME ~closed, NEW kind, NEW v,
             (kind \in {"prepared", "step"} /\ v = "none") \/ (kind = "settled" /\ v \in Verdicts),
             active' = active \cup {e}, result' = [result EXCEPT ![e] = "pending"],
             verdict' = [verdict EXCEPT ![e] = v], jobs' = Append(jobs, <<kind, e>>),
             UNCHANGED <<closed, cancelled, listening, race, sequence, records, handler,
                         cancelResult, closing, awaited>>
      PROVE  BridgeInv'
  <2>1. PICK x : x = <<kind, e>>
    OBVIOUS
  <2>2. kind \in Control /\ x \in JobSet /\ x[1] = kind /\ x[2] = e /\ kind # "dispatch"
    <3>1. kind \in Control /\ kind # "dispatch"
      BY <1>5 DEF Control
    <3> QED
      BY <2>1, <3>1, NewJobs
  <2>3. \A y \in ToSet(jobs) : y[1] \in Control => y[2] # e
    BY <1>2, <1>3 DEF JobTrue, Control
  <2>4. jobs' \in Seq(JobSet) /\ Ordered(jobs') /\ ToSet(jobs') = ToSet(jobs) \cup {x}
    <3>1. \A y \in ToSet(jobs) : ~Clash(y, x)
      BY <2>2, <2>3 DEF Clash
    <3> QED
      BY <1>2, <1>5, <2>1, <2>2, <3>1, Enqueue
  <2>5. \A a : DispatchOf(a) \in ToSet(jobs) <=> DispatchOf(a) \in ToSet(jobs')
    <3>1. \A a : x # DispatchOf(a)
      BY <2>2 DEF DispatchOf
    <3> QED
      BY <2>4, <3>1
  <2>6. /\ result'[e] = "pending" /\ \A f \in Executions \ {e} : result'[f] = result[f]
        /\ verdict'[e] = v /\ \A f \in Executions \ {e} : verdict'[f] = verdict[f]
    BY <1>2, <1>5
  <2>7. BridgeTypes'
    <3>1. result' \in [Executions -> Verdicts \cup Refusals \cup {"idle", "pending"}]
      BY <1>2, <1>5
    <3>2. verdict' \in [Executions -> Verdicts \cup {"none"}]
      BY <1>2, <1>5
    <3> QED
      BY <1>5, <2>4, <3>1, <3>2 DEF BridgeInv, BridgeTypes
  <2>8. JobsTrue'
    <3>1. ASSUME NEW y \in ToSet(jobs) PROVE JobTrue(y)'
      <4>1. y \in JobSet /\ JobTrue(y)
        BY <1>2, <3>1
      <4>2. y[1] \in Control => y[2] # e /\ y[2] \in Executions
        BY <2>3, <3>1, <4>1, JobParts
      <4>3. y[1] \in Control => verdict'[y[2]] = verdict[y[2]]
        BY <2>6, <4>2
      <4>4. y[1] # "closed"
        BY <1>5, <4>1 DEF JobTrue
      <4> QED
        BY <1>5, <4>1, <4>3, <4>4 DEF JobTrue, Control
    <3>2. JobTrue(x)'
      BY <1>3, <1>5, <2>2, <2>6 DEF JobTrue
    <3> QED
      BY <2>4, <3>1, <3>2 DEF JobsTrue
  <2>9. HandlersAsked'
    BY <1>5, <2>5 DEF BridgeInv, HandlersAsked
  <2>10. RaceTrue'
    <3> SUFFICES ASSUME NEW f \in listening
                 PROVE  /\ f \in active' /\ verdict'[f] = "none" /\ sequence[f] # 0
                        /\ \/ race[f] \in {"open", "abandoned"}
                           \/ race[f] \in Outcomes /\ handler[Current(f)] = race[f]
      BY <1>5 DEF RaceTrue, Current
    <3>1. f \in Executions /\ f # e
      BY <1>3 DEF BridgeInv, BridgeTypes
    <3> QED
      BY <1>5, <2>6, <3>1 DEF BridgeInv, RaceTrue
  <2>11. ASSUME NEW f \in Executions PROVE RecordTrue(f)'
    <3>1. RecordTrue(f)
      BY DEF BridgeInv
    <3>2. CASE f = e
      <4>1. Told(records[e], sequence[e], handler, e) /\ Len(records[e]) = 2 * sequence[e] /\ e \notin listening
        BY <1>3, <3>1, <3>2 DEF RecordTrue
      <4> QED
        BY <1>5, <3>2, <4>1 DEF RecordTrue
    <3>3. CASE f # e
      BY <1>5, <2>6, <3>1, <3>3 DEF RecordTrue
    <3> QED
      BY <3>2, <3>3
  <2>12. Answering'
    <3> SUFFICES ASSUME NEW f \in Executions
                 PROVE  /\ f \in active' <=> result'[f] = "pending"
                        /\ result'[f] = "idle" => verdict'[f] = "none"
                        /\ result'[f] \in Verdicts => result'[f] = verdict'[f]
      BY DEF Answering
    <3>1. CASE f = e
      BY <1>5, <2>6, <3>1 DEF Verdicts
    <3>2. CASE f # e
      BY <1>5, <2>6, <3>2 DEF BridgeInv, Answering
    <3> QED
      BY <3>1, <3>2
  <2>13. IsFiniteSet(active')
    BY <1>5, FS_AddElement DEF BridgeInv
  <2>14. Closing'
    BY <1>5 DEF BridgeInv, Closing
  <2> QED
    BY <2>4, <2>7, <2>8, <2>9, <2>10, <2>11, <2>12, <2>13, <2>14 DEF BridgeInv
<1>6. CASE /\ ~closed /\ ActiveUnder(InvocationOf[e]) = {}
           /\ active' = active \cup {e}
           /\ result' = [result EXCEPT ![e] = "pending"]
           /\ \/ Ends(e, "not_started", jobs)
              \/ \E next \in {"prepared", "step"} :
                   jobs' = Append(jobs, <<next, e>>) /\ UNCHANGED verdict
           /\ UNCHANGED <<closed, cancelled, listening, race, sequence, records,
                          handler, cancelResult, closing, awaited>>
  <2>1. CASE Ends(e, "not_started", jobs)
    <3>1. <<"settled", e>> \in JobSet
      BY NewJobs DEF Control
    <3>2. jobs \o <<<<"settled", e>>>> = Append(jobs, <<"settled", e>>)
      BY <1>2, <3>1, AppendIsConcat
    <3>3. verdict' = [verdict EXCEPT ![e] = "not_started"] /\ jobs' = Append(jobs, <<"settled", e>>)
      BY <2>1, <3>2 DEF Ends
    <3>4. "not_started" \in Verdicts
      BY DEF Verdicts
    <3> QED
      BY <1>5, <1>6, <3>3, <3>4
  <2>2. CASE \E next \in {"prepared", "step"} : jobs' = Append(jobs, <<next, e>>) /\ UNCHANGED verdict
    <3>1. PICK next \in {"prepared", "step"} : jobs' = Append(jobs, <<next, e>>) /\ UNCHANGED verdict
      BY <2>2
    <3>2. verdict' = [verdict EXCEPT ![e] = "none"]
      BY <1>2, <1>3, <3>1
    <3> QED
      BY <1>5, <1>6, <3>1, <3>2
  <2> QED
    BY <1>6, <2>1, <2>2
<1>7. CASE \E why \in Refusals : Refuse(e, why)
  BY <1>4, <1>7
<1> QED
  <2>1. "bridge_closed" \in Refusals /\ "duplicate" \in Refusals /\ "invalid_request" \in Refusals
    BY DEF Refusals
  <2> QED
    BY <1>6, <1>7, <2>1 DEF Execute

----------------------------------------------------------------------------
(* cancel() and close().                                                   *)

\* A finite set has its elements in an order, the one CancelJobs takes.
LEMMA OrderExists ==
  ASSUME NEW es, IsFiniteSet(es)
  PROVE  /\ Cardinality(es) \in Nat
         /\ \E s \in [1..Cardinality(es) -> es] : \A i, j \in DOMAIN s : i # j => s[i] # s[j]
<1>1. Cardinality(es) \in Nat /\ ExistsBijection(1..Cardinality(es), es)
  BY FS_CardinalityType
<1>2. PICK s : s \in Bijection(1..Cardinality(es), es)
  BY <1>1 DEF ExistsBijection
<1>3. s \in [1..Cardinality(es) -> es] /\ \A i, j \in DOMAIN s : i # j => s[i] # s[j]
  BY <1>2 DEF Bijection, Injection, IsInjective
<1> QED
  BY <1>1, <1>3

\* The jobs that cancel executions.
LEMMA CancelLaws ==
  ASSUME NEW es \in SUBSET Executions, IsFiniteSet(es), \A e \in es : sequence[e] \in 1..MaxActions
  PROVE  /\ CancelJobs(es) \in Seq(JobSet) /\ Ordered(CancelJobs(es))
         /\ \A y \in ToSet(CancelJobs(es)) : \E e \in es : y = <<"cancel", Current(e)>>
<1> DEFINE n == Cardinality(es)
           order == CHOOSE s \in [1..n -> es] : \A i, j \in DOMAIN s : i # j => s[i] # s[j]
           js == [i \in 1..n |-> <<"cancel", Current(order[i])>>]
<1>1. n \in Nat /\ order \in [1..n -> es]
  BY OrderExists
<1>2. CancelJobs(es) = js
  BY DEF CancelJobs
<1> HIDE DEF order, n
<1>3. \A i \in 1..n : order[i] \in es /\ js[i] = <<"cancel", Current(order[i])>> /\ js[i] \in JobSet
  <2> SUFFICES ASSUME NEW i \in 1..n
               PROVE  order[i] \in es /\ js[i] = <<"cancel", Current(order[i])>> /\ js[i] \in JobSet
    OBVIOUS
  <2>1. order[i] \in es /\ js[i] = <<"cancel", Current(order[i])>>
    BY <1>1
  <2>2. Current(order[i]) \in Actions
    BY <2>1 DEF Current, Actions
  <2> QED
    BY <2>1, <2>2, NewJobs
<1>4. js \in [1..n -> JobSet]
  BY <1>3
<1> HIDE DEF js
<1>5. js \in Seq(JobSet) /\ Len(js) = n /\ DOMAIN js = 1..n
  BY <1>1, <1>4
<1>6. Ordered(js)
  BY <1>3, <1>5 DEF Ordered, Clash, Control
<1>7. \A y \in ToSet(js) : \E e \in es : y = <<"cancel", Current(e)>>
  BY <1>3, <1>5 DEF ToSet
<1> QED
  BY <1>2, <1>5, <1>6, <1>7

\* Cancellations, and the end of close(), behind the other jobs.
LEMMA CancelsQueued ==
  ASSUME BridgeInv, NEW es \in SUBSET listening,
         NEW t, t = <<>> \/ (t = <<<<"closed", 0>>>> /\ active = {} /\ closed'),
         jobs' = jobs \o CancelJobs(es) \o t,
         UNCHANGED <<active, listening, race, sequence, records, verdict, result, handler>>,
         closed => closed', closed' \in BOOLEAN, cancelled' \subseteq Executions, awaited' \subseteq Executions,
         cancelResult' \in [Cancels -> {"idle", "accepted", "not_active", "bridge_closed"}],
         closing' \in {"none", "waiting", "closed"}, Closing'
  PROVE  BridgeInv'
<1>1. PICK c : c = CancelJobs(es)
  OBVIOUS
<1>2. /\ c \in Seq(JobSet) /\ Ordered(c)
      /\ \A y \in ToSet(c) : \E e \in es : y = <<"cancel", Current(e)>>
  <2>1. es \in SUBSET Executions /\ IsFiniteSet(es)
    <3>1. es \in SUBSET active /\ IsFiniteSet(active) /\ listening \subseteq Executions
      BY DEF BridgeInv, BridgeTypes, RaceTrue
    <3> QED
      BY <3>1, FS_Subset
  <2>2. \A e \in es : sequence[e] \in 1..MaxActions
    <3>1. \A e \in es : sequence[e] # 0 /\ sequence[e] \in 0..MaxActions
      BY DEF BridgeInv, RaceTrue, BridgeTypes
    <3> QED
      BY <3>1, DirectBridgeAssumption
  <2> QED
    BY <1>1, <2>1, <2>2, CancelLaws
<1>3. /\ jobs \in Seq(JobSet) /\ Ordered(jobs) /\ \A y \in ToSet(jobs) : JobTrue(y)
  BY DEF BridgeInv, BridgeTypes, JobsTrue
<1>4. t \in Seq(JobSet) /\ Ordered(t) /\ \A y \in ToSet(t) : y = <<"closed", 0>> /\ active = {} /\ closed'
  <2>1. CASE t = <<>>
    BY <2>1 DEF Ordered, ToSet
  <2>2. CASE t = <<<<"closed", 0>>>> /\ active = {} /\ closed'
    BY <2>2, NewJobs DEF Ordered, ToSet
  <2> QED
    BY <2>1, <2>2
<1>5. /\ jobs \o c \in Seq(JobSet) /\ Ordered(jobs \o c) /\ ToSet(jobs \o c) = ToSet(jobs) \cup ToSet(c)
  <2>1. \A x \in ToSet(jobs), y \in ToSet(c) : ~Clash(x, y)
    BY <1>2 DEF Clash, Control
  <2> QED
    BY <1>2, <1>3, <2>1, ConcatOrdered
<1>6. /\ jobs' \in Seq(JobSet) /\ Ordered(jobs')
      /\ ToSet(jobs') = ToSet(jobs) \cup ToSet(c) \cup ToSet(t)
  <2>1. \A x \in ToSet(jobs \o c), y \in ToSet(t) : ~Clash(x, y)
    BY <1>4 DEF Clash, Control
  <2>2. PICK s : s = jobs \o c
    OBVIOUS
  <2>3. s \o t \in Seq(JobSet) /\ Ordered(s \o t) /\ ToSet(s \o t) = ToSet(s) \cup ToSet(t)
    BY <1>4, <1>5, <2>1, <2>2, ConcatOrdered
  <2>4. jobs' = s \o t
    BY <1>1, <2>2
  <2> QED
    BY <1>5, <2>2, <2>3, <2>4
<1>7. \A y \in ToSet(jobs') : JobTrue(y)'
  <2>1. \A y \in ToSet(jobs) : JobTrue(y)'
    BY <1>3, JobKept
  <2>2. ASSUME NEW y \in ToSet(c) PROVE JobTrue(y)'
    <3>1. PICK e \in es : y = <<"cancel", Current(e)>>
      BY <1>2, <2>2
    <3>2. sequence[e] \in Nat
      BY DirectBridgeAssumption DEF BridgeInv, BridgeTypes
    <3>3. y[1] = "cancel" /\ y[2][2] = sequence'[y[2][1]] /\ sequence'[y[2][1]] \in Nat
      BY <3>1, <3>2 DEF Current
    <3> QED
      BY <3>3 DEF JobTrue
  <2>3. ASSUME NEW y \in ToSet(t) PROVE JobTrue(y)'
    BY <1>4, <2>3 DEF JobTrue
  <2> QED
    BY <1>6, <2>1, <2>2, <2>3
<1>8. \A a : DispatchOf(a) \in ToSet(jobs') <=> DispatchOf(a) \in ToSet(jobs)
  <2>1. \A a : DispatchOf(a) \notin ToSet(c) /\ DispatchOf(a) \notin ToSet(t)
    BY <1>2, <1>4 DEF DispatchOf
  <2> QED
    BY <1>6, <2>1
<1> QED
  BY <1>6, <1>7, <1>8, QueueKept

\* cancel().
LEMMA CancelStep == ASSUME BridgeInv, NEW c \in Cancels, Cancel(c) PROVE BridgeInv'
<1> DEFINE es == ActiveUnder(CancelOf[c])
<1>1. /\ UNCHANGED <<closed, active, listening, race, sequence, records, verdict, result,
                     handler, closing, awaited>>
      /\ cancelResult' \in [Cancels -> {"idle", "accepted", "not_active", "bridge_closed"}]
  BY DEF Cancel, BridgeInv, BridgeTypes
<1>2. Closing' /\ closing' \in {"none", "waiting", "closed"} /\ awaited' \subseteq Executions /\ closed' \in BOOLEAN
  BY <1>1 DEF BridgeInv, Closing, BridgeTypes
<1>3. CASE closed
  <2>1. cancelled' = cancelled /\ jobs' = jobs
    BY <1>3 DEF Cancel
  <2>2. jobs' \in Seq(JobSet) /\ Ordered(jobs') /\ cancelled' \subseteq Executions
    BY <2>1 DEF BridgeInv, BridgeTypes
  <2>3. \A y \in ToSet(jobs') : JobTrue(y)'
    BY <1>1, <2>1, JobKept DEF BridgeInv, JobsTrue
  <2>4. \A a : DispatchOf(a) \in ToSet(jobs') <=> DispatchOf(a) \in ToSet(jobs)
    BY <2>1
  <2> QED
    BY <1>1, <1>2, <2>2, <2>3, <2>4, QueueKept
<1>4. CASE ~closed
  <2>1. /\ cancelled' = cancelled \cup es
        /\ jobs' = jobs \o CancelJobs((es \cap listening) \ cancelled)
    BY <1>4 DEF Cancel
  <2>2. cancelled' \subseteq Executions
    BY <2>1 DEF BridgeInv, BridgeTypes, ActiveUnder
  <2>3. PICK fs : fs = (es \cap listening) \ cancelled
    OBVIOUS
  <2>4. fs \in SUBSET listening
    BY <2>3
  <2>5. CancelJobs(fs) \in Seq(JobSet)
    <3>1. fs \in SUBSET Executions /\ IsFiniteSet(fs)
      <4>1. fs \in SUBSET active /\ IsFiniteSet(active) /\ listening \subseteq Executions
        BY <2>4 DEF BridgeInv, BridgeTypes, RaceTrue
      <4> QED
        BY <2>4, <4>1, FS_Subset
    <3>2. \A e \in fs : sequence[e] \in 1..MaxActions
      <4>1. \A e \in fs : sequence[e] # 0 /\ sequence[e] \in 0..MaxActions
        BY <2>4 DEF BridgeInv, RaceTrue, BridgeTypes
      <4> QED
        BY <4>1, DirectBridgeAssumption
    <3> QED
      BY <3>1, <3>2, CancelLaws
  <2>6. jobs' = jobs \o CancelJobs(fs) \o <<>>
    <3>1. jobs \in Seq(JobSet)
      BY DEF BridgeInv, BridgeTypes
    <3>2. PICK s : s = jobs \o CancelJobs(fs)
      OBVIOUS
    <3>3. s \in Seq(JobSet)
      BY <2>5, <3>1, <3>2, ConcatProperties
    <3>4. s \o <<>> = s
      BY <3>3
    <3> QED
      BY <2>1, <2>3, <3>2, <3>4
  <2>7. closed => closed'
    BY <1>1
  <2>8. PICK t : t = <<>>
    OBVIOUS
  <2>9. jobs' = jobs \o CancelJobs(fs) \o t
    BY <2>6, <2>8
  <2> QED
    BY <1>1, <1>2, <2>2, <2>4, <2>7, <2>8, <2>9, CancelsQueued
<1> QED
  BY <1>3, <1>4

\* close().
LEMMA CloseStep == ASSUME BridgeInv, Close PROVE BridgeInv'
<1>1. /\ closing = "none" /\ closed' = TRUE /\ closing' = "waiting"
      /\ cancelled' = cancelled \cup active /\ awaited' = active
      /\ jobs' = jobs \o CancelJobs((active \cap listening) \ cancelled)
                      \o (IF active = {} THEN <<<<"closed", 0>>>> ELSE <<>>)
      /\ UNCHANGED <<active, listening, race, sequence, records, verdict, result, handler, cancelResult>>
  BY DEF Close
<1>2. PICK fs, t : /\ fs = (active \cap listening) \ cancelled
                   /\ t = IF active = {} THEN <<<<"closed", 0>>>> ELSE <<>>
  OBVIOUS
<1>3. fs \in SUBSET listening /\ jobs' = jobs \o CancelJobs(fs) \o t
  BY <1>1, <1>2
<1>4. t = <<>> \/ (t = <<<<"closed", 0>>>> /\ active = {} /\ closed')
  BY <1>1, <1>2
<1>5. /\ closed' \in BOOLEAN /\ cancelled' \subseteq Executions /\ awaited' \subseteq Executions
      /\ cancelResult' \in [Cancels -> {"idle", "accepted", "not_active", "bridge_closed"}]
      /\ closing' \in {"none", "waiting", "closed"} /\ closed => closed'
  BY <1>1 DEF BridgeInv, BridgeTypes
<1>6. Closing'
  BY <1>1 DEF Closing
<1> QED
  BY <1>1, <1>3, <1>4, <1>5, <1>6, CancelsQueued

----------------------------------------------------------------------------
(* The invariant, and what follows from it.                                *)

\* Every step keeps the invariant.
LEMMA BridgeNext == BridgeInv /\ [Next]_vars => BridgeInv'
<1> SUFFICES ASSUME BridgeInv, [Next]_vars PROVE BridgeInv'
  OBVIOUS
<1>1. CASE Prepared
  BY <1>1, PreparedStep
<1>2. CASE Step
  BY <1>2, StepStep
<1>3. CASE Dispatch
  BY <1>3, DispatchStep
<1>4. CASE Passes
  BY <1>4, PassesStep
<1>5. CASE OutcomeArrives \/ CancelArrives
  BY <1>5, ArrivesStep
<1>6. CASE Resume
  BY <1>6, ResumeStep
<1>7. CASE Settled
  BY <1>7, SettledStep
<1>8. CASE Closed
  BY <1>8, ClosedStep
<1>9. CASE \E e \in Executions : Execute(e)
  BY <1>9, ExecuteStep
<1>10. CASE \E a \in Actions : HandlerSettles(a)
  BY <1>10, HandlerStep
<1>11. CASE \E c \in Cancels : Cancel(c)
  BY <1>11, CancelStep
<1>12. CASE Close
  BY <1>12, CloseStep
<1>13. CASE UNCHANGED vars
  <2>1. UNCHANGED <<jobs, closed, active, cancelled, listening, race, sequence, records,
                    verdict, result, handler, cancelResult, closing, awaited>>
    BY <1>13 DEF vars
  <2>2. \A y \in ToSet(jobs') : JobTrue(y)'
    BY <2>1, JobKept DEF BridgeInv, JobsTrue
  <2>3. Closing' /\ BridgeTypes' /\ Ordered(jobs')
    BY <2>1 DEF BridgeInv, Closing, BridgeTypes
  <2> QED
    BY <2>1, <2>2, <2>3, QueueKept DEF BridgeTypes
<1> QED
  BY <1>1, <1>2, <1>3, <1>4, <1>5, <1>6, <1>7, <1>8, <1>9, <1>10, <1>11, <1>12, <1>13
  DEF Next, Microtask

\* The invariant holds of every behaviour.
LEMMA BridgeInvariant == Spec => []BridgeInv
BY BridgeInit, BridgeNext, PTL DEF Spec

\* What is said of the answers follows from the invariant.
LEMMA AnsweredFromInv == BridgeInv => AnsweredIsOver
BY DEF BridgeInv, BridgeTypes, Answering, Closing, AnsweredIsOver

\* The types follow from the invariant.
LEMMA TypesFromInv == BridgeInv => TypeOK
<1> SUFFICES ASSUME BridgeInv PROVE TypeOK
  OBVIOUS
<1>1. \A i \in DOMAIN jobs : jobs[i][1] \in Kinds
  <2> SUFFICES ASSUME NEW i \in DOMAIN jobs PROVE jobs[i][1] \in Kinds
    OBVIOUS
  <2>1. jobs[i] \in JobSet
    BY LenProperties DEF BridgeInv, BridgeTypes
  <2> QED
    BY <2>1, JobParts
<1> QED
  BY <1>1 DEF BridgeInv, BridgeTypes, TypeOK

\* The places of the records: two for each action.
LEMMA Places ==
  ASSUME NEW i \in Nat, i # 0
  PROVE  \E m \in Nat \ {0} : /\ (i + 1) \div 2 = m
                              /\ (i % 2 = 1 /\ i = 2 * m - 1) \/ (i % 2 = 0 /\ i = 2 * m)
<1>1. i % 2 \in 0..1 /\ i \div 2 \in Nat /\ i = 2 * (i \div 2) + (i % 2)
  OBVIOUS
<1>2. CASE i % 2 = 1
  <2>1. PICK m : m = (i \div 2) + 1
    OBVIOUS
  <2>2. m \in Nat \ {0} /\ i = 2 * m - 1 /\ (i + 1) \div 2 = m
    BY <1>1, <1>2, <2>1
  <2> QED
    BY <1>2, <2>2
<1>3. CASE i % 2 = 0
  <2>1. PICK m : m = i \div 2
    OBVIOUS
  <2>2. m \in Nat \ {0} /\ i = 2 * m /\ (i + 1) \div 2 = m
    BY <1>1, <1>3, <2>1
  <2> QED
    BY <1>3, <2>2
<1> QED
  BY <1>1, <1>2, <1>3

\* What the invariant says of one record, by its place.
LEMMA RecordAt ==
  ASSUME BridgeInv, NEW e \in Executions, NEW i \in DOMAIN records[e]
  PROVE  \E m \in 1..sequence[e] :
           /\ (i + 1) \div 2 = m
           /\ \/ i % 2 = 1 /\ i = 2 * m - 1 /\ records[e][i] = Requested(m)
              \/ /\ i % 2 = 0 /\ i = 2 * m
                 /\ \E o \in Outcomes : /\ records[e][i] = Resolved(m, o)
                                        /\ o \in {"completed", "not_performed"} => handler[<<e, m>>] = o
<1>1. /\ Told(records[e], sequence[e], handler, e) /\ sequence[e] \in Nat
      /\ Len(records[e]) = 2 * sequence[e] \/ Len(records[e]) = 2 * sequence[e] - 1
  <2>1. RecordTrue(e) /\ sequence[e] \in 0..MaxActions
    BY DEF BridgeInv, BridgeTypes
  <2> QED
    BY <2>1, DirectBridgeAssumption DEF RecordTrue
<1>2. i \in 1..Len(records[e]) /\ i \in Nat /\ i # 0
  BY <1>1, LenProperties DEF Told
<1>3. PICK m \in Nat \ {0} : /\ (i + 1) \div 2 = m
                             /\ (i % 2 = 1 /\ i = 2 * m - 1) \/ (i % 2 = 0 /\ i = 2 * m)
  BY <1>2, Places
<1>4. m \in 1..sequence[e]
  BY <1>1, <1>2, <1>3
<1>5. CASE i % 2 = 1 /\ i = 2 * m - 1
  <2>1. records[e][2 * m - 1] = Requested(m)
    BY <1>1, <1>4 DEF Told
  <2> QED
    BY <1>3, <1>4, <1>5, <2>1
<1>6. CASE i % 2 = 0 /\ i = 2 * m
  <2>1. 2 * m <= Len(records[e])
    BY <1>2, <1>6
  <2>2. \E o \in Outcomes : /\ records[e][2 * m] = Resolved(m, o)
                            /\ o \in {"completed", "not_performed"} => handler[<<e, m>>] = o
    BY <1>1, <1>4, <2>1 DEF Told
  <2> QED
    BY <1>3, <1>4, <1>6, <2>2
<1> QED
  BY <1>3, <1>5, <1>6

\* The facts follow from the invariant.
LEMMA FactsFromInv == BridgeInv => FactsMatchHost
<1> SUFFICES ASSUME BridgeInv, NEW e \in Executions
             PROVE  RecordsAlternate(e) /\ (Answered(e) => RecordsTrue(e))
  BY DEF FactsMatchHost
<1>1. /\ Told(records[e], sequence[e], handler, e) /\ sequence[e] \in Nat /\ MaxActions \in Nat
      /\ sequence[e] <= MaxActions
      /\ \/ Len(records[e]) = 2 * sequence[e] /\ e \notin listening
         \/ /\ Len(records[e]) = 2 * sequence[e] - 1 /\ sequence[e] # 0
            /\ e \in listening \/ verdict[e] = "failed"
  <2>1. RecordTrue(e) /\ sequence[e] \in 0..MaxActions
    BY DEF BridgeInv, BridgeTypes
  <2> QED
    BY <2>1, DirectBridgeAssumption DEF RecordTrue
<1>2. DOMAIN records[e] = 1..Len(records[e]) /\ Len(records[e]) \in Nat
  BY <1>1, LenProperties DEF Told
<1>3. Answered(e) => e \notin listening /\ result[e] = verdict[e]
  <2> SUFFICES ASSUME Answered(e) PROVE e \notin listening /\ result[e] = verdict[e]
    OBVIOUS
  <2>1. result[e] # "pending" /\ result[e] \in Verdicts
    BY DEF Answered, Verdicts
  <2>2. result[e] = verdict[e] /\ e \notin active
    BY <2>1 DEF BridgeInv, Answering
  <2> QED
    BY <2>2 DEF BridgeInv, RaceTrue
<1>4. RecordsAlternate(e)
  <2> SUFFICES ASSUME NEW i \in DOMAIN records[e]
               PROVE  /\ records[e][i].action = (i + 1) \div 2
                      /\ records[e][i].phase = IF i % 2 = 1 THEN "requested" ELSE "resolved"
                      /\ Answered(e) /\ i = Len(records[e]) /\ i % 2 = 1 => result[e] = "failed"
    BY DEF RecordsAlternate
  <2>1. PICK m \in 1..sequence[e] :
           /\ (i + 1) \div 2 = m
           /\ \/ i % 2 = 1 /\ i = 2 * m - 1 /\ records[e][i] = Requested(m)
              \/ /\ i % 2 = 0 /\ i = 2 * m
                 /\ \E o \in Outcomes : /\ records[e][i] = Resolved(m, o)
                                        /\ o \in {"completed", "not_performed"} => handler[<<e, m>>] = o
    BY RecordAt
  <2>2. CASE i % 2 = 1 /\ i = 2 * m - 1 /\ records[e][i] = Requested(m)
    <3>1. records[e][i].action = m /\ records[e][i].phase = "requested"
      BY <2>2 DEF Requested
    <3>2. i = Len(records[e]) => Len(records[e]) # 2 * sequence[e]
      BY <1>1, <2>2
    <3>3. Answered(e) /\ i = Len(records[e]) => result[e] = "failed"
      BY <1>1, <1>3, <3>2
    <3> QED
      BY <2>1, <2>2, <3>1, <3>3
  <2>3. CASE i % 2 = 0 /\ \E o \in Outcomes : records[e][i] = Resolved(m, o)
    <3>1. records[e][i].action = m /\ records[e][i].phase = "resolved"
      BY <2>3 DEF Resolved
    <3>2. i % 2 # 1
      BY <2>3
    <3> QED
      BY <2>1, <3>1, <3>2
  <2> QED
    BY <2>1, <2>2, <2>3
<1>5. ASSUME Answered(e), NEW n \in 1..MaxActions
      PROVE  (\E i \in DOMAIN records[e] : records[e][i] = Requested(n)) <=> handler[<<e, n>>] # "none"
  <2>1. DispatchOf(<<e, n>>) \notin ToSet(jobs)
    <3>1. JobTrue(DispatchOf(<<e, n>>)) => e \in listening
      BY DEF JobTrue, DispatchOf
    <3> QED
      BY <1>3, <1>5, <3>1 DEF BridgeInv, JobsTrue
  <2>2. handler[<<e, n>>] = "none" <=> n > sequence[e]
    BY <2>1 DEF BridgeInv, HandlersAsked
  <2>3. n \in Nat /\ n # 0
    OBVIOUS
  <2>4. ASSUME n <= sequence[e] PROVE \E i \in DOMAIN records[e] : records[e][i] = Requested(n)
    <3>1. records[e][2 * n - 1] = Requested(n)
      BY <1>1, <2>3, <2>4 DEF Told
    <3>2. 2 * n - 1 \in DOMAIN records[e]
      BY <1>1, <1>2, <2>3, <2>4
    <3> QED
      BY <3>1, <3>2
  <2>5. ASSUME NEW i \in DOMAIN records[e], records[e][i] = Requested(n) PROVE n <= sequence[e]
    <3>1. PICK m \in 1..sequence[e] :
             \/ records[e][i] = Requested(m)
             \/ \E o \in Outcomes : records[e][i] = Resolved(m, o)
      BY ZenonT(40), RecordAt
    <3>2. records[e][i].action = m
      <4>1. CASE records[e][i] = Requested(m)
        BY <4>1 DEF Requested
      <4>2. CASE \E o \in Outcomes : records[e][i] = Resolved(m, o)
        BY <4>2 DEF Resolved
      <4> QED
        BY <3>1, <4>1, <4>2
    <3>3. n = m
      BY <2>5, <3>2 DEF Requested
    <3> QED
      BY <1>1, <3>3
  <2> QED
    BY <1>1, <2>2, <2>3, <2>4, <2>5
<1>6. ASSUME NEW i \in DOMAIN records[e], records[e][i].outcome \in {"completed", "not_performed"}
      PROVE  handler[<<e, records[e][i].action>>] = records[e][i].outcome
  <2>1. PICK m \in 1..sequence[e] :
           \/ records[e][i] = Requested(m)
           \/ \E o \in Outcomes : /\ records[e][i] = Resolved(m, o)
                                  /\ o \in {"completed", "not_performed"} => handler[<<e, m>>] = o
    BY RecordAt
  <2>2. records[e][i] # Requested(m)
    BY <1>6 DEF Requested
  <2>3. PICK o \in Outcomes : /\ records[e][i] = Resolved(m, o)
                              /\ o \in {"completed", "not_performed"} => handler[<<e, m>>] = o
    BY <2>1, <2>2
  <2> QED
    BY <1>6, <2>3 DEF Resolved
<1>7. Answered(e) => RecordsTrue(e)
  <2> SUFFICES ASSUME Answered(e) PROVE RecordsTrue(e)
    OBVIOUS
  <2>1. {n \in 1..MaxActions : \E i \in DOMAIN records[e] : records[e][i] = Requested(n)}
          = {n \in 1..MaxActions : handler[<<e, n>>] # "none"}
    BY <1>5
  <2> QED
    BY <1>6, <2>1 DEF RecordsTrue
<1> QED
  BY <1>4, <1>7

\* The variables keep their types (DirectRuntimeBridge and ActionDispatcher):
\* the microtasks are those the code queues, and no execution passes its bound
\* of actions.
THEOREM BridgeTypeOK == Spec => []TypeOK
BY BridgeInvariant, TypesFromInv, PTL

\* What execute() has answered is over, and close() resolves after what it found
\* (the reaction of finally() in execute(), and close()).
THEOREM BridgeAnswers == Spec => []AnsweredIsOver
BY BridgeInvariant, AnsweredFromInv, PTL

\* The facts of an answered execution tell the truth about the host, whatever
\* the order of outcomes, cancellations and close (ActionDispatcher.handle,
\* receive and interpretOutcome).
THEOREM BridgeFacts == Spec => []FactsMatchHost
BY BridgeInvariant, FactsFromInv, PTL
=============================================================================

---------------------------- MODULE FramingProofs ----------------------------
(***************************************************************************)
(* Proofs about the two halves of worker-framing.ts: the writer, for any   *)
(* callers, frame sizes and queue limits, and the decoder, for any streams,*)
(* limit and chunks.                                                       *)
(***************************************************************************)
EXTENDS Framing, SumsProofs

----------------------------------------------------------------------------
(* Sequences without repetition.                                           *)

\* Putting something new at the end.
LEMMA AppendOnce ==
  ASSUME NEW S, NEW s \in Seq(S), NEW x \in S
  PROVE  /\ Append(s, x) \in Seq(S)
         /\ ToSet(Append(s, x)) = ToSet(s) \cup {x}
         /\ IsInjective(s) /\ x \notin ToSet(s) => IsInjective(Append(s, x))
<1>1. /\ Append(s, x) \in Seq(S) /\ DOMAIN s = 1..Len(s) /\ Len(s) \in Nat
      /\ DOMAIN Append(s, x) = 1..(Len(s) + 1)
      /\ \A i \in 1..Len(s) : Append(s, x)[i] = s[i]
      /\ Append(s, x)[Len(s) + 1] = x
  BY AppendProperties, LenProperties
<1>2. /\ \A i \in DOMAIN Append(s, x) : i \in DOMAIN s \/ i = Len(s) + 1
      /\ \A i \in DOMAIN s : i \in DOMAIN Append(s, x)
      /\ Len(s) + 1 \in DOMAIN Append(s, x)
  BY <1>1
<1>3. ToSet(Append(s, x)) = ToSet(s) \cup {x}
  <2>1. ASSUME NEW y \in ToSet(Append(s, x)) PROVE y \in ToSet(s) \cup {x}
    BY <1>1, <1>2 DEF ToSet
  <2>2. ASSUME NEW y \in ToSet(s) PROVE y \in ToSet(Append(s, x))
    BY <1>1, <1>2 DEF ToSet
  <2>3. x \in ToSet(Append(s, x))
    BY <1>1, <1>2 DEF ToSet
  <2> QED
    BY <2>1, <2>2, <2>3
<1>4. ASSUME IsInjective(s), x \notin ToSet(s) PROVE IsInjective(Append(s, x))
  <2>1. \A i \in DOMAIN s : s[i] # x
    BY <1>4 DEF ToSet
  <2> QED
    BY <1>1, <1>2, <1>4, <2>1 DEF IsInjective
<1> QED
  BY <1>1, <1>3, <1>4

\* Taking the first off.
LEMMA TailOnce ==
  ASSUME NEW S, NEW s \in Seq(S), s # <<>>
  PROVE  /\ Head(s) \in S /\ Tail(s) \in Seq(S)
         /\ s = <<Head(s)>> \o Tail(s)
         /\ ToSet(s) = {Head(s)} \cup ToSet(Tail(s))
         /\ IsInjective(s) => IsInjective(Tail(s)) /\ Head(s) \notin ToSet(Tail(s))
<1>1. /\ Head(s) \in S /\ Head(s) = s[1] /\ Tail(s) \in Seq(S)
      /\ Len(s) \in Nat \ {0} /\ DOMAIN s = 1..Len(s) /\ DOMAIN Tail(s) = 1..(Len(s) - 1)
      /\ \A i \in 1..(Len(s) - 1) : Tail(s)[i] = s[i + 1]
  BY HeadTailProperties, LenProperties, EmptySeq
<1>2. /\ \A i \in DOMAIN Tail(s) : i + 1 \in DOMAIN s /\ i + 1 # 1 /\ Tail(s)[i] = s[i + 1]
      /\ \A i \in DOMAIN s : i = 1 \/ (i - 1 \in DOMAIN Tail(s) /\ Tail(s)[i - 1] = s[i])
      /\ 1 \in DOMAIN s
  BY <1>1
<1>3. s = <<Head(s)>> \o Tail(s)
  <2>1. 1 \in 0..Len(s)
    BY <1>1
  <2>2. SubSeq(s, 1, 1) = <<Head(s)>>
    <3>1. SubSeq(s, 1, 1) \in Seq(S) /\ Len(SubSeq(s, 1, 1)) = 1 /\ SubSeq(s, 1, 1)[1] = s[1]
      BY <2>1, SplitProperties
    <3>2. <<Head(s)>> \in Seq(S) /\ Len(<<Head(s)>>) = 1 /\ <<Head(s)>>[1] = s[1]
      BY <1>1
    <3> DEFINE a == SubSeq(s, 1, 1)
               b == <<Head(s)>>
    <3>3. a \in Seq(S) /\ b \in Seq(S) /\ Len(a) = Len(b) /\ \A i \in 1..Len(a) : a[i] = b[i]
      BY <3>1, <3>2
    <3> HIDE DEF a, b
    <3>4. a = b
      BY <3>3, SeqEqual
    <3> QED
      BY <3>4 DEF a, b
  <2>3. SubSeq(s, 1 + 1, Len(s)) = Tail(s)
    BY TailIsSubSeq
  <2> QED
    BY <2>1, <2>2, <2>3, SequenceSplit
<1>4. ToSet(s) = {Head(s)} \cup ToSet(Tail(s))
  BY SMTT(30), <1>1, <1>2 DEF ToSet
<1>5. ASSUME IsInjective(s) PROVE IsInjective(Tail(s)) /\ Head(s) \notin ToSet(Tail(s))
  <2>1. ASSUME NEW i \in DOMAIN Tail(s), NEW j \in DOMAIN Tail(s), Tail(s)[i] = Tail(s)[j]
        PROVE  i = j
    <3>1. i + 1 = j + 1
      BY <1>2, <1>5, <2>1 DEF IsInjective
    <3> QED
      BY <1>1, <3>1
  <2>2. \A i \in DOMAIN Tail(s) : Tail(s)[i] # Head(s)
    BY <1>1, <1>2, <1>5 DEF IsInjective
  <2> QED
    BY <2>1, <2>2 DEF IsInjective, ToSet
<1> QED
  BY <1>1, <1>3, <1>4, <1>5

\* Putting two together that share nothing.
LEMMA ConcatOnce ==
  ASSUME NEW S, NEW s \in Seq(S), NEW t \in Seq(S)
  PROVE  /\ s \o t \in Seq(S)
         /\ ToSet(s \o t) = ToSet(s) \cup ToSet(t)
         /\ IsInjective(s) /\ IsInjective(t) /\ ToSet(s) \cap ToSet(t) = {}
              => IsInjective(s \o t)
<1>1. /\ s \o t \in Seq(S) /\ Len(s) \in Nat /\ Len(t) \in Nat
      /\ DOMAIN s = 1..Len(s) /\ DOMAIN t = 1..Len(t) /\ DOMAIN (s \o t) = 1..(Len(s) + Len(t))
      /\ \A i \in 1..(Len(s) + Len(t)) :
           (s \o t)[i] = IF i <= Len(s) THEN s[i] ELSE t[i - Len(s)]
  BY ConcatProperties, LenProperties
<1>2. /\ \A i \in DOMAIN s : i \in DOMAIN (s \o t) /\ (s \o t)[i] = s[i]
      /\ \A i \in DOMAIN t : Len(s) + i \in DOMAIN (s \o t) /\ (s \o t)[Len(s) + i] = t[i]
      /\ \A i \in DOMAIN (s \o t) :
           \/ i \in DOMAIN s /\ (s \o t)[i] = s[i]
           \/ i - Len(s) \in DOMAIN t /\ (s \o t)[i] = t[i - Len(s)]
  <2>1. ASSUME NEW i \in DOMAIN s PROVE i \in DOMAIN (s \o t) /\ (s \o t)[i] = s[i]
    BY <1>1
  <2>2. ASSUME NEW i \in DOMAIN t
        PROVE  Len(s) + i \in DOMAIN (s \o t) /\ (s \o t)[Len(s) + i] = t[i]
    <3>1. Len(s) + i \in 1..(Len(s) + Len(t)) /\ ~(Len(s) + i <= Len(s)) /\ (Len(s) + i) - Len(s) = i
      BY <1>1
    <3> QED
      BY <1>1, <3>1
  <2>3. ASSUME NEW i \in DOMAIN (s \o t)
        PROVE  \/ i \in DOMAIN s /\ (s \o t)[i] = s[i]
               \/ i - Len(s) \in DOMAIN t /\ (s \o t)[i] = t[i - Len(s)]
    <3>1. CASE i <= Len(s)
      BY <1>1, <3>1
    <3>2. CASE ~(i <= Len(s))
      BY <1>1, <3>2
    <3> QED
      BY <3>1, <3>2
  <2> QED
    BY <2>1, <2>2, <2>3
<1>3. ToSet(s \o t) = ToSet(s) \cup ToSet(t)
  <2>1. ASSUME NEW x \in ToSet(s \o t) PROVE x \in ToSet(s) \cup ToSet(t)
    BY <1>2 DEF ToSet
  <2>2. ASSUME NEW x \in ToSet(s) PROVE x \in ToSet(s \o t)
    BY <1>2 DEF ToSet
  <2>3. ASSUME NEW x \in ToSet(t) PROVE x \in ToSet(s \o t)
    BY <1>2 DEF ToSet
  <2> QED
    BY <2>1, <2>2, <2>3
<1>4. ASSUME IsInjective(s), IsInjective(t), ToSet(s) \cap ToSet(t) = {},
             NEW i \in DOMAIN (s \o t), NEW j \in DOMAIN (s \o t), (s \o t)[i] = (s \o t)[j]
      PROVE  i = j
  <2>1. \A a \in DOMAIN s, b \in DOMAIN t : s[a] # t[b]
    BY <1>4 DEF ToSet
  <2>2. CASE i \in DOMAIN s /\ j \in DOMAIN s
    BY <1>2, <1>4, <2>2 DEF IsInjective
  <2>3. CASE i \notin DOMAIN s /\ j \notin DOMAIN s
    <3>1. i - Len(s) = j - Len(s)
      BY <1>2, <1>4, <2>3 DEF IsInjective
    <3> QED
      BY <1>1, <3>1
  <2>4. CASE i \in DOMAIN s /\ j \notin DOMAIN s
    BY <1>2, <1>4, <2>1, <2>4
  <2>5. CASE i \notin DOMAIN s /\ j \in DOMAIN s
    BY <1>2, <1>4, <2>1, <2>5
  <2> QED
    BY <2>2, <2>3, <2>4, <2>5
<1> QED
  BY <1>1, <1>3, <1>4 DEF IsInjective

----------------------------------------------------------------------------
(* The writer's private fields and what one operation does to them.        *)

QueueState ==
  [maxQueuedBytes : Nat, reservedQueuedBytes : Nat,
   ordinary : Seq(Writes \ ReservedWrites), reserved : Seq(ReservedWrites), waiting : Seq(Writes),
   queuedBytes : Nat, writing : Writes \cup {NoWrite}, lastReserved : BOOLEAN]

Counted(q) == BytesOf(q.ordinary) + BytesOf(q.reserved) + BytesOf(AtSink(q))

Held(q) == ToSet(q.ordinary) \cup ToSet(q.reserved) \cup ToSet(AtSink(q))

\* No frame is in two places, or twice in one.
Once(q) ==
  /\ IsInjective(q.ordinary) /\ IsInjective(q.reserved) /\ IsInjective(q.waiting)
  /\ q.writing \notin ToSet(q.ordinary) \cup ToSet(q.reserved)
  /\ Held(q) \cap ToSet(q.waiting) = {}

SameLimits(q, r) ==
  /\ r.maxQueuedBytes = q.maxQueuedBytes
  /\ r.reservedQueuedBytes = q.reservedQueuedBytes

\* The bytes of a queue: none, those of its first frame and of the rest, and
\* those of its frames and of one more.
LEMMA BytesLaws ==
  ASSUME NEW S, S \subseteq Writes
  PROVE  /\ BytesOf(<<>>) = 0
         /\ \A s \in Seq(S) : BytesOf(s) \in Nat
         /\ \A w \in S : BytesOf(<<w>>) = Bytes[w]
         /\ \A s, t \in Seq(S) : BytesOf(s \o t) = BytesOf(s) + BytesOf(t)
         /\ \A s \in Seq(S), w \in S : BytesOf(Append(s, w)) = BytesOf(s) + Bytes[w]
<1>1. Bytes \in [Writes -> Nat]
  BY WriterAssumption
<1>2. \A s : BytesOf(s) = SumOf(Mapped(Bytes, s))
  BY DEF BytesOf, Mapped
<1>3. /\ SumOf(Mapped(Bytes, <<>>)) = 0
      /\ \A s \in Seq(Writes) : SumOf(Mapped(Bytes, s)) \in Nat
      /\ \A s, t \in Seq(Writes) :
           SumOf(Mapped(Bytes, s \o t)) = SumOf(Mapped(Bytes, s)) + SumOf(Mapped(Bytes, t))
      /\ \A s \in Seq(Writes), w \in Writes :
           SumOf(Mapped(Bytes, Append(s, w))) = SumOf(Mapped(Bytes, s)) + Bytes[w]
  BY <1>1, SumMapped
<1>4. Seq(S) \subseteq Seq(Writes)
  BY SeqMonotonic
<1>5. ASSUME NEW w \in S PROVE BytesOf(<<w>>) = Bytes[w]
  <2>1. <<w>> = Append(<<>>, w) /\ <<>> \in Seq(Writes) /\ w \in Writes /\ Bytes[w] \in Nat
    BY <1>1
  <2>2. SumOf(Mapped(Bytes, <<w>>)) = 0 + Bytes[w]
    BY <1>3, <2>1
  <2> QED
    BY <1>2, <2>1, <2>2
<1> QED
  BY <1>2, <1>3, <1>4, <1>5

\* The pump moves a queued frame to an idle sink and changes nothing else.
LEMMA PumpLaws ==
  ASSUME NEW q \in QueueState
  PROVE  /\ Pump(q) \in QueueState
         /\ SameLimits(q, Pump(q))
         /\ Pump(q).queuedBytes = q.queuedBytes
         /\ Pump(q).waiting = q.waiting
         /\ Counted(Pump(q)) = Counted(q)
         /\ Held(Pump(q)) = Held(q)
         /\ Once(q) => Once(Pump(q))
<1> DEFINE r == Pump(q)
<1>1. CASE q.writing # NoWrite \/ (q.reserved = <<>> /\ q.ordinary = <<>>)
  BY <1>1 DEF Pump, SameLimits
<1>2. ASSUME q.writing = NoWrite, q.reserved # <<>>,
             r = [q EXCEPT !.writing = Head(q.reserved), !.reserved = Tail(@), !.lastReserved = TRUE]
      PROVE  /\ r \in QueueState /\ SameLimits(q, r)
             /\ r.queuedBytes = q.queuedBytes /\ r.waiting = q.waiting
             /\ Counted(r) = Counted(q) /\ Held(r) = Held(q) /\ (Once(q) => Once(r))
  <2> DEFINE w == Head(q.reserved)
  <2>1. /\ w \in ReservedWrites /\ Tail(q.reserved) \in Seq(ReservedWrites)
        /\ q.reserved = <<w>> \o Tail(q.reserved)
        /\ ToSet(q.reserved) = {w} \cup ToSet(Tail(q.reserved))
        /\ IsInjective(q.reserved) => IsInjective(Tail(q.reserved)) /\ w \notin ToSet(Tail(q.reserved))
    BY <1>2, TailOnce DEF QueueState
  <2> HIDE DEF w
  <2>2. w \in Writes /\ w # NoWrite
    BY <2>1, WriterAssumption
  <2>3. /\ r.writing = w /\ r.reserved = Tail(q.reserved) /\ r.ordinary = q.ordinary
        /\ r.waiting = q.waiting /\ r.queuedBytes = q.queuedBytes
        /\ r.maxQueuedBytes = q.maxQueuedBytes /\ r.reservedQueuedBytes = q.reservedQueuedBytes
    BY <1>2 DEF QueueState, w
  <2>4. r \in QueueState
    BY <1>2, <2>1, <2>2 DEF QueueState, w
  <2> HIDE DEF r
  <2>5. AtSink(q) = <<>> /\ AtSink(r) = <<w>>
    BY <1>2, <2>2, <2>3 DEF AtSink
  <2>6. Counted(r) = Counted(q)
    <3>1. BytesOf(q.reserved) = BytesOf(<<w>>) + BytesOf(Tail(q.reserved))
      <4>1. <<w>> \in Seq(ReservedWrites)
        BY <2>1
      <4> QED
        BY ZenonT(40), <2>1, <4>1, BytesLaws, WriterAssumption
    <3>2. BytesOf(<<>>) = 0 /\ BytesOf(<<w>>) \in Nat /\ BytesOf(Tail(q.reserved)) \in Nat
          /\ BytesOf(q.ordinary) \in Nat
      <4>1. <<w>> \in Seq(ReservedWrites) /\ q.ordinary \in Seq(Writes \ ReservedWrites)
        BY <2>1 DEF QueueState
      <4> QED
        BY <2>1, <4>1, BytesLaws, WriterAssumption
    <3> QED
      BY <2>3, <2>5, <3>1, <3>2 DEF Counted
  <2>7. ToSet(<<>>) = {} /\ ToSet(<<w>>) = {w}
    BY DEF ToSet
  <2>8. Held(r) = Held(q)
    BY <2>1, <2>3, <2>5, <2>7 DEF Held
  <2>9. Once(q) => Once(r)
    <3>1. w \notin ToSet(q.ordinary)
      <4>1. \A x \in ToSet(q.ordinary) : x \in Writes \ ReservedWrites
        BY ElementOfSeq, LenProperties DEF ToSet, QueueState
      <4> QED
        BY <2>1, <4>1
    <3> QED
      BY <2>1, <2>3, <2>8, <3>1 DEF Once
  <2> QED
    BY <2>3, <2>4, <2>6, <2>8, <2>9 DEF SameLimits
<1>3. ASSUME q.writing = NoWrite, q.ordinary # <<>>,
             r = [q EXCEPT !.writing = Head(q.ordinary), !.ordinary = Tail(@), !.lastReserved = FALSE]
      PROVE  /\ r \in QueueState /\ SameLimits(q, r)
             /\ r.queuedBytes = q.queuedBytes /\ r.waiting = q.waiting
             /\ Counted(r) = Counted(q) /\ Held(r) = Held(q) /\ (Once(q) => Once(r))
  <2> DEFINE w == Head(q.ordinary)
  <2>1. /\ w \in Writes \ ReservedWrites /\ Tail(q.ordinary) \in Seq(Writes \ ReservedWrites)
        /\ q.ordinary = <<w>> \o Tail(q.ordinary)
        /\ ToSet(q.ordinary) = {w} \cup ToSet(Tail(q.ordinary))
        /\ IsInjective(q.ordinary) => IsInjective(Tail(q.ordinary)) /\ w \notin ToSet(Tail(q.ordinary))
    BY <1>3, TailOnce DEF QueueState
  <2> HIDE DEF w
  <2>2. w \in Writes /\ w # NoWrite
    BY <2>1, WriterAssumption
  <2>3. /\ r.writing = w /\ r.ordinary = Tail(q.ordinary) /\ r.reserved = q.reserved
        /\ r.waiting = q.waiting /\ r.queuedBytes = q.queuedBytes
        /\ r.maxQueuedBytes = q.maxQueuedBytes /\ r.reservedQueuedBytes = q.reservedQueuedBytes
    BY <1>3 DEF QueueState, w
  <2>4. r \in QueueState
    BY <1>3, <2>1, <2>2 DEF QueueState, w
  <2> HIDE DEF r
  <2>5. AtSink(q) = <<>> /\ AtSink(r) = <<w>>
    BY <1>3, <2>2, <2>3 DEF AtSink
  <2>6. Counted(r) = Counted(q)
    <3>1. BytesOf(q.ordinary) = BytesOf(<<w>>) + BytesOf(Tail(q.ordinary))
      <4>1. <<w>> \in Seq(Writes \ ReservedWrites)
        BY <2>1
      <4> QED
        BY <2>1, <4>1, BytesLaws
    <3>2. BytesOf(<<>>) = 0 /\ BytesOf(<<w>>) \in Nat /\ BytesOf(Tail(q.ordinary)) \in Nat
          /\ BytesOf(q.reserved) \in Nat
      <4>1. <<w>> \in Seq(Writes \ ReservedWrites) /\ q.reserved \in Seq(ReservedWrites)
        BY <2>1 DEF QueueState
      <4> QED
        BY <2>1, <4>1, BytesLaws, WriterAssumption
    <3> QED
      BY <2>3, <2>5, <3>1, <3>2 DEF Counted
  <2>7. ToSet(<<>>) = {} /\ ToSet(<<w>>) = {w}
    BY DEF ToSet
  <2>8. Held(r) = Held(q)
    BY <2>1, <2>3, <2>5, <2>7 DEF Held
  <2>9. Once(q) => Once(r)
    <3>1. w \notin ToSet(q.reserved)
      <4>1. \A x \in ToSet(q.reserved) : x \in ReservedWrites
        BY ElementOfSeq, LenProperties DEF ToSet, QueueState
      <4> QED
        BY <2>1, <4>1
    <3> QED
      BY <2>1, <2>3, <2>8, <3>1 DEF Once
  <2> QED
    BY <2>3, <2>4, <2>6, <2>8, <2>9 DEF SameLimits
<1> QED
  BY <1>1, <1>2, <1>3 DEF Pump

\* One frame more in a queue.
LEMMA AppendFrame ==
  ASSUME NEW S, S \subseteq Writes, NEW s \in Seq(S), NEW w \in S
  PROVE  /\ Append(s, w) \in Seq(S)
         /\ ToSet(Append(s, w)) = ToSet(s) \cup {w}
         /\ IsInjective(s) /\ w \notin ToSet(s) => IsInjective(Append(s, w))
         /\ BytesOf(Append(s, w)) = BytesOf(s) + Bytes[w]
<1>1. BytesOf(Append(s, w)) = BytesOf(s) + Bytes[w]
  BY BytesLaws
<1> QED
  BY <1>1, AppendOnce

\* What the two fields that an admission changes may become.
LEMMA QueueFields ==
  ASSUME NEW q \in QueueState, NEW n \in Nat
  PROVE  /\ \A s \in Seq(ReservedWrites) :
              [q EXCEPT !.queuedBytes = n, !.reserved = s] \in QueueState
         /\ \A s \in Seq(Writes \ ReservedWrites) :
              [q EXCEPT !.queuedBytes = n, !.ordinary = s] \in QueueState
         /\ \A s \in Seq(Writes) : [q EXCEPT !.waiting = s] \in QueueState
  BY DEF QueueState

\* Admitting a frame counts it, holds it, and leaves the waiting ones alone.
LEMMA AdmitLaws ==
  ASSUME NEW q \in QueueState, NEW w \in Writes
  PROVE  /\ Admit(q, w) \in QueueState
         /\ SameLimits(q, Admit(q, w))
         /\ Admit(q, w).queuedBytes = q.queuedBytes + Bytes[w]
         /\ Admit(q, w).waiting = q.waiting
         /\ Counted(Admit(q, w)) = Counted(q) + Bytes[w]
         /\ Held(Admit(q, w)) = Held(q) \cup {w}
         /\ Once(q) /\ w \notin Held(q) \cup ToSet(q.waiting) => Once(Admit(q, w))
<1> DEFINE p == IF w \in ReservedWrites
                THEN [q EXCEPT !.queuedBytes = @ + Bytes[w], !.reserved = Append(@, w)]
                ELSE [q EXCEPT !.queuedBytes = @ + Bytes[w], !.ordinary = Append(@, w)]
<1>1. Admit(q, w) = Pump(p)
  BY DEF Admit, QueueState
<1>2. /\ Bytes[w] \in Nat /\ w # NoWrite
      /\ BytesOf(q.ordinary) \in Nat /\ BytesOf(q.reserved) \in Nat /\ BytesOf(AtSink(q)) \in Nat
  <2>1. q.ordinary \in Seq(Writes \ ReservedWrites) /\ q.reserved \in Seq(ReservedWrites)
    BY DEF QueueState
  <2>2. AtSink(q) \in Seq(Writes)
    BY DEF AtSink, QueueState
  <2>3. BytesOf(q.ordinary) \in Nat
    BY <2>1, BytesLaws
  <2>4. BytesOf(q.reserved) \in Nat
    BY <2>1, BytesLaws, WriterAssumption
  <2>5. BytesOf(AtSink(q)) \in Nat
    BY <2>2, BytesLaws
  <2> QED
    BY <2>3, <2>4, <2>5, WriterAssumption
<1>3. /\ p \in QueueState /\ SameLimits(q, p)
      /\ p.queuedBytes = q.queuedBytes + Bytes[w] /\ p.waiting = q.waiting /\ p.writing = q.writing
      /\ Counted(p) = Counted(q) + Bytes[w] /\ Held(p) = Held(q) \cup {w}
      /\ (Once(q) /\ w \notin Held(q) \cup ToSet(q.waiting) => Once(p))
  <2>1. CASE w \in ReservedWrites
    <3>1. /\ Append(q.reserved, w) \in Seq(ReservedWrites)
          /\ ToSet(Append(q.reserved, w)) = ToSet(q.reserved) \cup {w}
          /\ IsInjective(q.reserved) /\ w \notin ToSet(q.reserved) => IsInjective(Append(q.reserved, w))
          /\ BytesOf(Append(q.reserved, w)) = BytesOf(q.reserved) + Bytes[w]
      <4>1. q.reserved \in Seq(ReservedWrites)
        BY DEF QueueState
      <4> QED
        BY <2>1, <4>1, AppendFrame, WriterAssumption
    <3>2. /\ p.reserved = Append(q.reserved, w) /\ p.ordinary = q.ordinary /\ p.writing = q.writing
          /\ p.waiting = q.waiting /\ p.queuedBytes = q.queuedBytes + Bytes[w] /\ SameLimits(q, p)
      BY <2>1 DEF QueueState, SameLimits
    <3>3. p \in QueueState
      <4>1. q.queuedBytes + Bytes[w] \in Nat
        BY <1>2 DEF QueueState
      <4> QED
        BY <2>1, <3>1, <4>1, QueueFields
    <3> HIDE DEF p
    <3>4. AtSink(p) = AtSink(q)
      BY <3>2 DEF AtSink
    <3>5. Counted(p) = Counted(q) + Bytes[w]
      BY <1>2, <3>1, <3>2, <3>4 DEF Counted
    <3>6. Held(p) = Held(q) \cup {w}
      BY <3>1, <3>2, <3>4 DEF Held
    <3>7. ASSUME Once(q), w \notin Held(q) \cup ToSet(q.waiting) PROVE Once(p)
      <4>1. w # q.writing /\ w \notin ToSet(q.reserved) /\ w \notin ToSet(q.waiting)
        BY <1>2, <3>7 DEF Held, AtSink, ToSet
      <4> QED
        BY <3>1, <3>2, <3>6, <3>7, <4>1 DEF Once
    <3> QED
      BY <3>2, <3>3, <3>5, <3>6, <3>7
  <2>2. CASE w \notin ReservedWrites
    <3>1. /\ Append(q.ordinary, w) \in Seq(Writes \ ReservedWrites)
          /\ ToSet(Append(q.ordinary, w)) = ToSet(q.ordinary) \cup {w}
          /\ IsInjective(q.ordinary) /\ w \notin ToSet(q.ordinary) => IsInjective(Append(q.ordinary, w))
          /\ BytesOf(Append(q.ordinary, w)) = BytesOf(q.ordinary) + Bytes[w]
      <4>1. q.ordinary \in Seq(Writes \ ReservedWrites) /\ w \in Writes \ ReservedWrites
        BY <2>2 DEF QueueState
      <4> QED
        BY <4>1, AppendFrame
    <3>2. /\ p.ordinary = Append(q.ordinary, w) /\ p.reserved = q.reserved /\ p.writing = q.writing
          /\ p.waiting = q.waiting /\ p.queuedBytes = q.queuedBytes + Bytes[w] /\ SameLimits(q, p)
      BY <2>2 DEF QueueState, SameLimits
    <3>3. p \in QueueState
      <4>1. q.queuedBytes + Bytes[w] \in Nat
        BY <1>2 DEF QueueState
      <4> QED
        BY <2>2, <3>1, <4>1, QueueFields
    <3> HIDE DEF p
    <3>4. AtSink(p) = AtSink(q)
      BY <3>2 DEF AtSink
    <3>5. Counted(p) = Counted(q) + Bytes[w]
      BY <1>2, <3>1, <3>2, <3>4 DEF Counted
    <3>6. Held(p) = Held(q) \cup {w}
      BY <3>1, <3>2, <3>4 DEF Held
    <3>7. ASSUME Once(q), w \notin Held(q) \cup ToSet(q.waiting) PROVE Once(p)
      <4>1. w # q.writing /\ w \notin ToSet(q.ordinary) /\ w \notin ToSet(q.waiting)
        BY <1>2, <3>7 DEF Held, AtSink, ToSet
      <4> QED
        BY <3>1, <3>2, <3>6, <3>7, <4>1 DEF Once
    <3> QED
      BY <3>2, <3>3, <3>5, <3>6, <3>7
  <2> QED
    BY <2>1, <2>2
<1> HIDE DEF p
<1>4. /\ Pump(p) \in QueueState /\ SameLimits(p, Pump(p))
      /\ Pump(p).queuedBytes = p.queuedBytes /\ Pump(p).waiting = p.waiting
      /\ Counted(Pump(p)) = Counted(p) /\ Held(Pump(p)) = Held(p)
      /\ (Once(p) => Once(Pump(p)))
  BY <1>3, PumpLaws
<1> QED
  BY <1>1, <1>3, <1>4 DEF SameLimits

----------------------------------------------------------------------------
(* A pass over the waiting frames.                                         *)

\* A queue whose counter is right, within its bound, with every frame once.
Sound(q) ==
  /\ q \in QueueState
  /\ q.queuedBytes = Counted(q)
  /\ q.queuedBytes <= q.maxQueuedBytes
  /\ Once(q)

Placed(q) == Held(q) \cup ToSet(q.waiting)

\* What does not fit still does not when more is queued.
LEMMA CanAdmitMonotone ==
  ASSUME NEW q \in QueueState, NEW r \in QueueState, SameLimits(q, r),
         q.queuedBytes <= r.queuedBytes, NEW w \in Writes, ~CanAdmit(q, w)
  PROVE  ~CanAdmit(r, w)
<1>1. /\ Bytes[w] \in Nat /\ q.queuedBytes \in Nat /\ r.queuedBytes \in Nat
      /\ q.maxQueuedBytes \in Nat /\ q.reservedQueuedBytes \in Nat
      /\ r.maxQueuedBytes = q.maxQueuedBytes /\ r.reservedQueuedBytes = q.reservedQueuedBytes
  BY WriterAssumption DEF QueueState, SameLimits
<1> QED
  BY <1>1 DEF CanAdmit

\* Admission of a frame that fits keeps within the bound.
LEMMA AdmitSound ==
  ASSUME NEW q, Sound(q), NEW w \in Writes, w \notin Placed(q), CanAdmit(q, w)
  PROVE  Sound(Admit(q, w)) /\ q.queuedBytes <= Admit(q, w).queuedBytes
<1>1. /\ Admit(q, w) \in QueueState /\ SameLimits(q, Admit(q, w))
      /\ Admit(q, w).queuedBytes = q.queuedBytes + Bytes[w]
      /\ Counted(Admit(q, w)) = Counted(q) + Bytes[w]
      /\ Once(Admit(q, w))
  BY AdmitLaws DEF Sound, Placed
<1>2. /\ q.queuedBytes + Bytes[w] <= q.maxQueuedBytes
      /\ q.queuedBytes \in Nat /\ Bytes[w] \in Nat
  BY WriterAssumption DEF CanAdmit, Sound, QueueState
<1> QED
  BY <1>1, <1>2 DEF Sound, SameLimits

\* One waiting frame is admitted or goes on waiting.
LEMMA OfferLaws ==
  ASSUME NEW q, Sound(q), NEW class, NEW w \in Writes, w \notin Placed(q)
  PROVE  /\ Sound(Offer(q, class, w))
         /\ SameLimits(q, Offer(q, class, w))
         /\ q.queuedBytes <= Offer(q, class, w).queuedBytes
         /\ Placed(Offer(q, class, w)) = Placed(q) \cup {w}
         /\ ToSet(Offer(q, class, w).waiting) \subseteq ToSet(q.waiting) \cup {w}
         /\ w \in class /\ w \in ToSet(Offer(q, class, w).waiting) => ~CanAdmit(Offer(q, class, w), w)
<1>1. CASE w \in class /\ CanAdmit(q, w)
  <2>1. Offer(q, class, w) = Admit(q, w)
    BY <1>1 DEF Offer
  <2>2. /\ Admit(q, w).waiting = q.waiting /\ Held(Admit(q, w)) = Held(q) \cup {w}
        /\ SameLimits(q, Admit(q, w))
    BY AdmitLaws DEF Sound
  <2>3. w \notin ToSet(q.waiting)
    BY DEF Placed
  <2> QED
    BY <1>1, <2>1, <2>2, <2>3, AdmitSound DEF Placed
<1>2. CASE ~(w \in class /\ CanAdmit(q, w))
  <2> DEFINE r == [q EXCEPT !.waiting = Append(@, w)]
  <2>1. Offer(q, class, w) = r
    BY <1>2 DEF Offer
  <2>2. /\ Append(q.waiting, w) \in Seq(Writes)
        /\ ToSet(Append(q.waiting, w)) = ToSet(q.waiting) \cup {w}
        /\ IsInjective(q.waiting) /\ w \notin ToSet(q.waiting) => IsInjective(Append(q.waiting, w))
    BY AppendFrame DEF Sound, QueueState
  <2>3. r \in QueueState
    BY <2>2, QueueFields DEF Sound, QueueState
  <2>4. /\ r.waiting = Append(q.waiting, w)
        /\ r.ordinary = q.ordinary /\ r.reserved = q.reserved /\ r.writing = q.writing
        /\ r.queuedBytes = q.queuedBytes /\ SameLimits(q, r)
    BY DEF Sound, QueueState, SameLimits
  <2> HIDE DEF r
  <2>5. Held(r) = Held(q) /\ Counted(r) = Counted(q)
    BY <2>4 DEF Held, Counted, AtSink
  <2>6. Once(r)
    BY <2>2, <2>4, <2>5 DEF Sound, Once, Placed
  <2>7. CanAdmit(r, w) <=> CanAdmit(q, w)
    BY <2>4 DEF CanAdmit, SameLimits
  <2>8. Sound(r) /\ q.queuedBytes <= r.queuedBytes
    BY <2>3, <2>4, <2>5, <2>6 DEF Sound, SameLimits, QueueState
  <2>9. Placed(r) = Placed(q) \cup {w} /\ ToSet(r.waiting) \subseteq ToSet(q.waiting) \cup {w}
    BY <2>2, <2>4, <2>5 DEF Placed
  <2> QED
    BY <1>2, <2>1, <2>4, <2>7, <2>8, <2>9
<1> QED
  BY <1>1, <1>2

IsPass(h, q, class, n) ==
  h = [i \in 0..n |-> IF i = 0 THEN Emptied(q) ELSE Offer(h[i - 1], class, q.waiting[i])]

\* The recursion of AdmitPass has a solution, over any number of frames.
LEMMA PassExists ==
  ASSUME NEW q, NEW class, NEW n \in Nat
  PROVE  \E h : IsPass(h, q, class, n)
<1> DEFINE start == Emptied(q)
           Step(a, i) == Offer(a, class, q.waiting[i])
           Exists(m) == \E h : h = [i \in 0..m |-> IF i = 0 THEN start ELSE Step(h[i - 1], i)]
           Missing == {m \in Nat : ~Exists(m)}
<1> HIDE DEF start, Step
<1>1. Exists(0)
  <2> DEFINE h == [i \in 0..0 |-> start]
  <2>1. h = [i \in 0..0 |-> IF i = 0 THEN start ELSE Step(h[i - 1], i)]
    OBVIOUS
  <2> QED BY <2>1
<1>2. ASSUME NEW m \in Nat, Exists(m)
      PROVE  Exists(m + 1)
  <2>1. PICK h : h = [i \in 0..m |-> IF i = 0 THEN start ELSE Step(h[i - 1], i)]
    BY <1>2
  <2> DEFINE g == [i \in 0..(m + 1) |-> IF i <= m THEN h[i] ELSE Step(h[m], m + 1)]
  <2>2. g = [i \in 0..(m + 1) |-> IF i = 0 THEN start ELSE Step(g[i - 1], i)]
    <3> SUFFICES ASSUME NEW i \in 0..(m + 1)
                 PROVE  g[i] = IF i = 0 THEN start ELSE Step(g[i - 1], i)
      OBVIOUS
    <3>1. CASE i <= m
      <4>1. g[i] = h[i] /\ (i # 0 => g[i - 1] = h[i - 1])
        BY <3>1
      <4>2. h[i] = IF i = 0 THEN start ELSE Step(h[i - 1], i)
        BY <2>1, <3>1
      <4> QED BY <4>1, <4>2
    <3>2. CASE i = m + 1
      BY <3>2
    <3> QED BY <3>1, <3>2
  <2> QED BY <2>2
<1> SUFFICES Missing = {}
  BY DEF start, Step, IsPass
<1> SUFFICES ASSUME Missing # {} PROVE FALSE
  OBVIOUS
<1> HIDE DEF Exists
<1>3. PICK m \in Missing : \A k \in Missing : m <= k
  BY LeastNatural, Missing \subseteq Nat
<1>4. m # 0
  BY <1>1, <1>3
<1>5. m - 1 \in Nat /\ ~(m - 1 \in Missing)
  BY <1>3, <1>4
<1> QED BY <1>2, <1>3, <1>5

\* A pass admits what fits of its class: the queue stays sound, no frame gets lost,
\* and what is left of the class does not fit.
LEMMA AdmitPassLaws ==
  ASSUME NEW q, Sound(q), NEW class
  PROVE  /\ Sound(AdmitPass(q, class))
         /\ SameLimits(q, AdmitPass(q, class))
         /\ q.queuedBytes <= AdmitPass(q, class).queuedBytes
         /\ Placed(AdmitPass(q, class)) = Placed(q)
         /\ ToSet(AdmitPass(q, class).waiting) \subseteq ToSet(q.waiting)
         /\ \A w \in class \cap ToSet(AdmitPass(q, class).waiting) : ~CanAdmit(AdmitPass(q, class), w)
<1> DEFINE n == Len(q.waiting)
           start == Emptied(q)
           seen(i) == {q.waiting[j] : j \in 1..i}
           Good(i, a) == /\ Sound(a) /\ SameLimits(q, a) /\ q.queuedBytes <= a.queuedBytes
                         /\ Placed(a) = Held(q) \cup seen(i) /\ ToSet(a.waiting) \subseteq seen(i)
                         /\ \A w \in class \cap ToSet(a.waiting) : ~CanAdmit(a, w)
<1>1. /\ n \in Nat /\ DOMAIN q.waiting = 1..n /\ q.waiting \in Seq(Writes)
      /\ \A i \in 1..n : q.waiting[i] \in Writes
  BY ElementOfSeq, LenProperties DEF Sound, QueueState
<1>2. PICK g : IsPass(g, q, class, n) /\ AdmitPass(q, class) = g[n]
  <2> DEFINE after == CHOOSE g : IsPass(g, q, class, n)
  <2>1. IsPass(after, q, class, n)
    BY <1>1, PassExists
  <2>2. AdmitPass(q, class) = after[n]
    BY DEF AdmitPass, IsPass
  <2> QED
    BY <2>1, <2>2
<1>3. Good(0, g[0])
  <2>1. g[0] = start
    BY <1>1, <1>2 DEF IsPass
  <2>2. /\ start \in QueueState /\ start.waiting = <<>> /\ start.queuedBytes = q.queuedBytes
        /\ start.ordinary = q.ordinary /\ start.reserved = q.reserved /\ start.writing = q.writing
        /\ SameLimits(q, start)
    <3>1. q \in QueueState /\ <<>> \in Seq(Writes)
      BY DEF Sound
    <3>2. start \in QueueState
      BY <3>1 DEF QueueState, Emptied
    <3> QED
      BY <3>1, <3>2 DEF QueueState, SameLimits, Emptied
  <2> HIDE DEF start
  <2>3. Held(start) = Held(q) /\ Counted(start) = Counted(q) /\ ToSet(start.waiting) = {}
    BY <2>2 DEF Held, Counted, AtSink, ToSet
  <2>4. IsInjective(start.waiting)
    BY <2>2 DEF IsInjective
  <2>5. Sound(start) /\ q.queuedBytes <= start.queuedBytes
    BY <2>2, <2>3, <2>4 DEF Sound, Once, SameLimits, QueueState
  <2>6. seen(0) = {}
    OBVIOUS
  <2> QED
    BY <2>1, <2>2, <2>3, <2>5, <2>6 DEF Placed
<1>4. ASSUME NEW i \in 1..n, Good(i - 1, g[i - 1])
      PROVE  Good(i, g[i])
  <2> DEFINE w == q.waiting[i]
             a == g[i - 1]
             r == Offer(a, class, w)
  <2>1. g[i] = r
    <3>1. i \in 0..n /\ i # 0
      BY <1>1
    <3>2. g[i] = IF i = 0 THEN start ELSE r
      BY <1>2, <3>1 DEF IsPass
    <3> QED
      BY <3>1, <3>2
  <2>2. w \in Writes /\ seen(i) = seen(i - 1) \cup {w}
    BY <1>1
  <2>3. w \notin Placed(a)
    <3>1. w \notin Held(q)
      BY <1>1 DEF Sound, Once, ToSet
    <3>2. w \notin seen(i - 1)
      BY <1>1 DEF Sound, Once, IsInjective
    <3> QED
      BY <1>4, <3>1, <3>2
  <2> HIDE DEF w, a, seen
  <2>4. /\ Sound(a) /\ SameLimits(q, a) /\ q.queuedBytes <= a.queuedBytes
        /\ Placed(a) = Held(q) \cup seen(i - 1) /\ ToSet(a.waiting) \subseteq seen(i - 1)
        /\ \A v \in class \cap ToSet(a.waiting) : ~CanAdmit(a, v)
    BY <1>4 DEF a
  <2>5. /\ Sound(r) /\ SameLimits(a, r) /\ a.queuedBytes <= r.queuedBytes
        /\ Placed(r) = Placed(a) \cup {w} /\ ToSet(r.waiting) \subseteq ToSet(a.waiting) \cup {w}
        /\ (w \in class /\ w \in ToSet(r.waiting) => ~CanAdmit(r, w))
    BY <2>2, <2>3, <2>4, OfferLaws
  <2> HIDE DEF r
  <2>6. /\ SameLimits(q, r) /\ q.queuedBytes <= r.queuedBytes
        /\ Placed(r) = Held(q) \cup seen(i) /\ ToSet(r.waiting) \subseteq seen(i)
    BY SMTT(30), <2>2, <2>4, <2>5 DEF SameLimits, Sound, QueueState
  <2>7. ASSUME NEW v \in class \cap ToSet(r.waiting) PROVE ~CanAdmit(r, v)
    <3>1. CASE v = w
      BY <2>5, <2>7, <3>1
    <3>2. CASE v # w
      <4>1. v \in ToSet(a.waiting) /\ ~CanAdmit(a, v)
        BY <2>4, <2>5, <2>7, <3>2
      <4>2. v \in Writes
        BY <2>4, <4>1, ElementOfSeq, LenProperties DEF ToSet, Sound, QueueState
      <4> QED
        BY <2>4, <2>5, <4>1, <4>2, CanAdmitMonotone DEF Sound
    <3> QED
      BY <3>1, <3>2
  <2> QED
    BY <2>1, <2>5, <2>6, <2>7
<1>5. Good(n, g[n])
  <2> DEFINE Bad == {i \in 0..n : ~Good(i, g[i])}
  <2> HIDE DEF Good
  <2> SUFFICES ASSUME Bad # {} PROVE FALSE
    BY <1>1
  <2>1. Bad \subseteq Nat
    BY <1>1
  <2>2. PICK i \in Bad : \A k \in Bad : i <= k
    BY <2>1, LeastNatural
  <2>3. i \in 1..n /\ ~Good(i, g[i])
    BY <1>1, <1>3, <2>2
  <2>4. i - 1 \in 0..n /\ ~(i <= i - 1)
    BY <1>1, <2>3
  <2>5. Good(i - 1, g[i - 1])
    BY <2>2, <2>4
  <2> QED
    BY <1>4, <2>3, <2>5
<1>6. seen(n) = ToSet(q.waiting)
  BY <1>1 DEF ToSet
<1> HIDE DEF n, seen
<1> QED
  BY <1>2, <1>5, <1>6 DEF Placed

----------------------------------------------------------------------------
(* The writer's invariant.                                                 *)

WriterInv ==
  /\ Sound(queue)
  /\ <<queue.maxQueuedBytes, queue.reservedQueuedBytes>> \in {InitialQueue} \cup NegotiatedQueues
  /\ outcome \in [Writes -> {"none", "pending", "refused", "written", "failed"}]
  /\ Placed(queue) = {w \in Writes : outcome[w] = "pending"}
  /\ NoIdleCapacity

\* The bytes of the three places a counted frame can be in are naturals.
LEMMA BytesLawsAll ==
  ASSUME NEW q \in QueueState
  PROVE  /\ BytesOf(q.ordinary) \in Nat /\ BytesOf(q.reserved) \in Nat /\ BytesOf(AtSink(q)) \in Nat
         /\ AtSink(q) \in Seq(Writes)
<1>1. q.ordinary \in Seq(Writes \ ReservedWrites) /\ q.reserved \in Seq(ReservedWrites)
  BY DEF QueueState
<1>2. AtSink(q) \in Seq(Writes)
  BY DEF AtSink, QueueState
<1>3. BytesOf(q.ordinary) \in Nat
  BY <1>1, BytesLaws
<1>4. BytesOf(q.reserved) \in Nat
  BY <1>1, BytesLaws, WriterAssumption
<1>5. BytesOf(AtSink(q)) \in Nat
  BY <1>2, BytesLaws
<1> QED
  BY <1>2, <1>3, <1>4, <1>5

\* What waits is a frame of a caller.
LEMMA WaitingWrites ==
  ASSUME NEW q \in QueueState
  PROVE  ToSet(q.waiting) \subseteq Writes
BY ElementOfSeq, LenProperties DEF ToSet, QueueState

\* The writer starts empty, with the limits of its constructor.
LEMMA WriterInit == Init => WriterInv
<1> SUFFICES ASSUME Init PROVE WriterInv
  OBVIOUS
<1>1. /\ queue.ordinary = <<>> /\ queue.reserved = <<>> /\ queue.waiting = <<>>
      /\ queue.queuedBytes = 0 /\ queue.writing = NoWrite
      /\ queue.maxQueuedBytes = InitialQueue[1] /\ queue.reservedQueuedBytes = InitialQueue[2]
  BY DEF Init
<1>2. queue \in QueueState
  <2>1. InitialQueue[1] \in Nat /\ InitialQueue[2] \in Nat
    BY WriterAssumption
  <2> QED
    BY <2>1 DEF Init, QueueState
<1>3. AtSink(queue) = <<>> /\ ToSet(<<>>) = {} /\ BytesOf(<<>>) = 0
  <2>1. BytesOf(<<>>) = 0
    <3>1. Writes \subseteq Writes
      OBVIOUS
    <3> QED
      BY <3>1, BytesLaws
  <2>2. AtSink(queue) = <<>>
    BY <1>1 DEF AtSink
  <2>3. ToSet(<<>>) = {}
    BY DEF ToSet
  <2> QED
    BY <2>1, <2>2, <2>3
<1>4. Held(queue) = {} /\ Counted(queue) = 0
  BY <1>1, <1>3 DEF Held, Counted
<1>5. Sound(queue)
  BY <1>1, <1>2, <1>3, <1>4 DEF Sound, Once, IsInjective, QueueState
<1>6. <<queue.maxQueuedBytes, queue.reservedQueuedBytes>> = InitialQueue
  BY <1>1, WriterAssumption
<1>7. /\ outcome \in [Writes -> {"none", "pending", "refused", "written", "failed"}]
      /\ {w \in Writes : outcome[w] = "pending"} = {}
  BY DEF Init
<1> QED
  BY <1>1, <1>3, <1>4, <1>5, <1>6, <1>7 DEF WriterInv, Placed, NoIdleCapacity

\* write() keeps the invariant, whether it refuses, admits or lets wait.
LEMMA WriteStep ==
  ASSUME WriterInv, NEW w \in Writes, Write(w)
  PROVE  WriterInv'
<1> DEFINE pending == {v \in Writes : outcome[v] = "pending"}
<1>1. /\ outcome[w] # "pending" /\ w \notin Placed(queue) /\ Sound(queue) /\ queue \in QueueState
      /\ ToSet(queue.waiting) \subseteq Writes
  BY WaitingWrites DEF Write, WriterInv, Sound
<1>2. CASE Refused(queue, w)
  <2>1. queue' = queue /\ outcome' = [outcome EXCEPT ![w] = "refused"]
    BY <1>2 DEF Write
  <2>2. /\ outcome' \in [Writes -> {"none", "pending", "refused", "written", "failed"}]
        /\ {v \in Writes : outcome'[v] = "pending"} = pending
    BY <1>1, <2>1 DEF WriterInv
  <2>3. NoIdleCapacity'
    BY <2>1 DEF WriterInv, NoIdleCapacity
  <2> QED
    BY <2>1, <2>2, <2>3 DEF WriterInv
<1>3. CASE ~Refused(queue, w)
  <2>1. /\ outcome' = [outcome EXCEPT ![w] = "pending"]
        /\ queue' = IF CanAdmit(queue, w) THEN Admit(queue, w)
                    ELSE [queue EXCEPT !.waiting = Append(@, w)]
    BY <1>3 DEF Write
  <2>2. /\ outcome' \in [Writes -> {"none", "pending", "refused", "written", "failed"}]
        /\ {v \in Writes : outcome'[v] = "pending"} = pending \cup {w}
    BY <1>1, <2>1 DEF WriterInv
  <2>3. queue' = Offer(queue, {w}, w)
    BY <2>1 DEF Offer
  <2>4. /\ Sound(queue') /\ SameLimits(queue, queue') /\ queue.queuedBytes <= queue'.queuedBytes
        /\ Placed(queue') = Placed(queue) \cup {w}
        /\ ToSet(queue'.waiting) \subseteq ToSet(queue.waiting) \cup {w}
        /\ (w \in ToSet(queue'.waiting) => ~CanAdmit(queue', w))
    BY <1>1, <2>3, OfferLaws
  <2>5. ASSUME NEW v \in ToSet(queue'.waiting) PROVE ~CanAdmit(queue', v)
    <3>1. CASE v = w
      BY <2>4, <2>5, <3>1
    <3>2. CASE v # w
      <4>1. v \in ToSet(queue.waiting) /\ v \in Writes /\ ~CanAdmit(queue, v)
        BY <1>1, <2>4, <2>5, <3>2 DEF WriterInv, NoIdleCapacity
      <4> QED
        BY <1>1, <2>4, <4>1, CanAdmitMonotone DEF Sound
    <3> QED
      BY <3>1, <3>2
  <2>6. NoIdleCapacity'
    BY <2>5 DEF NoIdleCapacity
  <2> QED
    BY <2>2, <2>4, <2>6 DEF WriterInv, SameLimits
<1> QED
  BY <1>2, <1>3

\* configureQueue() keeps it: nothing waits, and what is queued fits.
LEMMA ConfigureStep ==
  ASSUME WriterInv, NEW limits \in NegotiatedQueues, ConfigureQueue(limits)
  PROVE  WriterInv'
<1>1. /\ limits \in Nat \X Nat /\ limits[1] \in Nat /\ limits[2] \in Nat
      /\ <<limits[1], limits[2]>> \in NegotiatedQueues
  BY WriterAssumption
<1>2. queue \in QueueState /\ queue.waiting = <<>> /\ queue.queuedBytes <= limits[1]
  BY DEF ConfigureQueue, WriterInv, Sound
<1>3. /\ queue' \in QueueState
      /\ queue'.maxQueuedBytes = limits[1] /\ queue'.reservedQueuedBytes = limits[2]
      /\ queue'.ordinary = queue.ordinary /\ queue'.reserved = queue.reserved
      /\ queue'.waiting = queue.waiting /\ queue'.writing = queue.writing
      /\ queue'.queuedBytes = queue.queuedBytes
  BY <1>1, <1>2 DEF ConfigureQueue, QueueState
<1>4. /\ Held(queue') = Held(queue) /\ Counted(queue') = Counted(queue)
      /\ Placed(queue') = Placed(queue)
  BY <1>3 DEF Held, Counted, AtSink, Placed
<1>5. Sound(queue')
  BY <1>2, <1>3, <1>4 DEF WriterInv, Sound, Once
<1>6. NoIdleCapacity'
  BY <1>2, <1>3 DEF NoIdleCapacity, ToSet
<1>7. outcome' = outcome
  BY DEF ConfigureQueue
<1> QED
  BY <1>1, <1>3, <1>4, <1>5, <1>6, <1>7 DEF WriterInv

\* A settled frame leaves, its bytes are given back, the reserved frames that fit
\* are admitted, then the ordinary ones, and none that fits is left.
LEMMA CompleteLaws ==
  ASSUME NEW q, Sound(q), q.writing # NoWrite
  PROVE  /\ Sound(Complete(q)) /\ SameLimits(q, Complete(q))
         /\ Placed(Complete(q)) = Placed(q) \ {q.writing}
         /\ \A w \in ToSet(Complete(q).waiting) : ~CanAdmit(Complete(q), w)
<1> DEFINE w == q.writing
           a == [q EXCEPT !.queuedBytes = @ - Bytes[q.writing], !.writing = NoWrite]
           b == AdmitPass(a, ReservedWrites)
           c == AdmitPass(b, Writes \ ReservedWrites)
           r == Pump(c)
<1>1. Complete(q) = r
  BY DEF Complete, AdmitWaiting
<1>2. /\ Sound(a) /\ SameLimits(q, a) /\ Placed(a) = Placed(q) \ {w}
  <2>1. q \in QueueState /\ w \in Writes /\ Bytes[w] \in Nat
    BY WriterAssumption DEF Sound, QueueState
  <2>2. BytesOf(q.ordinary) \in Nat /\ BytesOf(q.reserved) \in Nat /\ BytesOf(<<>>) = 0
        /\ BytesOf(<<w>>) = Bytes[w]
    BY <2>1, BytesLawsAll, BytesLaws
  <2>3. q.queuedBytes = BytesOf(q.ordinary) + BytesOf(q.reserved) + Bytes[w]
    BY <2>2 DEF Sound, Counted, AtSink
  <2>4. q.queuedBytes - Bytes[w] \in Nat
        /\ q.queuedBytes - Bytes[w] = BytesOf(q.ordinary) + BytesOf(q.reserved)
        /\ q.queuedBytes - Bytes[w] <= q.queuedBytes
    BY <2>1, <2>2, <2>3
  <2>5. a \in QueueState
    BY <2>1, <2>4 DEF QueueState
  <2>6. /\ a.ordinary = q.ordinary /\ a.reserved = q.reserved /\ a.waiting = q.waiting
        /\ a.writing = NoWrite /\ a.queuedBytes = q.queuedBytes - Bytes[w] /\ SameLimits(q, a)
    BY <2>1 DEF QueueState, SameLimits
  <2> HIDE DEF a
  <2>7. AtSink(a) = <<>> /\ AtSink(q) = <<w>> /\ ToSet(<<>>) = {} /\ ToSet(<<w>>) = {w}
    BY <2>6 DEF AtSink, ToSet
  <2>8. Counted(a) = a.queuedBytes
    BY <2>2, <2>4, <2>6, <2>7 DEF Counted
  <2>9. /\ Held(q) = Held(a) \cup {w} /\ w \notin Held(a) /\ w \notin ToSet(q.waiting)
    BY <2>6, <2>7 DEF Held, Sound, Once
  <2>10. NoWrite \notin ToSet(q.ordinary) \cup ToSet(q.reserved)
    BY <2>1, WriterAssumption, ElementOfSeq, LenProperties DEF ToSet, QueueState
  <2>11. Once(a)
    BY <2>6, <2>9, <2>10 DEF Sound, Once
  <2>12. Placed(a) = Placed(q) \ {w}
    BY <2>6, <2>9 DEF Placed
  <2>13. a.queuedBytes <= a.maxQueuedBytes
    BY <2>1, <2>4, <2>6 DEF Sound, SameLimits, QueueState
  <2> QED
    BY <2>5, <2>6, <2>8, <2>11, <2>12, <2>13 DEF Sound
<1> HIDE DEF a
<1>3. /\ Sound(b) /\ SameLimits(a, b) /\ Placed(b) = Placed(a)
      /\ \A v \in ReservedWrites \cap ToSet(b.waiting) : ~CanAdmit(b, v)
  BY <1>2, AdmitPassLaws
<1> HIDE DEF b
<1>4. /\ Sound(c) /\ SameLimits(b, c) /\ Placed(c) = Placed(b) /\ b.queuedBytes <= c.queuedBytes
      /\ ToSet(c.waiting) \subseteq ToSet(b.waiting)
      /\ \A v \in (Writes \ ReservedWrites) \cap ToSet(c.waiting) : ~CanAdmit(c, v)
  BY <1>3, AdmitPassLaws
<1> HIDE DEF c
<1>5. ASSUME NEW v \in ToSet(c.waiting) PROVE v \in Writes /\ ~CanAdmit(c, v)
  <2>1. v \in Writes /\ b \in QueueState /\ c \in QueueState
    BY <1>3, <1>4, <1>5, WaitingWrites DEF Sound
  <2>2. CASE v \in ReservedWrites
    BY <1>3, <1>4, <1>5, <2>1, <2>2, CanAdmitMonotone
  <2>3. CASE v \notin ReservedWrites
    BY <1>4, <1>5, <2>1, <2>3
  <2> QED
    BY <2>1, <2>2, <2>3
<1>6. /\ r \in QueueState /\ SameLimits(c, r) /\ r.queuedBytes = c.queuedBytes /\ r.waiting = c.waiting
      /\ Counted(r) = Counted(c) /\ Held(r) = Held(c) /\ Once(r)
  BY <1>4, PumpLaws DEF Sound
<1> HIDE DEF r
<1>7. \A v \in ToSet(r.waiting) : ~CanAdmit(r, v)
  BY <1>5, <1>6 DEF CanAdmit, SameLimits
<1>8. Sound(r) /\ Placed(r) = Placed(q) \ {w} /\ SameLimits(q, r)
  BY <1>2, <1>3, <1>4, <1>6 DEF Sound, Placed, SameLimits
<1> QED
  BY <1>1, <1>7, <1>8

\* A settled frame keeps it.
LEMMA SettleStep ==
  ASSUME WriterInv, NEW result \in {"written", "failed"}, SinkSettles(result)
  PROVE  WriterInv'
<1>1. /\ Sound(queue') /\ SameLimits(queue, queue')
      /\ Placed(queue') = Placed(queue) \ {queue.writing}
      /\ \A w \in ToSet(queue'.waiting) : ~CanAdmit(queue', w)
  BY CompleteLaws DEF WriterInv, SinkSettles
<1>2. queue.writing \in Writes /\ outcome' = [outcome EXCEPT ![queue.writing] = result]
  BY DEF WriterInv, Sound, QueueState, SinkSettles
<1>3. /\ outcome' \in [Writes -> {"none", "pending", "refused", "written", "failed"}]
      /\ {w \in Writes : outcome'[w] = "pending"}
           = {w \in Writes : outcome[w] = "pending"} \ {queue.writing}
  BY <1>2 DEF WriterInv
<1> QED
  BY <1>1, <1>3 DEF WriterInv, NoIdleCapacity, SameLimits

\* Every step of the writer keeps the invariant.
LEMMA WriterNext == WriterInv /\ [Next]_vars => WriterInv'
<1> SUFFICES ASSUME WriterInv, [Next]_vars PROVE WriterInv'
  OBVIOUS
<1>1. CASE UNCHANGED vars
  BY <1>1 DEF vars, WriterInv, NoIdleCapacity
<1> QED
  BY <1>1, WriteStep, ConfigureStep, SettleStep DEF Next

\* The invariant holds in every reachable state of the writer.
LEMMA WriterInvariant == Spec => []WriterInv
BY WriterInit, WriterNext, PTL DEF Spec

\* Every private field of the writer keeps its type: no reserved frame among the
\* ordinary ones, no limits but those of the constructor and of a handshake.
THEOREM WriterTypes == Spec => []TypeOK
<1>1. WriterInv => TypeOK
  BY DEF WriterInv, Sound, QueueState, TypeOK
<1> QED
  BY <1>1, WriterInvariant, PTL

\* The frames of a sound queue are those placed in it, each once, so the invariant
\* implies the accounting.
LEMMA WriterSound == WriterInv => QueueAccounting /\ NoIdleCapacity
<1>1. ASSUME NEW q, Sound(q)
      PROVE  IsInjective(Frames(q)) /\ ToSet(Frames(q)) = Placed(q)
  <2>1. q \in QueueState
    BY <1>1 DEF Sound
  <2>2. /\ q.ordinary \in Seq(Writes \ ReservedWrites) /\ q.reserved \in Seq(ReservedWrites)
        /\ q.waiting \in Seq(Writes)
    BY <2>1 DEF QueueState
  <2>3. AtSink(q) \in Seq(Writes)
    BY <2>1, BytesLawsAll
  <2>4. q.ordinary \in Seq(Writes) /\ q.reserved \in Seq(Writes)
    BY <2>2, SeqMonotonic, WriterAssumption
  <2>5. /\ ToSet(q.ordinary) \subseteq Writes \ ReservedWrites
        /\ ToSet(q.reserved) \subseteq ReservedWrites
    BY <2>2, ElementOfSeq, LenProperties DEF ToSet
  <2>6. /\ IsInjective(q.ordinary) /\ IsInjective(q.reserved) /\ IsInjective(q.waiting)
        /\ q.writing \notin ToSet(q.ordinary) \cup ToSet(q.reserved)
        /\ Held(q) \cap ToSet(q.waiting) = {}
    BY <1>1 DEF Sound, Once
  <2>7. /\ IsInjective(AtSink(q))
        /\ ToSet(q.ordinary) \cap ToSet(q.reserved) = {}
        /\ (ToSet(q.ordinary) \cup ToSet(q.reserved)) \cap ToSet(AtSink(q)) = {}
    <3>1. CASE q.writing = NoWrite
      BY <2>5, <3>1 DEF AtSink, IsInjective, ToSet
    <3>2. CASE q.writing # NoWrite
      <4>1. AtSink(q) = <<q.writing>>
        BY <3>2 DEF AtSink
      <4>2. ToSet(<<q.writing>>) = {q.writing}
        BY DEF ToSet
      <4>3. IsInjective(<<q.writing>>)
        BY DEF IsInjective
      <4> QED
        BY <2>5, <2>6, <4>1, <4>2, <4>3
    <3> QED
      BY <3>1, <3>2
  <2> DEFINE s1 == q.ordinary \o q.reserved
             s2 == s1 \o AtSink(q)
             s3 == s2 \o q.waiting
  <2>8. s1 \in Seq(Writes) /\ ToSet(s1) = ToSet(q.ordinary) \cup ToSet(q.reserved) /\ IsInjective(s1)
    BY <2>4, <2>6, <2>7, ConcatOnce
  <2> HIDE DEF s1
  <2>9. s2 \in Seq(Writes) /\ ToSet(s2) = Held(q) /\ IsInjective(s2)
    <3>1. ToSet(s1) \cap ToSet(AtSink(q)) = {}
      BY <2>7, <2>8
    <3> QED
      BY <2>3, <2>7, <2>8, <3>1, ConcatOnce DEF Held
  <2> HIDE DEF s2
  <2>10. ToSet(s3) = Placed(q) /\ IsInjective(s3)
    <3>1. ToSet(s2) \cap ToSet(q.waiting) = {}
      BY <2>6, <2>9
    <3> QED
      BY <2>2, <2>6, <2>9, <3>1, ConcatOnce DEF Placed
  <2>11. Frames(q) = s3
    BY DEF Frames, s1, s2
  <2> QED
    BY <2>10, <2>11
<1>2. WriterInv => QueueAccounting
  BY <1>1 DEF WriterInv, QueueAccounting, Sound, Counted
<1> QED
  BY <1>2 DEF WriterInv

\* The counter is the bytes of the admitted frames and within the bound, and a
\* pending write is in one place, once, for any callers, frames and limits.
THEOREM WriterAccounts == Spec => []QueueAccounting
BY WriterInvariant, WriterSound, PTL

\* No frame waits that fits, whatever is written, renegotiated and settled.
THEOREM WriterUsesCapacity == Spec => []NoIdleCapacity
BY WriterInvariant, PTL DEF WriterInv

----------------------------------------------------------------------------
(* The decoder: where the frames of the stream end.                        *)

FrameEnd(i) == Decoder!FrameEnd(i)
LastFrame == Len(stream)

\* The first frame starts at 0, and a frame takes its header and its body.
LEMMA Ends ==
  ASSUME stream \in Seq(Nat)
  PROVE  /\ LastFrame \in Nat /\ 0 \in 0..LastFrame /\ FrameEnd(0) = 0
         /\ \A i \in 0..LastFrame : FrameEnd(i) \in Nat
         /\ \A i \in 1..LastFrame : /\ i - 1 \in 0..LastFrame /\ stream[i] \in Nat
                                    /\ FrameEnd(i) = FrameEnd(i - 1) + (4 + stream[i])
<1> DEFINE sizes == [j \in DOMAIN stream |-> 4 + stream[j]]
<1>1. /\ LastFrame \in Nat /\ DOMAIN stream = 1..LastFrame
      /\ \A i \in 1..LastFrame : stream[i] \in Nat
  BY ElementOfSeq, LenProperties DEF LastFrame
<1>2. sizes \in Seq(Nat) /\ Len(sizes) = LastFrame /\ \A i \in 1..LastFrame : sizes[i] = 4 + stream[i]
  BY <1>1
<1>3. \A i : FrameEnd(i) = PartialSums(sizes)[i]
  BY DEF FrameEnd, Decoder!FrameEnd, Decoder!HeaderBytes, Decoder!PartialSums, PartialSums
<1> HIDE DEF sizes
<1>4. \A i \in 0..LastFrame : FrameEnd(i) \in Nat
  BY <1>2, <1>3, PartialSumsNatural
<1>5. ASSUME NEW i \in 1..LastFrame
      PROVE  i - 1 \in 0..LastFrame /\ FrameEnd(i) = FrameEnd(i - 1) + (4 + stream[i])
  <2>1. i \in 1..Len(sizes) /\ sizes[i] = 4 + stream[i] /\ i - 1 \in 0..LastFrame
    BY <1>1, <1>2
  <2>2. PartialSums(sizes)[i] = PartialSums(sizes)[i - 1] + sizes[i]
    BY <1>2, <2>1, PartialSumsStep
  <2> QED
    BY <1>3, <2>1, <2>2
<1>6. FrameEnd(0) = 0
  BY <1>1, <1>2, <1>3, PartialSumsEquation
<1> QED
  BY <1>1, <1>4, <1>5, <1>6

\* A later frame ends later.
LEMMA EndsIncrease ==
  ASSUME stream \in Seq(Nat), NEW i \in 0..LastFrame, NEW j \in 0..LastFrame, i < j
  PROVE  FrameEnd(i) < FrameEnd(j)
<1> DEFINE Odd == {n \in 0..LastFrame : i < n /\ ~(FrameEnd(i) < FrameEnd(n))}
<1>1. LastFrame \in Nat
  BY Ends
<1> SUFFICES ASSUME Odd # {} PROVE FALSE
  BY <1>1
<1>2. Odd \subseteq Nat
  BY <1>1
<1>3. PICK n \in Odd : \A k \in Odd : n <= k
  BY <1>2, LeastNatural
<1>4. n \in 1..LastFrame /\ n - 1 \in 0..LastFrame /\ i <= n - 1 /\ ~(n <= n - 1)
  BY <1>1, <1>3
<1>5. n - 1 \notin Odd
  BY <1>3, <1>4
<1>6. FrameEnd(i) <= FrameEnd(n - 1)
  <2>1. FrameEnd(i) \in Nat
    BY Ends
  <2>2. CASE i = n - 1
    BY <2>1, <2>2
  <2>3. CASE i # n - 1
    <3>1. i < n - 1 /\ FrameEnd(n - 1) \in Nat
      BY <1>1, <1>4, <2>3, Ends
    <3>2. FrameEnd(i) < FrameEnd(n - 1)
      BY <1>4, <1>5, <3>1
    <3> QED
      BY <2>1, <3>1, <3>2
  <2> QED
    BY <2>2, <2>3
<1>7. FrameEnd(n) = FrameEnd(n - 1) + (4 + stream[n]) /\ stream[n] \in Nat
      /\ FrameEnd(n - 1) \in Nat /\ FrameEnd(n) \in Nat /\ FrameEnd(i) \in Nat
  BY <1>4, Ends
<1> QED
  BY SMTT(30), <1>3, <1>6, <1>7

\* Byte n is past frame k and not past frame k + 1.
Within(n, k) ==
  /\ k \in 0..LastFrame
  /\ FrameEnd(k) <= n
  /\ k < LastFrame => n < FrameEnd(k + 1)

\* Every number of bytes is somewhere.
LEMMA SomewhereWithin ==
  ASSUME stream \in Seq(Nat), NEW n \in Nat
  PROVE  \E k : Within(n, k)
<1> DEFINE Late == {j \in 0..LastFrame : \A i \in (j + 1)..LastFrame : n < FrameEnd(i)}
<1>1. LastFrame \in Nat /\ LastFrame \in Late
  BY Ends
<1>2. Late \subseteq Nat
  BY <1>1
<1>3. PICK k \in Late : \A j \in Late : k <= j
  BY <1>1, <1>2, LeastNatural
<1>4. k < LastFrame => n < FrameEnd(k + 1)
  BY <1>1, <1>3
<1>5. FrameEnd(k) <= n
  <2>1. CASE k = 0
    BY <2>1, Ends
  <2>2. CASE k # 0
    <3>1. k - 1 \in 0..LastFrame /\ k \in 0..LastFrame /\ ~(k <= k - 1)
      BY <1>1, <1>3, <2>2
    <3>2. PICK i \in ((k - 1) + 1)..LastFrame : ~(n < FrameEnd(i))
      BY <1>3, <3>1
    <3>3. ~(i \in (k + 1)..LastFrame)
      BY <1>3, <3>2
    <3>4. i = k
      BY <1>1, <3>1, <3>2, <3>3
    <3> QED
      BY <3>1, <3>2, <3>4, Ends
  <2> QED
    BY <2>1, <2>2
<1> QED
  BY <1>3, <1>4, <1>5 DEF Within

\* The whole frames of n bytes, and whether n is a frame boundary.
LEMMA WithinLaws ==
  ASSUME stream \in Seq(Nat), NEW n \in Nat, NEW k, Within(n, k)
  PROVE  /\ Decoder!WholeFrames(n) = SubSeq(stream, 1, k)
         /\ \A i \in 0..LastFrame : FrameEnd(i) <= n => i <= k
         /\ (\E i \in 0..LastFrame : n = FrameEnd(i)) => n = FrameEnd(k)
<1> DEFINE S == {i \in 0..LastFrame : FrameEnd(i) <= n}
<1>1. /\ LastFrame \in Nat /\ k \in 0..LastFrame /\ FrameEnd(k) \in Nat /\ FrameEnd(k) <= n
      /\ k < LastFrame => n < FrameEnd(k + 1)
  BY Ends DEF Within
<1>2. ASSUME NEW i \in 0..LastFrame, FrameEnd(i) <= n
      PROVE  i <= k
  <2> SUFFICES ASSUME k < i PROVE FALSE
    BY <1>1
  <2>1. k + 1 \in 0..LastFrame /\ k < LastFrame
    BY <1>1
  <2>2. FrameEnd(k + 1) <= FrameEnd(i)
    <3>1. CASE k + 1 = i
      BY <2>1, <3>1, Ends
    <3>2. CASE k + 1 # i
      <4>1. k + 1 < i
        BY <1>1, <3>2
      <4>2. FrameEnd(k + 1) < FrameEnd(i)
        BY <2>1, <4>1, EndsIncrease
      <4>3. FrameEnd(k + 1) \in Nat /\ FrameEnd(i) \in Nat
        BY <2>1, Ends
      <4> QED
        BY <4>2, <4>3
    <3> QED
      BY <3>1, <3>2
  <2>3. FrameEnd(k + 1) \in Nat /\ FrameEnd(i) \in Nat
    BY <2>1, Ends
  <2> QED
    BY <1>1, <1>2, <2>1, <2>2, <2>3
<1>3. k \in S /\ \A i \in S : i <= k
  BY <1>1, <1>2
<1>4. Decoder!Max(S) = k
  <2>1. S \subseteq Nat
    BY <1>1
  <2> DEFINE m == CHOOSE x \in S : \A y \in S : x >= y
  <2>2. m \in S /\ \A y \in S : m >= y
    BY <1>3, <2>1
  <2>3. Decoder!Max(S) = m
    BY DEF Decoder!Max
  <2> HIDE DEF m, S
  <2> QED
    BY <1>3, <2>1, <2>2, <2>3
<1>5. Decoder!WholeFrames(n) = SubSeq(stream, 1, k)
  BY <1>4 DEF Decoder!WholeFrames, FrameEnd, LastFrame
<1>6. ASSUME NEW i \in 0..LastFrame, n = FrameEnd(i)
      PROVE  n = FrameEnd(k)
  <2>1. i <= k
    BY <1>2, <1>6, Ends
  <2>2. CASE i = k
    BY <1>6, <2>2
  <2>3. CASE i # k
    <3>1. i < k
      BY <1>1, <2>1, <2>3
    <3>2. FrameEnd(i) < FrameEnd(k)
      BY <1>1, <3>1, EndsIncrease
    <3> QED
      BY <1>1, <1>6, <3>2
  <2> QED
    BY <2>2, <2>3
<1> QED
  BY <1>2, <1>5, <1>6

\* The bytes of frame k + 1 are those after frame k.
LEMMA LengthOf ==
  ASSUME stream \in Seq(Nat), NEW n \in Nat, NEW k \in 0..LastFrame, k < LastFrame,
         FrameEnd(k) < n, n <= FrameEnd(k + 1)
  PROVE  Decoder!LengthAt(n) = stream[k + 1]
<1> DEFINE Covers(i) == i \in 1..LastFrame /\ FrameEnd(i - 1) < n /\ n <= FrameEnd(i)
           c == CHOOSE i \in 1..LastFrame : FrameEnd(i - 1) < n /\ n <= FrameEnd(i)
<1>1. LastFrame \in Nat /\ k + 1 \in 1..LastFrame /\ (k + 1) - 1 = k
  BY Ends
<1>2. Covers(k + 1)
  BY <1>1
<1>3. Covers(c)
  BY <1>2
<1>4. Decoder!LengthAt(n) = stream[c]
  BY DEF Decoder!LengthAt, FrameEnd, LastFrame
<1> HIDE DEF c
<1>5. /\ c - 1 \in 0..LastFrame /\ c \in 0..LastFrame /\ c \in Nat
      /\ FrameEnd(c - 1) \in Nat /\ FrameEnd(c) \in Nat
      /\ FrameEnd(k) \in Nat /\ FrameEnd(k + 1) \in Nat /\ k + 1 \in 0..LastFrame
  BY <1>1, <1>3, Ends
<1>6. ~(c < k + 1)
  <2> SUFFICES ASSUME c < k + 1 PROVE FALSE
    OBVIOUS
  <2>1. CASE c = k
    BY <1>3, <1>5, <2>1
  <2>2. CASE c # k
    <3>1. c < k
      BY <1>1, <1>5, <2>2
    <3>2. FrameEnd(c) < FrameEnd(k)
      BY <1>5, <3>1, EndsIncrease
    <3> QED
      BY <1>3, <1>5, <3>2
  <2> QED
    BY <2>1, <2>2
<1>7. ~(k + 1 < c)
  <2> SUFFICES ASSUME k + 1 < c PROVE FALSE
    OBVIOUS
  <2>1. CASE c - 1 = k + 1
    BY <1>3, <1>5, <2>1
  <2>2. CASE c - 1 # k + 1
    <3>1. k + 1 < c - 1
      BY <1>1, <1>5, <2>2
    <3>2. FrameEnd(k + 1) < FrameEnd(c - 1)
      BY <1>5, <3>1, EndsIncrease
    <3> QED
      BY <1>3, <1>5, <3>2
  <2> QED
    BY <2>1, <2>2
<1>8. c = k + 1
  BY <1>1, <1>5, <1>6, <1>7
<1> QED
  BY <1>4, <1>8

----------------------------------------------------------------------------
(* The decoder's private fields between two bytes.                         *)

Codes == {"frame_length_zero", "frame_too_large", "truncated_frame", "frame_timeout"}

DecoderState ==
  [header : Nat, body : Nat \cup {NoBody}, bodyBytes : Nat,
   terminal : {"none"} \cup Codes, finished : BOOLEAN, frames : Seq(Nat)]

InHeader(d, n, k) ==
  /\ d.body = NoBody /\ d.header \in 0..3
  /\ n = FrameEnd(k) + d.header
  /\ k = LastFrame => d.header = 0

InBody(d, n, k) ==
  /\ k < LastFrame /\ d.body = stream[k + 1] /\ d.body \in 1..MaxDecodedBytes
  /\ d.header = 4 /\ d.bodyBytes \in Nat /\ d.bodyBytes < d.body
  /\ n = (FrameEnd(k) + 4) + d.bodyBytes

\* After byte n the decoder is in frame k + 1, k frames behind it.
Aligned(d, n, k) ==
  /\ k \in 0..LastFrame
  /\ \A i \in 1..k : stream[i] \in 1..MaxDecodedBytes
  /\ InHeader(d, n, k) \/ InBody(d, n, k)

\* An aligned decoder is within its frame, and has part of one unless n is an end.
LEMMA AlignedLaws ==
  ASSUME stream \in Seq(Nat), NEW d, NEW n \in Nat, NEW k, Aligned(d, n, k)
  PROVE  /\ Within(n, k)
         /\ (d.header # 0 \/ d.body # NoBody) <=> n # FrameEnd(k)
<1>1. k \in 0..LastFrame /\ LastFrame \in Nat /\ FrameEnd(k) \in Nat
  BY Ends DEF Aligned
<1>2. ASSUME k < LastFrame
      PROVE  FrameEnd(k + 1) = FrameEnd(k) + (4 + stream[k + 1]) /\ stream[k + 1] \in Nat
             /\ FrameEnd(k + 1) \in Nat
  <2>1. k + 1 \in 1..LastFrame /\ (k + 1) - 1 = k /\ k + 1 \in 0..LastFrame
    BY <1>1, <1>2
  <2> QED
    BY <2>1, Ends
<1>3. CASE InHeader(d, n, k)
  <2>1. /\ d.body = NoBody /\ d.header \in 0..3 /\ n = FrameEnd(k) + d.header
        /\ k = LastFrame => d.header = 0
    BY <1>3 DEF InHeader
  <2>2. FrameEnd(k) <= n /\ (d.header # 0 <=> n # FrameEnd(k))
    BY <1>1, <2>1
  <2>3. ASSUME k < LastFrame PROVE n < FrameEnd(k + 1)
    <3>1. FrameEnd(k + 1) = FrameEnd(k) + (4 + stream[k + 1]) /\ stream[k + 1] \in Nat
      BY <1>2, <2>3
    <3>2. PICK start, end, x, h : /\ start = FrameEnd(k) /\ end = FrameEnd(k + 1)
                                  /\ x = stream[k + 1] /\ h = d.header
      OBVIOUS
    <3>3. start \in Nat /\ x \in Nat /\ h \in 0..3 /\ end = start + (4 + x) /\ n = start + h
      BY <1>1, <2>1, <3>1, <3>2
    <3>4. n < end
      BY ONLY <3>3, n \in Nat
    <3> QED
      BY <3>2, <3>4
  <2> QED
    BY <1>1, <2>1, <2>2, <2>3 DEF Within
<1>4. CASE InBody(d, n, k)
  <2>1. d.body \in Nat
    BY <1>4, DecoderAssumption DEF InBody
  <2>2. d.body # NoBody
    BY <2>1, DecoderAssumption
  <2>3. /\ k < LastFrame /\ d.body = stream[k + 1] /\ d.bodyBytes \in Nat /\ d.bodyBytes < d.body
        /\ n = (FrameEnd(k) + 4) + d.bodyBytes
    BY <1>4 DEF InBody
  <2>4. FrameEnd(k) < n /\ n < FrameEnd(k + 1)
    <3>1. PICK start, end, x, b : /\ start = FrameEnd(k) /\ end = FrameEnd(k + 1)
                                  /\ x = stream[k + 1] /\ b = d.bodyBytes
      OBVIOUS
    <3>2. /\ start \in Nat /\ x \in Nat /\ b \in Nat /\ b < x
          /\ end = start + (4 + x) /\ n = (start + 4) + b
      BY <1>1, <1>2, <2>1, <2>3, <3>1
    <3>3. start < n /\ n < end
      BY ONLY <3>2
    <3> QED
      BY <3>1, <3>3
  <2> QED
    BY <1>1, <2>2, <2>4 DEF Within
<1> QED
  BY <1>3, <1>4 DEF Aligned

\* What push() keeps from byte to byte: the frames so far continue those delivered
\* before, or the decoder has stopped with a code.
Pushed(d, n, before) ==
  /\ d \in DecoderState /\ ~d.finished
  /\ \/ d.terminal \in Codes
     \/ /\ d.terminal = "none"
        /\ \E k : Aligned(d, n, k) /\ before \o d.frames = SubSeq(stream, 1, k)

\* Appending to the second part appends to the whole.
LEMMA AppendAfter ==
  ASSUME NEW s \in Seq(Nat), NEW t \in Seq(Nat), NEW x \in Nat
  PROVE  s \o Append(t, x) = Append(s \o t, x)
<1>1. Append(t, x) = t \o <<x>> /\ <<x>> \in Seq(Nat)
  BY AppendIsConcat
<1>2. s \o t \in Seq(Nat)
  BY ConcatProperties
<1>3. Append(s \o t, x) = (s \o t) \o <<x>>
  BY <1>2, AppendIsConcat
<1>4. (s \o t) \o <<x>> = s \o (t \o <<x>>)
  BY SMTT(30), <1>1, ConcatAssociative
<1> QED
  BY <1>1, <1>3, <1>4

\* One frame more of the stream.
LEMMA NextFrame ==
  ASSUME stream \in Seq(Nat), NEW k \in 0..LastFrame, k < LastFrame,
         NEW before \in Seq(Nat), NEW frames \in Seq(Nat), before \o frames = SubSeq(stream, 1, k)
  PROVE  before \o Append(frames, stream[k + 1]) = SubSeq(stream, 1, k + 1)
<1> DEFINE x == stream[k + 1]
           a == before \o frames
           b == before \o Append(frames, x)
           c == SubSeq(stream, 1, k + 1)
<1>1. LastFrame \in Nat /\ k + 1 \in 1..LastFrame /\ k + 1 \in 0..LastFrame /\ x \in Nat
  <2>1. LastFrame \in Nat
    BY Ends
  <2>2. k + 1 \in 1..LastFrame /\ k + 1 \in 0..LastFrame
    BY <2>1
  <2> QED
    BY <2>1, <2>2, Ends
<1>2. /\ a \in Seq(Nat) /\ Len(a) = k /\ \A i \in 1..k : a[i] = stream[i]
  BY SplitProperties DEF LastFrame
<1>3. /\ c \in Seq(Nat) /\ Len(c) = k + 1 /\ \A i \in 1..(k + 1) : c[i] = stream[i]
  BY <1>1, SplitProperties DEF LastFrame
<1>4. b = Append(a, x)
  BY <1>1, AppendAfter
<1> HIDE DEF x, a, b, c
<1>5. /\ b \in Seq(Nat) /\ Len(b) = k + 1 /\ b[k + 1] = x /\ \A i \in 1..k : b[i] = stream[i]
  BY <1>1, <1>2, <1>4, AppendProperties
<1>6. ASSUME NEW i \in 1..(k + 1) PROVE b[i] = c[i]
  <2>1. CASE i = k + 1
    BY <1>3, <1>5, <1>6, <2>1 DEF x
  <2>2. CASE i # k + 1
    <3>1. i \in 1..k
      BY <1>1, <1>6, <2>2
    <3> QED
      BY <1>3, <1>5, <1>6, <3>1
  <2> QED
    BY <2>1, <2>2
<1>7. b = c
  BY <1>3, <1>5, <1>6, SeqEqual
<1> QED
  BY <1>7 DEF b, c

\* The values a byte gives the private fields.
LEMMA DecoderFields ==
  ASSUME NEW d \in DecoderState, NEW h \in Nat
  PROVE  /\ [d EXCEPT !.header = h] \in DecoderState
         /\ [d EXCEPT !.bodyBytes = h] \in DecoderState
         /\ \A b \in Nat : [d EXCEPT !.header = 4, !.body = b, !.bodyBytes = 0] \in DecoderState
         /\ \A f \in Seq(Nat) : [d EXCEPT !.frames = f, !.body = NoBody, !.bodyBytes = 0, !.header = 0]
                                   \in DecoderState
         /\ \A code \in Codes : /\ Decoder!Stop(d, code) \in DecoderState
                                /\ Decoder!Stop(d, code).terminal = code
                                /\ Decoder!Stop(d, code).finished = d.finished
                                /\ Decoder!Stop(d, code).frames = d.frames
BY DEF DecoderState, Decoder!Stop

\* A byte keeps the decoder aligned with the stream, or stops it.
LEMMA TakeByteLaws ==
  ASSUME stream \in Seq(Nat), NEW before \in Seq(Nat), NEW d, NEW n \in Nat,
         n + 1 <= FrameEnd(LastFrame), Pushed(d, n, before)
  PROVE  Pushed(Decoder!TakeByte(d, n + 1), n + 1, before)
<1> DEFINE r == Decoder!TakeByte(d, n + 1)
<1>1. d \in DecoderState /\ ~d.finished
  BY DEF Pushed
<1>2. CASE d.terminal # "none"
  <2>1. r = d /\ d.terminal \in Codes
    BY <1>2 DEF Decoder!TakeByte, Pushed
  <2> QED
    BY <1>1, <2>1 DEF Pushed
<1>3. ASSUME d.terminal = "none"
      PROVE  Pushed(r, n + 1, before)
  <2>1. PICK k : Aligned(d, n, k) /\ before \o d.frames = SubSeq(stream, 1, k)
    BY <1>3 DEF Pushed, Codes
  <2>2. k \in 0..LastFrame /\ \A i \in 1..k : stream[i] \in 1..MaxDecodedBytes
    BY <2>1 DEF Aligned
  <2>9. /\ LastFrame \in Nat /\ FrameEnd(k) \in Nat /\ FrameEnd(LastFrame) \in Nat
        /\ k \in 0..LastFrame
    <3>1. LastFrame \in Nat /\ LastFrame \in 0..LastFrame
      BY Ends
    <3> QED
      BY <2>2, <3>1, Ends
  <2>10. FrameEnd(k) <= n /\ (k < LastFrame => n < FrameEnd(k + 1))
    <3>1. Within(n, k)
      BY <2>1, AlignedLaws
    <3> QED
      BY <3>1 DEF Within
  <2>3. k < LastFrame /\ k + 1 \in 1..LastFrame /\ k + 1 \in 0..LastFrame /\ (k + 1) - 1 = k
    <3>1. k # LastFrame
      BY <2>9, <2>10
    <3> QED
      BY <2>9, <3>1
  <2> DEFINE x == stream[k + 1]
  <2>4. x \in Nat /\ FrameEnd(k + 1) = FrameEnd(k) + (4 + x) /\ FrameEnd(k + 1) \in Nat
    BY <2>3, Ends
  <2>5. Decoder!LengthAt(n + 1) = x
    <3>1. PICK start, end : start = FrameEnd(k) /\ end = FrameEnd(k + 1)
      OBVIOUS
    <3>2. start \in Nat /\ end \in Nat /\ start <= n /\ n < end
      BY <2>3, <2>4, <2>9, <2>10, <3>1
    <3>3. n + 1 \in Nat /\ start < n + 1 /\ n + 1 <= end
      BY ONLY <3>2, n \in Nat
    <3>4. n + 1 \in Nat /\ FrameEnd(k) < n + 1 /\ n + 1 <= FrameEnd(k + 1)
      BY <3>1, <3>3
    <3> QED
      BY <2>2, <2>3, <3>4, LengthOf
  <2> HIDE DEF x
  <2>6. d.frames \in Seq(Nat) /\ 4 \in Nat /\ MaxDecodedBytes \in Nat
    BY <1>1, DecoderAssumption DEF DecoderState
  <2>7. CASE InHeader(d, n, k)
    <3>1. /\ d.body = NoBody /\ d.header \in 0..3 /\ n = FrameEnd(k) + d.header
      BY <2>7 DEF InHeader
    <3>2. CASE d.header + 1 < 4
      <4>1. r = [d EXCEPT !.header = d.header + 1]
        BY <1>3, <3>1, <3>2 DEF Decoder!TakeByte, Decoder!HeaderBytes
      <4>2. d.header + 1 \in Nat /\ d.header + 1 \in 0..3 /\ n + 1 = FrameEnd(k) + (d.header + 1)
        <5>1. d.header + 1 \in Nat /\ d.header + 1 \in 0..3 /\ d.header \in Nat
          BY <3>1, <3>2
        <5>2. \A a, b \in Nat : (a + b) + 1 = a + (b + 1)
          OBVIOUS
        <5> QED
          BY <2>9, <3>1, <5>1, <5>2
      <4> HIDE DEF r
      <4>3. r \in DecoderState
        BY <1>1, <4>1, <4>2, DecoderFields
      <4>4. /\ r.header = d.header + 1 /\ r.body = NoBody /\ r.terminal = "none"
            /\ ~r.finished /\ r.frames = d.frames
        BY <1>1, <1>3, <3>1, <4>1 DEF DecoderState
      <4>5. Aligned(r, n + 1, k)
        BY <2>2, <2>3, <4>2, <4>4 DEF Aligned, InHeader
      <4> QED
        BY <2>1, <4>3, <4>4, <4>5 DEF Pushed
    <3>3. ASSUME d.header = 3
          PROVE  Pushed(r, n + 1, before)
      <4>1. r = IF x = 0 THEN Decoder!Stop(d, "frame_length_zero")
                ELSE IF x > MaxDecodedBytes THEN Decoder!Stop(d, "frame_too_large")
                ELSE [d EXCEPT !.header = 4, !.body = x, !.bodyBytes = 0]
        <5>1. ~(d.header + 1 < 4)
          BY <3>3
        <5> QED
          BY <1>3, <2>5, <3>1, <5>1 DEF Decoder!TakeByte, Decoder!HeaderBytes
      <4> HIDE DEF r
      <4>2. CASE x = 0 \/ x > MaxDecodedBytes
        <5>1. PICK code \in Codes : r = Decoder!Stop(d, code)
          BY <4>1, <4>2 DEF Codes
        <5>2. r \in DecoderState /\ r.terminal = code /\ r.finished = d.finished
          BY <1>1, <5>1, DecoderFields
        <5> QED
          BY <1>1, <5>1, <5>2 DEF Pushed
      <4>3. CASE x # 0 /\ ~(x > MaxDecodedBytes)
        <5>1. r = [d EXCEPT !.header = 4, !.body = x, !.bodyBytes = 0]
          BY <4>1, <4>3
        <5>2. r \in DecoderState
          BY <1>1, <2>4, <5>1, DecoderFields
        <5>3. /\ r.header = 4 /\ r.body = x /\ r.bodyBytes = 0 /\ r.terminal = "none"
              /\ ~r.finished /\ r.frames = d.frames
          BY <1>1, <1>3, <5>1 DEF DecoderState
        <5>4. x \in 1..MaxDecodedBytes /\ 0 < x /\ n + 1 = (FrameEnd(k) + 4) + 0
          BY SMTT(30), <2>4, <2>6, <2>9, <3>1, <3>3, <4>3
        <5>5. InBody(r, n + 1, k)
          BY <2>3, <5>3, <5>4 DEF InBody, x
        <5>6. Aligned(r, n + 1, k)
          BY <2>2, <5>5 DEF Aligned
        <5> QED
          BY <2>1, <5>2, <5>3, <5>6 DEF Pushed
      <4> QED
        BY <4>2, <4>3
    <3> QED
      BY <3>1, <3>2, <3>3
  <2>8. CASE InBody(d, n, k)
    <3>1. /\ d.body = x /\ x \in 1..MaxDecodedBytes /\ d.header = 4
          /\ d.bodyBytes \in Nat /\ d.bodyBytes < x /\ n = (FrameEnd(k) + 4) + d.bodyBytes
      BY <2>8 DEF InBody, x
    <3>2. d.body # NoBody
      BY <2>4, <3>1, DecoderAssumption
    <3>3. CASE d.bodyBytes + 1 < x
      <4>1. r = [d EXCEPT !.bodyBytes = d.bodyBytes + 1]
        BY <1>3, <3>1, <3>2, <3>3 DEF Decoder!TakeByte
      <4>2. d.bodyBytes + 1 \in Nat /\ n + 1 = (FrameEnd(k) + 4) + (d.bodyBytes + 1)
        BY SMTT(30), <2>9, <3>1
      <4> HIDE DEF r
      <4>3. r \in DecoderState
        BY <1>1, <4>1, <4>2, DecoderFields
      <4>4. /\ r.header = 4 /\ r.body = x /\ r.bodyBytes = d.bodyBytes + 1 /\ r.terminal = "none"
            /\ ~r.finished /\ r.frames = d.frames
        BY <1>1, <1>3, <3>1, <4>1 DEF DecoderState
      <4>5. InBody(r, n + 1, k)
        BY <2>3, <3>1, <3>3, <4>2, <4>4 DEF InBody, x
      <4>6. Aligned(r, n + 1, k)
        BY <2>2, <4>5 DEF Aligned
      <4> QED
        BY <2>1, <4>3, <4>4, <4>6 DEF Pushed
    <3>4. CASE ~(d.bodyBytes + 1 < x)
      <4> DEFINE f == Append(d.frames, x)
      <4>1. r = [d EXCEPT !.frames = f, !.body = NoBody, !.bodyBytes = 0, !.header = 0]
        BY <1>1, <1>3, <3>1, <3>2, <3>4 DEF Decoder!TakeByte, DecoderState
      <4>2. f \in Seq(Nat)
        BY <2>4, <2>6, AppendProperties
      <4> HIDE DEF f, r
      <4>3. r \in DecoderState
        BY <1>1, <4>1, <4>2, DecoderFields
      <4>4. /\ r.header = 0 /\ r.body = NoBody /\ r.terminal = "none"
            /\ ~r.finished /\ r.frames = f
        BY <1>1, <1>3, <4>1 DEF DecoderState
      <4>5. d.bodyBytes + 1 = x /\ n + 1 = FrameEnd(k + 1) + 0
        <5>1. d.bodyBytes + 1 = x
          BY <2>4, <3>1, <3>4
        <5>2. \A a, b \in Nat : ((a + 4) + b) + 1 = (a + (4 + (b + 1))) + 0
          OBVIOUS
        <5>3. n + 1 = (FrameEnd(k) + (4 + (d.bodyBytes + 1))) + 0
          BY <2>9, <3>1, <5>2
        <5> QED
          BY <2>4, <5>1, <5>3
      <4>6. InHeader(r, n + 1, k + 1)
        BY <4>4, <4>5 DEF InHeader
      <4>7. ASSUME NEW i \in 1..(k + 1) PROVE stream[i] \in 1..MaxDecodedBytes
        <5>1. CASE i = k + 1
          BY <3>1, <5>1 DEF x
        <5>2. CASE i # k + 1
          <6>1. i \in 1..k
            BY <2>2, <4>7, <5>2
          <6> QED
            BY <2>2, <6>1
        <5> QED
          BY <5>1, <5>2
      <4>8. Aligned(r, n + 1, k + 1)
        BY <2>3, <4>6, <4>7 DEF Aligned
      <4>9. before \o f = SubSeq(stream, 1, k + 1)
        BY <2>1, <2>2, <2>3, <2>6, NextFrame DEF f, x
      <4> QED
        BY <4>3, <4>4, <4>8, <4>9 DEF Pushed
    <3> QED
      BY <3>3, <3>4
  <2> QED
    BY <2>1, <2>7, <2>8 DEF Aligned
<1> QED
  BY <1>2, <1>3

----------------------------------------------------------------------------
(* A chunk, byte by byte.                                                  *)

Cleared == [decoder EXCEPT !.frames = <<>>]

IsPush(h, n) ==
  h = [i \in 0..n |-> IF i = 0 THEN Cleared ELSE Decoder!TakeByte(h[i - 1], consumed + i)]

\* The recursion of PushBytes has a solution, over any number of bytes.
LEMMA PushExists ==
  ASSUME NEW n \in Nat
  PROVE  \E h : IsPush(h, n)
<1> DEFINE Step(a, i) == Decoder!TakeByte(a, consumed + i)
           Exists(m) == \E h : h = [i \in 0..m |-> IF i = 0 THEN Cleared ELSE Step(h[i - 1], i)]
           Missing == {m \in Nat : ~Exists(m)}
<1> HIDE DEF Step
<1>1. Exists(0)
  <2> DEFINE h == [i \in 0..0 |-> Cleared]
  <2>1. h = [i \in 0..0 |-> IF i = 0 THEN Cleared ELSE Step(h[i - 1], i)]
    OBVIOUS
  <2> QED BY <2>1
<1>2. ASSUME NEW m \in Nat, Exists(m)
      PROVE  Exists(m + 1)
  <2>1. PICK h : h = [i \in 0..m |-> IF i = 0 THEN Cleared ELSE Step(h[i - 1], i)]
    BY <1>2
  <2> DEFINE g == [i \in 0..(m + 1) |-> IF i <= m THEN h[i] ELSE Step(h[m], m + 1)]
  <2>2. g = [i \in 0..(m + 1) |-> IF i = 0 THEN Cleared ELSE Step(g[i - 1], i)]
    <3> SUFFICES ASSUME NEW i \in 0..(m + 1)
                 PROVE  g[i] = IF i = 0 THEN Cleared ELSE Step(g[i - 1], i)
      OBVIOUS
    <3>1. CASE i <= m
      <4>1. g[i] = h[i] /\ (i # 0 => g[i - 1] = h[i - 1])
        BY <3>1
      <4>2. h[i] = IF i = 0 THEN Cleared ELSE Step(h[i - 1], i)
        BY <2>1, <3>1
      <4> QED BY <4>1, <4>2
    <3>2. CASE i = m + 1
      BY <3>2
    <3> QED BY <3>1, <3>2
  <2> QED BY <2>2
<1> SUFFICES Missing = {}
  BY DEF Step, IsPush
<1> SUFFICES ASSUME Missing # {} PROVE FALSE
  OBVIOUS
<1> HIDE DEF Exists
<1>3. PICK m \in Missing : \A k \in Missing : m <= k
  BY LeastNatural, Missing \subseteq Nat
<1>4. m # 0
  BY <1>1, <1>3
<1>5. m - 1 \in Nat /\ ~(m - 1 \in Missing)
  BY <1>3, <1>4
<1> QED BY <1>2, <1>3, <1>5

\* A chunk keeps the decoder aligned with the stream, or stops it.
LEMMA PushLaws ==
  ASSUME stream \in Seq(Nat), consumed \in Nat, NEW n \in Nat, consumed + n <= FrameEnd(LastFrame),
         NEW before \in Seq(Nat), Pushed(Cleared, consumed, before)
  PROVE  Pushed(Decoder!PushBytes(n), consumed + n, before)
<1>1. PICK g : IsPush(g, n) /\ Decoder!PushBytes(n) = g[n]
  <2> DEFINE after == CHOOSE g : IsPush(g, n)
  <2>1. IsPush(after, n)
    BY PushExists
  <2>2. Decoder!PushBytes(n) = after[n]
    BY DEF Decoder!PushBytes, IsPush, Cleared
  <2> QED
    BY <2>1, <2>2
<1> DEFINE Bad == {i \in 0..n : ~Pushed(g[i], consumed + i, before)}
<1>2. Pushed(g[0], consumed + 0, before)
  <2>1. g[0] = Cleared
    BY <1>1 DEF IsPush
  <2>2. consumed + 0 = consumed
    OBVIOUS
  <2> QED
    BY <2>1, <2>2
<1>3. ASSUME NEW i \in 1..n, Pushed(g[i - 1], consumed + (i - 1), before)
      PROVE  Pushed(g[i], consumed + i, before)
  <2>1. g[i] = Decoder!TakeByte(g[i - 1], consumed + i)
    <3>1. i \in 0..n /\ i # 0
      BY <1>3
    <3>2. g[i] = IF i = 0 THEN Cleared ELSE Decoder!TakeByte(g[i - 1], consumed + i)
      BY <1>1, <3>1 DEF IsPush
    <3> QED
      BY <3>1, <3>2
  <2>2. /\ consumed + (i - 1) \in Nat /\ (consumed + (i - 1)) + 1 = consumed + i
        /\ consumed + i <= consumed + n
    BY <1>3
  <2>3. (consumed + (i - 1)) + 1 <= FrameEnd(LastFrame)
    <3>1. FrameEnd(LastFrame) \in Nat
      BY Ends
    <3> QED
      BY <2>2, <3>1
  <2>4. Pushed(Decoder!TakeByte(g[i - 1], (consumed + (i - 1)) + 1), (consumed + (i - 1)) + 1, before)
    BY <1>3, <2>2, <2>3, TakeByteLaws
  <2> QED
    BY <2>1, <2>2, <2>4
<1>4. Bad = {}
  <2> SUFFICES ASSUME Bad # {} PROVE FALSE
    OBVIOUS
  <2>1. PICK i \in Bad : \A k \in Bad : i <= k
    BY LeastNatural, Bad \subseteq Nat
  <2>2. i # 0 /\ i \in 1..n /\ ~Pushed(g[i], consumed + i, before)
    <3>1. i \in 0..n /\ ~Pushed(g[i], consumed + i, before)
      BY <2>1
    <3>2. i # 0
      BY <1>2, <3>1
    <3> QED
      BY <3>1, <3>2
  <2>3. i - 1 \in 0..n /\ ~(i <= i - 1)
    BY <2>2
  <2>4. Pushed(g[i - 1], consumed + (i - 1), before)
    BY <2>1, <2>3
  <2> QED
    BY <1>3, <2>2, <2>4
<1>5. n \in 0..n
  OBVIOUS
<1> QED
  BY <1>1, <1>4, <1>5

----------------------------------------------------------------------------
(* The invariant of the decoder and of the loop around it.                 *)

\* k frames were delivered: on an open connection the decoder is in the next one,
\* and a stream that ended, ended behind them.
Followed(k) ==
  /\ delivered = SubSeq(stream, 1, k)
  /\ \A i \in 1..k : stream[i] \in 1..MaxDecodedBytes
  /\ FrameEnd(k) <= consumed
  /\ connection = "open" => Aligned(decoder, consumed, k)
  /\ connection = "ended" => consumed = FrameEnd(k)

DecoderInv ==
  /\ stream \in Seq(Nat)
  /\ consumed \in Nat /\ consumed <= FrameEnd(LastFrame)
  /\ decoder \in DecoderState
  /\ connection \in {"open", "ended"} \cup Codes
  /\ connection = "open" => /\ decoder.terminal = "none" /\ ~decoder.finished
                            /\ deadline <=> (decoder.header # 0 \/ decoder.body # NoBody)
  /\ \E k \in 0..LastFrame : Followed(k)

\* Nothing was read of any stream.
LEMMA DecoderInit == Decoder!Init => DecoderInv
<1> SUFFICES ASSUME Decoder!Init PROVE DecoderInv
  OBVIOUS
<1>1. stream \in Seq(Nat)
  BY DecoderAssumption DEF Decoder!Init
<1>2. /\ consumed = 0 /\ delivered = <<>> /\ deadline = FALSE /\ connection = "open"
      /\ decoder = [header |-> 0, body |-> NoBody, bodyBytes |-> 0,
                    terminal |-> "none", finished |-> FALSE, frames |-> <<>>]
  BY DEF Decoder!Init
<1>3. decoder \in DecoderState
  BY <1>2 DEF DecoderState
<1>4. /\ LastFrame \in Nat /\ 0 \in 0..LastFrame /\ FrameEnd(0) = 0 /\ FrameEnd(LastFrame) \in Nat
  <2>1. LastFrame \in Nat /\ LastFrame \in 0..LastFrame
    BY <1>1, Ends
  <2> QED
    BY <1>1, <2>1, Ends
<1>5. Followed(0)
  <2>1. delivered = SubSeq(stream, 1, 0)
    BY <1>1, <1>2, SplitProperties, EmptySeq
  <2>2. InHeader(decoder, consumed, 0)
    BY <1>2, <1>4 DEF InHeader
  <2>3. Aligned(decoder, consumed, 0)
    BY <1>4, <2>2 DEF Aligned
  <2> QED
    BY <1>2, <1>4, <2>1, <2>3 DEF Followed
<1> QED
  BY <1>1, <1>2, <1>3, <1>4, <1>5 DEF DecoderInv

\* The stream stays what it is.
LEMMA StreamKept ==
  ASSUME stream' = stream
  PROVE  /\ LastFrame' = LastFrame
         /\ FrameEnd(LastFrame)' = FrameEnd(LastFrame)
         /\ \A k : FrameEnd(k)' = FrameEnd(k)
         /\ \A d, n, k : Aligned(d, n, k)' <=> Aligned(d, n, k)
BY DEF LastFrame, FrameEnd, Decoder!FrameEnd, Aligned, InHeader, InBody

\* A chunk keeps the invariant, whole frames, part of one or a bad length in it.
LEMMA ChunkStep ==
  ASSUME DecoderInv, NEW count \in 1..MaxChunk, Decoder!Chunk(count)
  PROVE  DecoderInv'
<1>1. /\ stream \in Seq(Nat) /\ consumed \in Nat /\ decoder \in DecoderState
      /\ connection = "open" /\ decoder.terminal = "none" /\ ~decoder.finished
  BY DEF DecoderInv, Decoder!Chunk
<1>2. PICK k \in 0..LastFrame : Followed(k)
  BY DEF DecoderInv
<1>3. /\ delivered = SubSeq(stream, 1, k) /\ FrameEnd(k) <= consumed /\ Aligned(decoder, consumed, k)
      /\ \A i \in 1..k : stream[i] \in 1..MaxDecodedBytes
  BY <1>1, <1>2 DEF Followed
<1>4. /\ consumed' = consumed + count /\ decoder' = Decoder!PushBytes(count) /\ stream' = stream
      /\ consumed + count <= FrameEnd(LastFrame)
      /\ IF decoder'.terminal = "none"
         THEN /\ delivered' = delivered \o decoder'.frames
              /\ deadline' = Decoder!HasPartialFrame(decoder')
              /\ connection' = connection
         ELSE /\ connection' = decoder'.terminal
              /\ deadline' = FALSE
              /\ delivered' = delivered
  BY DEF Decoder!Chunk, Decoder!ByteCount, FrameEnd, LastFrame
<1>5. count \in Nat /\ consumed' \in Nat /\ consumed <= consumed' /\ delivered \in Seq(Nat)
  <2>1. count \in Nat
    BY DecoderAssumption
  <2>2. delivered \in Seq(Nat)
    BY <1>1, <1>2, <1>3, SplitProperties DEF LastFrame
  <2> QED
    BY <1>1, <1>4, <2>1, <2>2
<1>6. Pushed(Cleared, consumed, delivered)
  <2>1. /\ Cleared \in DecoderState /\ Cleared.frames = <<>> /\ Cleared.terminal = "none"
        /\ ~Cleared.finished /\ Cleared.header = decoder.header /\ Cleared.body = decoder.body
        /\ Cleared.bodyBytes = decoder.bodyBytes
    <3>1. decoder \in DecoderState /\ <<>> \in Seq(Nat)
      BY <1>1
    <3>2. Cleared \in DecoderState
      BY <3>1 DEF Cleared, DecoderState
    <3>3. /\ Cleared.frames = <<>> /\ Cleared.terminal = decoder.terminal
          /\ Cleared.finished = decoder.finished /\ Cleared.header = decoder.header
          /\ Cleared.body = decoder.body /\ Cleared.bodyBytes = decoder.bodyBytes
      BY <3>1 DEF Cleared, DecoderState
    <3> QED
      BY <1>1, <3>2, <3>3
  <2>2. Aligned(Cleared, consumed, k)
    BY <1>3, <2>1 DEF Aligned, InHeader, InBody
  <2>3. delivered \o <<>> = delivered
    BY <1>5, ConcatProperties
  <2> QED
    BY <1>3, <2>1, <2>2, <2>3 DEF Pushed
<1>7. Pushed(decoder', consumed', delivered)
  BY <1>1, <1>4, <1>5, <1>6, PushLaws
<1>8. /\ stream' \in Seq(Nat) /\ consumed' <= FrameEnd(LastFrame)' /\ decoder' \in DecoderState
      /\ ~decoder'.finished
  BY <1>1, <1>4, <1>7, StreamKept DEF Pushed
<1>9. CASE decoder'.terminal = "none"
  <2>1. PICK m : Aligned(decoder', consumed', m) /\ delivered \o decoder'.frames = SubSeq(stream, 1, m)
    BY <1>7, <1>9 DEF Pushed, Codes
  <2>2. /\ delivered' = SubSeq(stream, 1, m) /\ connection' = "open"
        /\ deadline' <=> (decoder'.header # 0 \/ decoder'.body # NoBody)
    BY <1>1, <1>4, <1>8, <1>9, <2>1 DEF Decoder!HasPartialFrame
  <2>3. m \in 0..LastFrame /\ FrameEnd(m) <= consumed'
        /\ \A i \in 1..m : stream[i] \in 1..MaxDecodedBytes
    BY <1>1, <1>5, <2>1, AlignedLaws DEF Aligned, Within
  <2>4. Followed(m)'
    <3>1. FrameEnd(m)' = FrameEnd(m) /\ Aligned(decoder, consumed, m)'
      BY <1>4, <2>1, StreamKept DEF Aligned, InHeader, InBody
    <3> QED
      BY <1>4, <2>2, <2>3, <3>1 DEF Followed
  <2>5. m \in 0..LastFrame'
    BY <1>4, <2>3, StreamKept
  <2> QED
    BY <1>5, <1>8, <1>9, <2>2, <2>4, <2>5 DEF DecoderInv
<1>10. CASE decoder'.terminal # "none"
  <2>1. connection' \in Codes /\ delivered' = delivered
    BY <1>4, <1>7, <1>10 DEF Pushed
  <2>2. connection' # "open" /\ connection' # "ended"
    BY <2>1 DEF Codes
  <2>3. k \in 0..LastFrame' /\ FrameEnd(k)' = FrameEnd(k) /\ FrameEnd(k) \in Nat
    BY <1>1, <1>4, StreamKept, Ends
  <2>4. FrameEnd(k) <= consumed'
    BY <1>1, <1>3, <1>5, <2>3
  <2>5. Followed(k)'
    BY <1>3, <1>4, <2>1, <2>2, <2>3, <2>4 DEF Followed
  <2> QED
    BY <1>5, <1>8, <2>1, <2>2, <2>3, <2>5 DEF DecoderInv
<1> QED
  BY <1>9, <1>10

\* The end of the stream and the deadline, which read nothing.
LEMMA StopStep ==
  ASSUME DecoderInv, Decoder!EndOfStream \/ Decoder!ExpirePartialFrame
  PROVE  DecoderInv'
<1>1. /\ stream \in Seq(Nat) /\ consumed \in Nat /\ consumed <= FrameEnd(LastFrame)
      /\ decoder \in DecoderState /\ connection = "open"
      /\ decoder.terminal = "none" /\ ~decoder.finished
      /\ deadline <=> (decoder.header # 0 \/ decoder.body # NoBody)
      /\ stream' = stream /\ consumed' = consumed /\ delivered' = delivered
  BY DEF DecoderInv, Decoder!EndOfStream, Decoder!ExpirePartialFrame
<1>2. PICK k \in 0..LastFrame : Followed(k)
  BY DEF DecoderInv
<1>3. /\ delivered = SubSeq(stream, 1, k) /\ FrameEnd(k) <= consumed /\ Aligned(decoder, consumed, k)
      /\ \A i \in 1..k : stream[i] \in 1..MaxDecodedBytes
  BY <1>1, <1>2 DEF Followed
<1>4. (decoder.header # 0 \/ decoder.body # NoBody) <=> consumed # FrameEnd(k)
  BY <1>1, <1>3, AlignedLaws
<1>5. /\ decoder' \in DecoderState
      /\ connection' \in Codes \/ (connection' = "ended" /\ consumed = FrameEnd(k))
  <2>1. CASE Decoder!EndOfStream
    <3>1. CASE decoder.header # 0 \/ decoder.body # NoBody
      <4> DEFINE f == [decoder EXCEPT !.finished = TRUE]
      <4>1. decoder' = Decoder!Stop(f, "truncated_frame") /\ connection' = "truncated_frame"
        BY <2>1, <3>1 DEF Decoder!EndOfStream
      <4>2. f \in DecoderState
        BY <1>1 DEF DecoderState
      <4> HIDE DEF f
      <4>3. "truncated_frame" \in Codes
        BY DEF Codes
      <4> QED
        BY <4>1, <4>2, <4>3, DecoderFields
    <3>2. CASE ~(decoder.header # 0 \/ decoder.body # NoBody)
      <4>1. decoder' = [decoder EXCEPT !.finished = TRUE] /\ connection' = "ended"
        BY <2>1, <3>2 DEF Decoder!EndOfStream
      <4>2. decoder' \in DecoderState
        BY <1>1, <4>1 DEF DecoderState
      <4> QED
        BY <1>4, <3>2, <4>1, <4>2
    <3> QED
      BY <3>1, <3>2
  <2>2. CASE Decoder!ExpirePartialFrame
    <3>1. decoder' = Decoder!Stop(decoder, "frame_timeout") /\ connection' = "frame_timeout"
      BY <1>1, <2>2 DEF Decoder!ExpirePartialFrame
    <3>2. "frame_timeout" \in Codes
      BY DEF Codes
    <3> QED
      BY <1>1, <3>1, <3>2, DecoderFields
  <2> QED
    BY <2>1, <2>2
<1>6. /\ k \in 0..LastFrame' /\ FrameEnd(k)' = FrameEnd(k)
      /\ FrameEnd(LastFrame)' = FrameEnd(LastFrame)
  BY <1>1, <1>2, StreamKept
<1>7. connection' # "open" /\ (connection' = "ended" => consumed = FrameEnd(k))
      /\ connection' \in {"open", "ended"} \cup Codes
  BY <1>5 DEF Codes
<1>8. Followed(k)'
  BY <1>1, <1>3, <1>6, <1>7 DEF Followed
<1> QED
  BY <1>1, <1>5, <1>6, <1>7, <1>8 DEF DecoderInv

\* Every step of the decoder keeps the invariant.
LEMMA DecoderNext == DecoderInv /\ [Decoder!Next]_Decoder!vars => DecoderInv'
<1> SUFFICES ASSUME DecoderInv, [Decoder!Next]_Decoder!vars PROVE DecoderInv'
  OBVIOUS
<1>1. CASE UNCHANGED Decoder!vars
  <2>1. /\ stream' = stream /\ consumed' = consumed /\ decoder' = decoder
        /\ delivered' = delivered /\ deadline' = deadline /\ connection' = connection
    BY <1>1 DEF Decoder!vars
  <2>2. PICK k \in 0..LastFrame : Followed(k)
    BY DEF DecoderInv
  <2>3. k \in 0..LastFrame' /\ FrameEnd(k)' = FrameEnd(k) /\ FrameEnd(LastFrame)' = FrameEnd(LastFrame)
    BY <2>1, <2>2, StreamKept
  <2>4. Aligned(decoder, consumed, k) => Aligned(decoder, consumed, k)'
    BY <2>1, StreamKept DEF Aligned, InHeader, InBody
  <2>5. Followed(k)'
    BY <2>1, <2>2, <2>3, <2>4 DEF Followed
  <2> QED
    BY <2>1, <2>3, <2>5 DEF DecoderInv
<1>2. CASE Decoder!Next
  BY <1>2, ChunkStep, StopStep DEF Decoder!Next
<1> QED
  BY <1>1, <1>2

\* The frames delivered are the whole frames received, in order, for any stream,
\* limit and cut into chunks.
LEMMA DecoderMatches == DecoderInv => FramesMatchStream
<1> SUFFICES ASSUME DecoderInv PROVE FramesMatchStream
  OBVIOUS
<1>1. /\ stream \in Seq(Nat) /\ consumed \in Nat
  BY DEF DecoderInv
<1>2. PICK k \in 0..LastFrame : Followed(k)
  BY DEF DecoderInv
<1>3. PICK m : Within(consumed, m)
  BY <1>1, SomewhereWithin
<1>4. Decoder!WholeFrames(consumed) = SubSeq(stream, 1, m) /\ k <= m /\ m \in 0..LastFrame
      /\ LastFrame \in Nat
  <2>1. FrameEnd(k) <= consumed
    BY <1>2 DEF Followed
  <2>2. m \in 0..LastFrame
    BY <1>3 DEF Within
  <2> QED
    BY <1>1, <1>3, <2>1, <2>2, WithinLaws, Ends
<1>5. /\ delivered \in Seq(Nat) /\ Len(delivered) = k /\ \A i \in 1..k : delivered[i] = stream[i]
      /\ \A i \in 1..k : stream[i] \in 1..MaxDecodedBytes
  BY <1>1, <1>2, SplitProperties DEF Followed, LastFrame
<1>6. Decoder!IsPrefix(delivered, Decoder!WholeFrames(consumed))
  <2> DEFINE whole == SubSeq(stream, 1, m)
  <2>1. whole \in Seq(Nat) /\ Len(whole) = m /\ \A i \in 1..m : whole[i] = stream[i]
    BY <1>1, <1>4, SplitProperties DEF LastFrame
  <2> HIDE DEF whole
  <2> DEFINE a == SubSeq(delivered, 1, k)
             b == SubSeq(whole, 1, k)
  <2>2. a \in Seq(Nat) /\ Len(a) = k /\ \A i \in 1..k : a[i] = delivered[i]
    <3>1. k \in 0..Len(delivered)
      BY <1>4, <1>5
    <3> QED
      BY <1>5, <3>1, SplitProperties
  <2>3. b \in Seq(Nat) /\ Len(b) = k /\ \A i \in 1..k : b[i] = whole[i]
    <3>1. k \in 0..Len(whole)
      BY <1>4, <2>1
    <3> QED
      BY <2>1, <3>1, SplitProperties
  <2> HIDE DEF a, b
  <2>4. \A i \in 1..k : a[i] = b[i]
    BY <1>4, <1>5, <2>1, <2>2, <2>3
  <2>5. a = b
    BY <2>2, <2>3, <2>4, SeqEqual
  <2> QED
    BY <1>4, <1>5, <2>1, <2>5 DEF Decoder!IsPrefix, whole, a, b
<1>7. connection \in {"open", "ended"} => delivered = Decoder!WholeFrames(consumed)
  <2> SUFFICES ASSUME connection \in {"open", "ended"} PROVE delivered = Decoder!WholeFrames(consumed)
    OBVIOUS
  <2>1. Within(consumed, k)
    <3>1. CASE connection = "open"
      BY <1>1, <1>2, <3>1, AlignedLaws DEF Followed
    <3>2. CASE connection = "ended"
      <4>1. consumed = FrameEnd(k)
        BY <1>2, <3>2 DEF Followed
      <4>2. ASSUME k < LastFrame PROVE FrameEnd(k) < FrameEnd(k + 1)
        <5>1. k + 1 \in 0..LastFrame /\ k < k + 1
          BY <1>4, <4>2
        <5> QED
          BY <1>1, <1>2, <5>1, EndsIncrease
      <4> QED
        BY <1>1, <4>1, <4>2 DEF Within
    <3> QED
      BY <3>1, <3>2
  <2>2. Decoder!WholeFrames(consumed) = SubSeq(stream, 1, k)
    BY <1>1, <2>1, WithinLaws
  <2> QED
    BY <1>2, <2>2 DEF Followed
<1>8. connection = "ended" => \E i \in 0..LastFrame : consumed = FrameEnd(i)
  BY <1>2 DEF Followed
<1>9. DOMAIN delivered = 1..k
  BY <1>5, LenProperties
<1> QED
  BY <1>5, <1>6, <1>7, <1>8, <1>9
     DEF FramesMatchStream, Decoder!FramesMatchStream, FrameEnd, LastFrame

\* The deadline runs exactly while a frame is incomplete.
LEMMA DecoderCovers == DecoderInv => DeadlineCoversPartialFrame
<1> SUFFICES ASSUME DecoderInv, connection = "open"
             PROVE  deadline <=> \A i \in 0..LastFrame : consumed # FrameEnd(i)
  BY DEF DeadlineCoversPartialFrame, Decoder!DeadlineCoversPartialFrame, FrameEnd, LastFrame
<1>1. /\ stream \in Seq(Nat) /\ consumed \in Nat
      /\ deadline <=> (decoder.header # 0 \/ decoder.body # NoBody)
  BY DEF DecoderInv
<1>2. PICK k \in 0..LastFrame : Followed(k)
  BY DEF DecoderInv
<1>3. Aligned(decoder, consumed, k)
  BY <1>2 DEF Followed
<1>4. Within(consumed, k) /\ (deadline <=> consumed # FrameEnd(k))
  BY <1>1, <1>3, AlignedLaws
<1>5. (\E i \in 0..LastFrame : consumed = FrameEnd(i)) => consumed = FrameEnd(k)
  BY <1>1, <1>4, WithinLaws
<1> QED
  BY <1>2, <1>4, <1>5

----------------------------------------------------------------------------
\* The frames a peer is handed are exactly the whole frames it was sent, in order,
\* for any stream, limit and cut into chunks, and a stream ends between two frames.
THEOREM DecoderFollowsStream == Decoder!Spec => []FramesMatchStream
<1>1. Decoder!Spec => []DecoderInv
  BY DecoderInit, DecoderNext, PTL DEF Decoder!Spec
<1> QED
  BY <1>1, DecoderMatches, PTL

\* The partial-frame deadline runs exactly while a frame is incomplete.
THEOREM DecoderDeadline == Decoder!Spec => []DeadlineCoversPartialFrame
<1>1. Decoder!Spec => []DecoderInv
  BY DecoderInit, DecoderNext, PTL DEF Decoder!Spec
<1> QED
  BY <1>1, DecoderCovers, PTL

\* Both halves side by side, as the runs check them.
THEOREM FramingSafe ==
  FramingSpec => [](/\ QueueAccounting /\ NoIdleCapacity
                    /\ FramesMatchStream /\ DeadlineCoversPartialFrame)
<1>1. FramingSpec => Init /\ Decoder!Init
  BY DEF FramingSpec, FramingInit
<1>2. [FramingNext]_<<side, vars, decoderVars>> => [Next]_vars
  BY DEF FramingNext, vars
<1>3. [FramingNext]_<<side, vars, decoderVars>> => [Decoder!Next]_Decoder!vars
  BY DEF FramingNext, decoderVars, Decoder!vars
<1>4. FramingSpec => []WriterInv
  BY <1>1, <1>2, WriterInit, WriterNext, PTL DEF FramingSpec
<1>5. FramingSpec => []DecoderInv
  BY <1>1, <1>3, DecoderInit, DecoderNext, PTL DEF FramingSpec
<1> QED
  BY <1>4, <1>5, WriterSound, DecoderMatches, DecoderCovers, PTL
============================================================================

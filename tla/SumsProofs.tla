----------------------------- MODULE SumsProofs -----------------------------
(***************************************************************************)
(* Induction over the naturals in first-order form (the least element of a *)
(* set of naturals), and from it the laws of SumOf: it is a natural, adds  *)
(* up over concatenation, and so over appending, removing and splitting.   *)
(***************************************************************************)
EXTENDS Sums, Integers, SequenceTheorems, WellFoundedInduction, TLAPS

\* A set of naturals has a least element: the induction of these proofs looks
\* at the least counterexample.
LEMMA LeastNatural ==
  ASSUME NEW T, T \subseteq Nat, T # {}
  PROVE  \E x \in T : \A y \in T : x <= y
<1> DEFINE R == OpToRel(<, Nat)
<1>1. IsWellFoundedOn(R, Nat)
  BY NatLessThanWellFounded DEF OpToRel
<1>2. \A y, x \in T : y < x => <<y, x>> \in R
  BY DEF OpToRel
<1> HIDE DEF R
<1>3. PICK x \in T : \A y \in T : ~(<<y, x>> \in R)
  BY <1>1, WFMin
<1>4. \A y \in T : ~(y < x)
  BY <1>2, <1>3
<1> QED BY <1>4

\* The recursion of PartialSums has a solution, of any length.
LEMMA PartialSumsExist ==
  ASSUME NEW s, NEW n \in Nat
  PROVE  \E h : h = [i \in 0..n |-> IF i = 0 THEN 0 ELSE h[i - 1] + s[i]]
<1> DEFINE Exists(m) == \E h : h = [i \in 0..m |-> IF i = 0 THEN 0 ELSE h[i - 1] + s[i]]
           Missing == {m \in Nat : ~Exists(m)}
<1>1. Exists(0)
  <2> DEFINE h == [i \in 0..0 |-> 0]
  <2>1. h = [i \in 0..0 |-> IF i = 0 THEN 0 ELSE h[i - 1] + s[i]]
    OBVIOUS
  <2> QED BY <2>1
<1>2. ASSUME NEW m \in Nat, Exists(m)
      PROVE  Exists(m + 1)
  <2>1. PICK h : h = [i \in 0..m |-> IF i = 0 THEN 0 ELSE h[i - 1] + s[i]]
    BY <1>2
  <2> DEFINE g == [i \in 0..(m + 1) |-> IF i <= m THEN h[i] ELSE h[m] + s[m + 1]]
  <2>2. g = [i \in 0..(m + 1) |-> IF i = 0 THEN 0 ELSE g[i - 1] + s[i]]
    <3> SUFFICES ASSUME NEW i \in 0..(m + 1)
                 PROVE  g[i] = IF i = 0 THEN 0 ELSE g[i - 1] + s[i]
      OBVIOUS
    <3>1. CASE i <= m
      <4>1. g[i] = h[i] /\ (i # 0 => g[i - 1] = h[i - 1])
        BY <3>1
      <4>2. h[i] = IF i = 0 THEN 0 ELSE h[i - 1] + s[i]
        BY <2>1, <3>1
      <4> QED BY <4>1, <4>2
    <3>2. CASE i = m + 1
      BY <3>2
    <3> QED BY <3>1, <3>2
  <2> QED BY <2>2
<1> SUFFICES Missing = {}
  OBVIOUS
<1> SUFFICES ASSUME Missing # {} PROVE FALSE
  OBVIOUS
<1> HIDE DEF Exists
<1>3. PICK m \in Missing : \A k \in Missing : m <= k
  BY LeastNatural, Missing \subseteq Nat
<1>4. m # 0
  BY <1>1, <1>3
<1>5. m - 1 \in Nat /\ ~(m - 1 \in Missing)
  BY <1>3, <1>4
<1> QED BY <1>2, <1>3, <1>5

\* So PartialSums is one.
LEMMA PartialSumsEquation ==
  ASSUME NEW s, Len(s) \in Nat
  PROVE  PartialSums(s) =
           [i \in 0..Len(s) |-> IF i = 0 THEN 0 ELSE PartialSums(s)[i - 1] + s[i]]
  BY PartialSumsExist DEF PartialSums

\* Nothing sums up to nothing.
LEMMA SumEmpty == SumOf(<<>>) = 0
  BY PartialSumsEquation, Len(<<>>) = 0 DEF SumOf

\* Every partial sum of naturals is a natural.
LEMMA PartialSumsNatural ==
  ASSUME NEW s \in Seq(Nat), NEW n \in 0..Len(s)
  PROVE  PartialSums(s)[n] \in Nat
<1> DEFINE Odd == {m \in 0..Len(s) : PartialSums(s)[m] \notin Nat}
<1> SUFFICES ASSUME Odd # {} PROVE FALSE
  OBVIOUS
<1>1. PICK m \in Odd : \A k \in Odd : m <= k
  BY LeastNatural, Odd \subseteq Nat
<1>2. Len(s) \in Nat
  OBVIOUS
<1>3. PartialSums(s)[m] = IF m = 0 THEN 0 ELSE PartialSums(s)[m - 1] + s[m]
  BY <1>1, <1>2, PartialSumsEquation
<1>4. m # 0
  BY <1>1, <1>3
<1>5. m - 1 \in 0..Len(s) /\ PartialSums(s)[m - 1] \in Nat /\ s[m] \in Nat
  BY <1>1, <1>2, <1>4
<1> QED BY SMTT(30), <1>1, <1>3, <1>4, <1>5

\* A sum of naturals is a natural.
LEMMA SumNatural == ASSUME NEW s \in Seq(Nat) PROVE SumOf(s) \in Nat
  BY PartialSumsNatural, Len(s) \in Nat DEF SumOf

\* A step of the recursion, with its types.
LEMMA PartialSumsStep ==
  ASSUME NEW s \in Seq(Nat), NEW n \in 1..Len(s)
  PROVE  /\ PartialSums(s)[0] = 0
         /\ PartialSums(s)[n] = PartialSums(s)[n - 1] + s[n]
         /\ PartialSums(s)[n] \in Nat /\ PartialSums(s)[n - 1] \in Nat /\ s[n] \in Nat
<1>1. Len(s) \in Nat /\ n \in 0..Len(s) /\ n - 1 \in 0..Len(s) /\ n # 0 /\ 0 \in 0..Len(s)
  OBVIOUS
<1>2. PartialSums(s)[n] \in Nat /\ PartialSums(s)[n - 1] \in Nat
  BY <1>1, PartialSumsNatural
<1>3. /\ PartialSums(s)[0] = 0
      /\ PartialSums(s)[n] = PartialSums(s)[n - 1] + s[n]
  BY <1>1, PartialSumsEquation
<1> QED BY <1>2, <1>3

\* Beyond the first sequence, the partial sums of a concatenation go on from its
\* sum with those of the second.
LEMMA PartialSumsConcat ==
  ASSUME NEW s \in Seq(Nat), NEW t \in Seq(Nat), NEW j \in 0..Len(t)
  PROVE  PartialSums(s \o t)[Len(s) + j] = PartialSums(s)[Len(s)] + PartialSums(t)[j]
<1> DEFINE Agree(m) == IF m <= Len(s) THEN PartialSums(s \o t)[m] = PartialSums(s)[m]
                       ELSE PartialSums(s \o t)[m]
                              = PartialSums(s)[Len(s)] + PartialSums(t)[m - Len(s)]
           Odd == {m \in 0..(Len(s) + Len(t)) : ~Agree(m)}
<1>1. /\ s \o t \in Seq(Nat) /\ Len(s \o t) = Len(s) + Len(t)
      /\ Len(s) \in Nat /\ Len(t) \in Nat
      /\ \A i \in 1..Len(s) : (s \o t)[i] = s[i]
      /\ \A i \in 1..Len(t) : (s \o t)[Len(s) + i] = t[i]
  BY ConcatProperties
<1>2. /\ PartialSums(s)[0] = 0 /\ PartialSums(t)[0] = 0 /\ PartialSums(s \o t)[0] = 0
      /\ PartialSums(s)[Len(s)] \in Nat
  <2>1. ASSUME NEW r \in Seq(Nat)
        PROVE  PartialSums(r)[0] = 0
    BY PartialSumsEquation, Len(r) \in Nat, 0 \in 0..Len(r)
  <2>2. PartialSums(s)[Len(s)] \in Nat
    BY <1>1, PartialSumsNatural
  <2> QED BY <1>1, <2>1, <2>2
<1>3. ASSUME NEW m \in 1..(Len(s) + Len(t)), Agree(m - 1)
      PROVE  Agree(m)
  <2>1. PartialSums(s \o t)[m] = PartialSums(s \o t)[m - 1] + (s \o t)[m]
    BY <1>1, PartialSumsStep
  <2>2. CASE m <= Len(s)
    <3>1. PartialSums(s)[m] = PartialSums(s)[m - 1] + s[m] /\ (s \o t)[m] = s[m]
      BY SMTT(30), <1>1, <2>2, PartialSumsStep
    <3> QED BY <1>1, <1>3, <2>1, <2>2, <3>1
  <2>3. CASE m > Len(s)
    <3>1. PICK k \in 1..Len(t) : m = Len(s) + k
      <4>1. m - Len(s) \in 1..Len(t) /\ m = Len(s) + (m - Len(s))
        BY <1>1, <2>3
      <4> QED BY <4>1
    <3>2. /\ PartialSums(t)[k] = PartialSums(t)[k - 1] + t[k] /\ (s \o t)[m] = t[k]
          /\ PartialSums(t)[k - 1] \in Nat /\ t[k] \in Nat
      BY <1>1, <3>1, PartialSumsStep
    <3>3. PartialSums(s \o t)[m - 1] = PartialSums(s)[Len(s)] + PartialSums(t)[k - 1]
      <4>1. CASE k = 1
        BY <1>1, <1>2, <1>3, <3>1, <4>1
      <4>2. CASE k # 1
        <5>1. ~(m - 1 <= Len(s)) /\ (m - 1) - Len(s) = k - 1
          BY <1>1, <3>1, <4>2
        <5> QED BY <1>3, <5>1
      <4> QED BY <4>1, <4>2
    <3>4. ~(m <= Len(s)) /\ m - Len(s) = k
      BY <1>1, <3>1
    <3>5. PartialSums(s \o t)[m] = PartialSums(s)[Len(s)] + PartialSums(t)[k]
      <4>1. PartialSums(s \o t)[m]
              = (PartialSums(s)[Len(s)] + PartialSums(t)[k - 1]) + t[k]
        BY <2>1, <3>2, <3>3
      <4>2. PICK total, before, after, x :
              /\ total = PartialSums(s)[Len(s)] /\ x = t[k]
              /\ before = PartialSums(t)[k - 1] /\ after = PartialSums(t)[k]
        OBVIOUS
      <4>3. total \in Nat /\ before \in Nat /\ x \in Nat /\ after = before + x
        BY <1>2, <3>2, <4>2
      <4>4. (total + before) + x = total + after
        BY ONLY <4>3
      <4> QED BY <4>1, <4>2, <4>4
    <3> QED BY <3>4, <3>5
  <2> QED BY <1>1, <2>2, <2>3
<1>4. Agree(0)
  BY <1>1, <1>2
<1>5. Odd = {}
  <2> HIDE DEF Agree
  <2> SUFFICES ASSUME Odd # {} PROVE FALSE
    OBVIOUS
  <2>1. Odd \subseteq Nat
    BY <1>1
  <2>2. PICK m \in Odd : \A k \in Odd : m <= k
    BY <2>1, LeastNatural
  <2>3. m \in 1..(Len(s) + Len(t)) /\ ~Agree(m)
    BY <1>1, <1>4, <2>2
  <2>4. m - 1 \in 0..(Len(s) + Len(t)) /\ ~(m <= m - 1)
    BY <1>1, <2>3
  <2>5. Agree(m - 1)
    BY <2>2, <2>4
  <2> QED BY <1>3, <2>3, <2>5
<1>6. Len(s) + j \in 0..(Len(s) + Len(t)) /\ Agree(Len(s) + j)
  BY SMTT(30), <1>1, <1>5
<1>7. CASE j = 0
  BY <1>1, <1>2, <1>6, <1>7
<1>8. CASE j # 0
  <2>1. ~(Len(s) + j <= Len(s)) /\ (Len(s) + j) - Len(s) = j
    BY <1>1, <1>8
  <2> QED BY <1>6, <2>1
<1> QED BY <1>7, <1>8

\* The sum of a concatenation is the sum of the sums.
LEMMA SumConcat ==
  ASSUME NEW s \in Seq(Nat), NEW t \in Seq(Nat)
  PROVE  SumOf(s \o t) = SumOf(s) + SumOf(t)
<1>1. Len(t) \in 0..Len(t) /\ Len(s \o t) = Len(s) + Len(t)
  BY ConcatProperties
<1> QED BY <1>1, PartialSumsConcat DEF SumOf

\* The sum of one element.
LEMMA SumOne == ASSUME NEW x \in Nat PROVE SumOf(<<x>>) = x
  BY PartialSumsEquation, Len(<<x>>) = 1 DEF SumOf

\* Appending an element adds it.
LEMMA SumAppend ==
  ASSUME NEW s \in Seq(Nat), NEW x \in Nat
  PROVE  SumOf(Append(s, x)) = SumOf(s) + x
<1>1. Append(s, x) = s \o <<x>> /\ <<x>> \in Seq(Nat)
  BY AppendIsConcat
<1> QED BY <1>1, SumConcat, SumOne

\* The two parts of a sequence split after n elements.
LEMMA SplitProperties ==
  ASSUME NEW S, NEW s \in Seq(S), NEW n \in 0..Len(s)
  PROVE  /\ SubSeq(s, 1, n) \in Seq(S)
         /\ Len(SubSeq(s, 1, n)) = n
         /\ \A i \in 1..n : SubSeq(s, 1, n)[i] = s[i]
         /\ SubSeq(s, n + 1, Len(s)) \in Seq(S)
         /\ Len(SubSeq(s, n + 1, Len(s))) = Len(s) - n
         /\ \A i \in 1..(Len(s) - n) : SubSeq(s, n + 1, Len(s))[i] = s[n + i]
<1>1. Len(s) \in Nat /\ \A i \in 1..Len(s) : s[i] \in S
  BY ElementOfSeq
<1>2. /\ SubSeq(s, 1, n) \in Seq(S)
      /\ Len(SubSeq(s, 1, n)) = n
      /\ \A i \in 1..n : SubSeq(s, 1, n)[i] = s[i]
  BY <1>1
<1>3. /\ SubSeq(s, n + 1, Len(s)) \in Seq(S)
      /\ Len(SubSeq(s, n + 1, Len(s))) = Len(s) - n
  BY <1>1
<1>4. ASSUME NEW i \in 1..(Len(s) - n)
      PROVE  SubSeq(s, n + 1, Len(s))[i] = s[n + i]
  <2>1. i \in 1..(Len(s) - (n + 1) + 1) /\ (n + 1) + i - 1 = n + i
    BY <1>1
  <2>2. SubSeq(s, n + 1, Len(s))[i] = s[(n + 1) + i - 1]
    BY <1>1, <2>1
  <2> QED BY <2>1, <2>2
<1> QED BY <1>2, <1>3, <1>4

\* A sequence is what it begins with and the rest.
LEMMA SequenceSplit ==
  ASSUME NEW S, NEW s \in Seq(S), NEW n \in 0..Len(s)
  PROVE  s = SubSeq(s, 1, n) \o SubSeq(s, n + 1, Len(s))
<1>1. 1 \in 1..(Len(s) + 1) /\ n \in (1 - 1)..Len(s) /\ Len(s) \in n..Len(s)
  OBVIOUS
<1>2. SubSeq(s, 1, n) \o SubSeq(s, n + 1, Len(s)) = SubSeq(s, 1, Len(s))
  BY <1>1, ConcatAdjacentSubSeq
<1> QED BY <1>2, SubSeqFull

----------------------------------------------------------------------------
\* The values that f gives the elements of a sequence.
Mapped(f, s) == [i \in DOMAIN s |-> f[s[i]]]

\* The values of a sequence are a sequence of naturals of its length.
LEMMA MappedType ==
  ASSUME NEW S, NEW f \in [S -> Nat]
  PROVE  \A s \in Seq(S) : /\ Mapped(f, s) \in Seq(Nat)
                           /\ Len(Mapped(f, s)) = Len(s)
                           /\ \A i \in 1..Len(s) : Mapped(f, s)[i] = f[s[i]]
<1> SUFFICES ASSUME NEW s \in Seq(S)
             PROVE  /\ Mapped(f, s) \in Seq(Nat)
                    /\ Len(Mapped(f, s)) = Len(s)
                    /\ \A i \in 1..Len(s) : Mapped(f, s)[i] = f[s[i]]
  OBVIOUS
<1>1. DOMAIN s = 1..Len(s) /\ Len(s) \in Nat
  BY LenProperties
<1>2. \A i \in 1..Len(s) : f[s[i]] \in Nat
  BY ElementOfSeq
<1> QED BY <1>1, <1>2 DEF Mapped

\* The values of two sequences put together are those of each, put together.
LEMMA MappedConcat ==
  ASSUME NEW S, NEW f \in [S -> Nat], NEW s \in Seq(S), NEW t \in Seq(S)
  PROVE  Mapped(f, s \o t) = Mapped(f, s) \o Mapped(f, t)
<1>7. \A r \in Seq(S) : Mapped(f, r) \in Seq(Nat)
  BY MappedType
<1>8. \A r \in Seq(S) : Len(Mapped(f, r)) = Len(r)
  BY MappedType
<1>9. \A r \in Seq(S) : \A i \in 1..Len(r) : Mapped(f, r)[i] = f[r[i]]
  BY SMTT(30), MappedType
<1> DEFINE a == Mapped(f, s)
           b == Mapped(f, t)
           c == Mapped(f, s \o t)
<1>1. /\ s \o t \in Seq(S) /\ Len(s \o t) = Len(s) + Len(t)
      /\ \A i \in 1..(Len(s) + Len(t)) :
           (s \o t)[i] = IF i <= Len(s) THEN s[i] ELSE t[i - Len(s)]
      /\ Len(s) \in Nat /\ Len(t) \in Nat
  BY ConcatProperties
<1>2. /\ a \in Seq(Nat) /\ Len(a) = Len(s) /\ \A i \in 1..Len(s) : a[i] = f[s[i]]
      /\ b \in Seq(Nat) /\ Len(b) = Len(t) /\ \A i \in 1..Len(t) : b[i] = f[t[i]]
  BY SMTT(30), MappedType
<1>3. c \in Seq(Nat) /\ Len(c) = Len(s) + Len(t)
      /\ \A i \in 1..(Len(s) + Len(t)) : c[i] = f[(s \o t)[i]]
  BY <1>1, <1>7, <1>8, <1>9
<1> HIDE DEF a, b, c
<1>4. /\ a \o b \in Seq(Nat) /\ Len(a \o b) = Len(s) + Len(t)
      /\ \A i \in 1..(Len(s) + Len(t)) :
           (a \o b)[i] = IF i <= Len(s) THEN a[i] ELSE b[i - Len(s)]
  <2>1. a \in Seq(Nat) /\ b \in Seq(Nat)
    BY <1>2
  <2>2. /\ a \o b \in Seq(Nat) /\ Len(a \o b) = Len(a) + Len(b)
        /\ \A i \in 1..(Len(a) + Len(b)) :
             (a \o b)[i] = IF i <= Len(a) THEN a[i] ELSE b[i - Len(a)]
    BY <2>1, ConcatProperties
  <2> QED BY <1>2, <2>2
<1>5. ASSUME NEW i \in 1..(Len(s) + Len(t))
      PROVE  c[i] = (a \o b)[i]
  <2>1. CASE i <= Len(s)
    BY SMTT(30), <1>1, <1>2, <1>3, <1>4, <2>1
  <2>2. CASE ~(i <= Len(s))
    <3>1. i - Len(s) \in 1..Len(t)
      BY <1>1, <2>2
    <3>2. (a \o b)[i] = b[i - Len(s)] /\ (s \o t)[i] = t[i - Len(s)]
      BY <1>1, <1>4, <2>2
    <3> QED BY <1>2, <1>3, <3>1, <3>2
  <2> QED BY <2>1, <2>2
<1>6. c = a \o b
  BY <1>3, <1>4, <1>5, SeqEqual
<1> QED BY <1>6 DEF a, b, c

\* The values of one element.
LEMMA MappedSingle ==
  ASSUME NEW S, NEW f \in [S -> Nat], NEW x \in S
  PROVE  Mapped(f, <<x>>) = <<f[x]>>
  BY DEF Mapped

\* The laws of a sum of values, as the counters of the models use them.
LEMMA SumMapped ==
  ASSUME NEW S, NEW f \in [S -> Nat]
  PROVE  /\ SumOf(Mapped(f, <<>>)) = 0
         /\ \A s \in Seq(S) : SumOf(Mapped(f, s)) \in Nat
         /\ \A s, t \in Seq(S) :
              SumOf(Mapped(f, s \o t)) = SumOf(Mapped(f, s)) + SumOf(Mapped(f, t))
         /\ \A s \in Seq(S), x \in S : SumOf(Mapped(f, Append(s, x))) = SumOf(Mapped(f, s)) + f[x]
<1>1. SumOf(Mapped(f, <<>>)) = 0
  <2>1. Mapped(f, <<>>) = <<>>
    BY DEF Mapped
  <2> QED BY <2>1, SumEmpty
<1>2. ASSUME NEW s \in Seq(S) PROVE SumOf(Mapped(f, s)) \in Nat
  BY MappedType, SumNatural
<1>3. ASSUME NEW s \in Seq(S), NEW t \in Seq(S)
      PROVE  SumOf(Mapped(f, s \o t)) = SumOf(Mapped(f, s)) + SumOf(Mapped(f, t))
  <2>1. Mapped(f, s) \in Seq(Nat) /\ Mapped(f, t) \in Seq(Nat)
    BY MappedType
  <2>2. SumOf(Mapped(f, s) \o Mapped(f, t)) = SumOf(Mapped(f, s)) + SumOf(Mapped(f, t))
    BY <2>1, SumConcat
  <2>3. Mapped(f, s \o t) = Mapped(f, s) \o Mapped(f, t)
    BY MappedConcat
  <2> QED BY <2>2, <2>3
<1>4. ASSUME NEW s \in Seq(S), NEW x \in S
      PROVE  SumOf(Mapped(f, Append(s, x))) = SumOf(Mapped(f, s)) + f[x]
  <2>1. Append(s, x) = s \o <<x>> /\ <<x>> \in Seq(S)
    BY AppendIsConcat
  <2>2. SumOf(Mapped(f, <<x>>)) = f[x]
    BY MappedSingle, SumOne
  <2> QED BY <1>3, <2>1, <2>2
<1> QED BY <1>1, <1>2, <1>3, <1>4
=============================================================================

------------------------ MODULE CompilingBridgeProofs ------------------------
(***************************************************************************)
(* Proofs about the compiling methods of a direct bridge: its cache, for   *)
(* any keys, weights and limits and any number of loads and clears, the    *)
(* answers the methods make of it, for any requests, the diff of an edit,  *)
(* for any graphs and regions, and a batch of source transformations, for  *)
(* any source, batch and limits.                                           *)
(***************************************************************************)
EXTENDS CompilingBridge, SemanticDiff, SumsProofs, FiniteSetTheorems

----------------------------------------------------------------------------
\* What may be kept: the values of loads that began since the last clear().
Fresh ==
  {entry \in Entry : /\ entry.load \in DOMAIN loads
                     /\ loads[entry.load].generation = generation}

\* The promise of a key is that of the load of this generation that is not done.
Promised ==
  /\ \A k \in Keys : pending[k] # 0 =>
       /\ pending[k] \in DOMAIN loads
       /\ loads[pending[k]].key = k
       /\ loads[pending[k]].generation = generation
       /\ loads[pending[k]].phase # "done"
  /\ \A l \in DOMAIN loads :
       loads[l].generation = generation /\ loads[l].phase # "done" => pending[loads[l].key] = l

CacheInv ==
  /\ entries \in Seq(Fresh)
  /\ generation \in 0..MaxClears
  /\ pending \in [Keys -> 0..MaxLoads]
  /\ loads \in Seq(Load) /\ Len(loads) <= MaxLoads
  /\ \A l \in DOMAIN loads : loads[l].generation <= generation
  /\ Promised
  /\ OneLoadPerKey

\* The cache starts empty, within the types.
LEMMA CacheInvInit == Init => CacheInv
<1> SUFFICES ASSUME Init PROVE CacheInv
  OBVIOUS
<1>1. entries \in Seq(Fresh) /\ loads \in Seq(Load) /\ Len(loads) = 0 /\ DOMAIN loads = {}
  BY DEF Init
<1> QED
  BY <1>1, CacheAssumption DEF Init, CacheInv, Promised, OneLoadPerKey

\* Dropping a key keeps a sequence of entries, and drops only that key.
LEMMA WithoutType ==
  ASSUME NEW S, NEW kept \in Seq(S), NEW k
  PROVE  Without(kept, k) \in Seq(S)
<1>1. ASSUME NEW i \in DOMAIN kept PROVE RemoveAt(kept, i) \in Seq(S)
  <2>1. i \in 1..Len(kept) /\ Len(kept) \in Nat
    BY <1>1, LenProperties
  <2>2. SubSeq(kept, 1, i - 1) \in Seq(S) /\ SubSeq(kept, i + 1, Len(kept)) \in Seq(S)
    BY <2>1
  <2> QED
    BY <2>2, ConcatProperties DEF RemoveAt
<1>2. CASE \E i \in DOMAIN kept : kept[i].key = k
  BY <1>1, <1>2 DEF Without
<1>3. CASE ~\E i \in DOMAIN kept : kept[i].key = k
  BY <1>3 DEF Without
<1> QED
  BY <1>2, <1>3

\* Storing and evicting keep a sequence of entries.
LEMMA StoreType ==
  ASSUME NEW S, entries \in Seq(S), NEW entry \in S, Store(entry)
  PROVE  entries' \in Seq(S)
<1> DEFINE kept == Append(Without(entries, entry.key), entry)
<1>1. kept \in Seq(S)
  BY WithoutType
<1>2. \A drop \in 0..Len(kept) : SubSeq(kept, drop + 1, Len(kept)) \in Seq(S)
  BY <1>1
<1>3. CASE UNCHANGED <<entries, weight>>
  BY <1>3
<1>4. CASE ~UNCHANGED <<entries, weight>>
  <2>1. \E drop \in 0..Len(kept) : entries' = SubSeq(kept, drop + 1, Len(kept))
    BY <1>4 DEF Store, Evicted
  <2> QED
    BY <1>2, <2>1
<1> QED
  BY <1>3, <1>4

\* A hit moves an entry, sharing changes nothing, a miss starts a load.
LEMMA GetOrLoadStep ==
  ASSUME CacheInv, NEW k \in Keys, GetOrLoad(k)
  PROVE  CacheInv'
<1> USE DEF CacheInv
<1>1. ASSUME NEW i \in DOMAIN entries, entries' = Append(Without(entries, k), entries[i]),
             UNCHANGED <<weight, generation, pending, loads>>
      PROVE  CacheInv'
  <2>1. entries[i] \in Fresh
    BY <1>1, ElementOfSeq, LenProperties
  <2>2. entries' \in Seq(Fresh)
    BY <1>1, <2>1, WithoutType, AppendProperties
  <2> QED
    BY <1>1, <2>2 DEF Fresh, Promised, OneLoadPerKey
<1>2. CASE UNCHANGED vars
  BY <1>2 DEF vars, Fresh, Promised, OneLoadPerKey
<1>3. CASE /\ pending[k] = 0 /\ Len(loads) < MaxLoads
           /\ loads' = Append(loads, [key |-> k, generation |-> generation, phase |-> "loading"])
           /\ pending' = [pending EXCEPT ![k] = Len(loads')]
           /\ UNCHANGED <<entries, weight, generation>>
  <2> DEFINE load == [key |-> k, generation |-> generation, phase |-> "loading"]
             l == Len(loads) + 1
  <2>1. load \in Load /\ Len(loads) \in Nat /\ MaxLoads \in Nat
    BY CacheAssumption DEF Load
  <2>2. /\ loads' \in Seq(Load) /\ Len(loads') = l /\ l \in 1..MaxLoads
        /\ DOMAIN loads = 1..Len(loads) /\ DOMAIN loads' = 1..l
        /\ loads'[l] = load /\ \A m \in DOMAIN loads : loads'[m] = loads[m]
    BY <1>3, <2>1, AppendProperties
  <2>n. /\ \A m \in DOMAIN loads' : m = l \/ m \in DOMAIN loads
        /\ \A m \in DOMAIN loads : m # l /\ m # 0 /\ loads[m].key \in Keys
    <3>1. \A m \in 1..l : m = l \/ m \in 1..Len(loads)
      BY <2>1
    <3>2. \A m \in 1..Len(loads) : m # l /\ m # 0
      BY <2>1
    <3>3. \A m \in 1..Len(loads) : loads[m] \in Load
      BY ElementOfSeq
    <3> QED
      BY <2>2, <3>1, <3>2, <3>3 DEF Load
  <2>3. pending' \in [Keys -> 0..MaxLoads] /\ pending'[k] = l
        /\ \A j \in Keys : j # k => pending'[j] = pending[j]
    BY <1>3, <2>2
  <2>4. entries' \in Seq(Fresh')
    <3>1. Fresh \subseteq Fresh'
      BY <1>3, <2>2 DEF Fresh
    <3> QED
      BY <1>3, <3>1, SeqMonotonic
  <2>5. Promised'
    <3>1. ASSUME NEW j \in Keys, pending'[j] # 0
          PROVE  /\ pending'[j] \in DOMAIN loads'
                 /\ loads'[pending'[j]].key = j
                 /\ loads'[pending'[j]].generation = generation'
                 /\ loads'[pending'[j]].phase # "done"
      <4>1. CASE j = k
        BY <1>3, <2>1, <2>2, <2>3, <4>1
      <4>2. CASE j # k
        BY <1>3, <2>1, <2>2, <2>3, <3>1, <4>2 DEF Promised
      <4> QED
        BY <4>1, <4>2
    <3>2. ASSUME NEW m \in DOMAIN loads', loads'[m].generation = generation', loads'[m].phase # "done"
          PROVE  pending'[loads'[m].key] = m
      <4>1. CASE m = l
        BY <2>2, <2>3, <4>1
      <4>2. CASE m # l
        <5>1. m \in DOMAIN loads /\ loads'[m] = loads[m] /\ m # 0 /\ loads[m].key \in Keys
          BY <2>2, <2>n, <4>2
        <5>2. pending[loads[m].key] = m
          BY <1>3, <3>2, <5>1 DEF Promised
        <5> QED
          BY <1>3, <2>3, <5>1, <5>2
      <4> QED
        BY <4>1, <4>2
    <3> QED
      BY <3>1, <3>2 DEF Promised
  <2>6. OneLoadPerKey'
    <3> SUFFICES ASSUME NEW a \in DOMAIN loads', NEW b \in DOMAIN loads', a # b,
                        loads'[a].key = loads'[b].key, loads'[a].generation = loads'[b].generation,
                        loads'[a].phase # "done"
                 PROVE  loads'[b].phase = "done"
      BY DEF OneLoadPerKey
    <3>0. \A m \in DOMAIN loads : loads[m].key = k /\ loads[m].generation = generation
                                    => loads[m].phase = "done"
      <4> SUFFICES ASSUME NEW m \in DOMAIN loads, loads[m].key = k, loads[m].generation = generation,
                          loads[m].phase # "done"
                   PROVE  FALSE
        OBVIOUS
      <4>1. pending[k] = m
        BY DEF Promised
      <4> QED
        BY <1>3, <2>1, <2>2, <4>1
    <3>1. CASE a # l /\ b # l
      <4>1. a \in DOMAIN loads /\ b \in DOMAIN loads /\ loads'[a] = loads[a] /\ loads'[b] = loads[b]
        BY <2>2, <2>n, <3>1
      <4> QED
        BY <4>1 DEF OneLoadPerKey
    <3>2. CASE a = l
      BY <2>1, <2>2, <3>0, <3>2
    <3>3. CASE b = l
      BY <2>1, <2>2, <3>0, <3>3
    <3> QED
      BY <3>1, <3>2, <3>3
  <2>7. \A m \in DOMAIN loads' : loads'[m].generation <= generation'
    BY <1>3, <2>1, <2>2
  <2> QED
    BY <1>3, <2>2, <2>3, <2>4, <2>5, <2>6, <2>7
<1> QED
  BY <1>1, <1>2, <1>3 DEF GetOrLoad

\* A load that goes on to another phase keeps what is said of it, provided that
\* a done load gives up the promise it has.
LEMMA PhaseStep ==
  ASSUME CacheInv, NEW l \in DOMAIN loads, loads[l].phase # "done",
         NEW phase \in {"settled", "done"}, loads' = [loads EXCEPT ![l].phase = phase],
         entries' \in Seq(Fresh), UNCHANGED generation,
         pending' = IF phase = "done" /\ pending[loads[l].key] = l
                    THEN [pending EXCEPT ![loads[l].key] = 0] ELSE pending
  PROVE  CacheInv'
<1> USE DEF CacheInv
<1>1. /\ \A m \in DOMAIN loads : loads[m] \in Load /\ m # 0
      /\ loads[l].key \in Keys
  <2>1. DOMAIN loads = 1..Len(loads) /\ Len(loads) \in Nat
    BY LenProperties
  <2>2. \A m \in DOMAIN loads : loads[m] \in Load /\ m # 0
    BY <2>1, ElementOfSeq
  <2> QED
    BY <2>2 DEF Load
<1>2. /\ DOMAIN loads' = DOMAIN loads
      /\ \A m \in DOMAIN loads : /\ loads'[m].key = loads[m].key
                                 /\ loads'[m].generation = loads[m].generation
                                 /\ loads'[m].phase = IF m = l THEN phase ELSE loads[m].phase
  BY <1>1 DEF Load
<1>3. loads' \in Seq(Load) /\ Len(loads') = Len(loads)
  <2>1. [loads[l] EXCEPT !.phase = phase] \in Load
    BY <1>1 DEF Load
  <2>2. loads' = [loads EXCEPT ![l] = [loads[l] EXCEPT !.phase = phase]]
    OBVIOUS
  <2> QED
    BY <2>1, <2>2, ExceptSeq, LenProperties
<1>4. entries' \in Seq(Fresh')
  BY ZenonT(40), <1>2 DEF Fresh
<1>5. pending' \in [Keys -> 0..MaxLoads]
  BY <1>1, CacheAssumption
<1>6. Promised'
  <2>1. ASSUME NEW k \in Keys, pending'[k] # 0
        PROVE  /\ pending'[k] \in DOMAIN loads'
               /\ loads'[pending'[k]].key = k
               /\ loads'[pending'[k]].generation = generation'
               /\ loads'[pending'[k]].phase # "done"
    <3>1. pending'[k] = pending[k] /\ (phase = "done" => pending[k] # l)
      BY <1>1, <2>1 DEF Promised
    <3> QED
      BY SMTT(30), <1>2, <2>1, <3>1 DEF Promised
  <2>2. ASSUME NEW m \in DOMAIN loads', loads'[m].generation = generation', loads'[m].phase # "done"
        PROVE  pending'[loads'[m].key] = m
    <3>1. m \in DOMAIN loads /\ pending[loads[m].key] = m /\ loads'[m].key = loads[m].key
      BY <1>2, <2>2 DEF Promised
    <3>2. phase = "done" => m # l
      BY <1>2, <2>2, <3>1
    <3> QED
      BY <1>1, <3>1, <3>2
  <2> QED
    BY <2>1, <2>2 DEF Promised
<1>7. OneLoadPerKey'
  <2> SUFFICES ASSUME NEW a \in DOMAIN loads', NEW b \in DOMAIN loads', a # b,
                      loads'[a].key = loads'[b].key, loads'[a].generation = loads'[b].generation,
                      loads'[a].phase # "done"
               PROVE  loads'[b].phase = "done"
    BY DEF OneLoadPerKey
  <2>1. loads[a].phase # "done" /\ loads[a].key = loads[b].key /\ loads[a].generation = loads[b].generation
    BY <1>2
  <2>2. loads[b].phase = "done"
    BY <1>2, <2>1 DEF OneLoadPerKey
  <2> QED
    BY <1>2, <2>2
<1>8. \A m \in DOMAIN loads' : loads'[m].generation <= generation'
  BY <1>2
<1> QED
  BY <1>3, <1>4, <1>5, <1>6, <1>7, <1>8

\* load() keeps the types, hit or miss.
LEMMA LoadStep ==
  ASSUME CacheInv, NEW l \in DOMAIN loads,
         \/ \E w \in Weights \cup {NoWeight} : LoadGives(l, w)
         \/ LoadThrows(l)
         \/ GiveUpPromise(l)
  PROVE  CacheInv'
<1>0. entries \in Seq(Fresh) /\ loads[l] \in Load /\ l \in 1..MaxLoads
  <2>1. DOMAIN loads = 1..Len(loads) /\ Len(loads) \in Nat /\ Len(loads) <= MaxLoads
    BY LenProperties DEF CacheInv
  <2> QED
    BY <2>1, ElementOfSeq, CacheAssumption DEF CacheInv
<1>1. ASSUME NEW w \in Weights \cup {NoWeight}, LoadGives(l, w)
      PROVE  CacheInv'
  <2> DEFINE entry == [key |-> loads[l].key, weight |-> w, load |-> l]
  <2>1. entries' \in Seq(Fresh)
    <3>1. CASE loads[l].generation = generation /\ w # NoWeight
      <4>1. entry \in Fresh
        BY <1>0, <3>1 DEF Fresh, Entry, Load
      <4> QED
        BY <1>0, <1>1, <3>1, <4>1, StoreType DEF LoadGives
    <3>2. CASE ~(loads[l].generation = generation /\ w # NoWeight)
      BY <1>0, <1>1, <3>2 DEF LoadGives
    <3> QED
      BY <3>1, <3>2
  <2> QED
    BY <1>1, <2>1, PhaseStep DEF LoadGives
<1>2. CASE LoadThrows(l)
  BY <1>0, <1>2, PhaseStep DEF LoadThrows
<1>3. CASE GiveUpPromise(l)
  BY <1>0, <1>3, PhaseStep DEF GiveUpPromise
<1> QED
  BY <1>1, <1>2, <1>3

\* clear() keeps the types.
LEMMA ClearStep ==
  ASSUME CacheInv, Clear
  PROVE  CacheInv'
<1> USE DEF CacheInv
<1>1. /\ entries' \in Seq(Fresh') /\ generation' = generation + 1 /\ generation' \in 0..MaxClears
      /\ loads' = loads
  BY CacheAssumption DEF Clear
<1>2. \A l \in DOMAIN loads : loads[l].generation \in Nat /\ loads[l].generation < generation'
  <2>1. \A l \in DOMAIN loads : loads[l] \in Load
    BY ElementOfSeq, LenProperties
  <2> QED
    BY <1>1, <2>1, CacheAssumption DEF Load
<1>3. pending' = [k \in Keys |-> 0] /\ pending' \in [Keys -> 0..MaxLoads]
  BY CacheAssumption DEF Clear
<1>4. Promised'
  BY <1>1, <1>2, <1>3 DEF Promised
<1>5. OneLoadPerKey'
  BY SMTT(30), <1>1 DEF OneLoadPerKey
<1> QED
  BY <1>1, <1>2, <1>3, <1>4, <1>5

\* Every step keeps the types.
LEMMA CacheInvNext == CacheInv /\ [Next]_vars => CacheInv'
<1> SUFFICES ASSUME CacheInv, [Next]_vars PROVE CacheInv'
  OBVIOUS
<1>1. CASE UNCHANGED vars
  BY <1>1 DEF vars, CacheInv, Fresh, Promised, OneLoadPerKey
<1> QED
  BY <1>1, GetOrLoadStep, LoadStep, ClearStep DEF Next

\* The types hold in every reachable state.
LEMMA CacheInvariant == Spec => []CacheInv
BY CacheInvInit, CacheInvNext, PTL DEF Spec

----------------------------------------------------------------------------
\* Nothing that was kept or was being compiled before a clear() is kept after
\* it, however loads, evictions and clears interleave.
THEOREM ClearForgets == Spec => []NothingOutlivesClear
<1>1. CacheInv => NothingOutlivesClear
  <2> SUFFICES ASSUME CacheInv, NEW i \in DOMAIN entries
               PROVE  entries[i] \in Fresh
    BY DEF NothingOutlivesClear, Fresh
  <2> QED
    BY ElementOfSeq, LenProperties DEF CacheInv
<1> QED
  BY <1>1, CacheInvariant, PTL

\* Of the loads of a key between two clears, one at a time is under way.
THEOREM SharedCompilation == Spec => []OneLoadPerKey
BY CacheInvariant, PTL DEF CacheInv

----------------------------------------------------------------------------
(* The limits.                                                             *)

Distinct(kept) == \A i, j \in DOMAIN kept : kept[i].key = kept[j].key => i = j

\* The inductive form of WithinLimits.
Kept ==
  /\ entries \in Seq(Entry)
  /\ weight = Total(entries)
  /\ ~Exceeds(entries)
  /\ Distinct(entries)

\* The total weight of entries adds up.
LEMMA TotalLaws ==
  /\ Total(<<>>) = 0
  /\ \A s \in Seq(Entry) : Total(s) \in Nat
  /\ \A s, t \in Seq(Entry) : Total(s \o t) = Total(s) + Total(t)
  /\ \A s \in Seq(Entry), entry \in Entry : Total(Append(s, entry)) = Total(s) + entry.weight
<1> DEFINE f == [entry \in Entry |-> entry.weight]
<1>1. f \in [Entry -> Nat] /\ \A entry \in Entry : f[entry] = entry.weight
  BY CacheAssumption DEF Entry
<1>2. ASSUME NEW s \in Seq(Entry)
      PROVE  Total(s) = SumOf(Mapped(f, s))
  <2>1. \A i \in DOMAIN s : s[i] \in Entry
    BY ElementOfSeq, LenProperties
  <2>2. [i \in DOMAIN s |-> s[i].weight] = Mapped(f, s)
    BY <2>1 DEF Mapped
  <2> QED
    BY <2>2 DEF Total
<1>3. <<>> \in Seq(Entry)
  OBVIOUS
<1>4. /\ \A s, t \in Seq(Entry) : s \o t \in Seq(Entry)
      /\ \A s \in Seq(Entry), entry \in Entry : Append(s, entry) \in Seq(Entry)
  BY ConcatProperties, AppendProperties
<1> HIDE DEF f
<1>5. /\ SumOf(Mapped(f, <<>>)) = 0
      /\ \A s \in Seq(Entry) : SumOf(Mapped(f, s)) \in Nat
      /\ \A s, t \in Seq(Entry) :
           SumOf(Mapped(f, s \o t)) = SumOf(Mapped(f, s)) + SumOf(Mapped(f, t))
      /\ \A s \in Seq(Entry), entry \in Entry :
           SumOf(Mapped(f, Append(s, entry))) = SumOf(Mapped(f, s)) + f[entry]
  BY <1>1, SumMapped
<1> QED
  BY ZenonT(40), <1>1, <1>2, <1>3, <1>4, <1>5

\* What is left of a cache without a key: no more entries, each key still once,
\* that key no longer, and the total less by the entry that went.
LEMMA WithoutLaws ==
  ASSUME NEW kept \in Seq(Entry), Distinct(kept), NEW k
  PROVE  /\ Without(kept, k) \in Seq(Entry)
         /\ Distinct(Without(kept, k))
         /\ \A j \in DOMAIN Without(kept, k) : Without(kept, k)[j].key # k
         /\ \A i \in DOMAIN kept : kept[i].key = k =>
              /\ Len(Without(kept, k)) = Len(kept) - 1
              /\ Total(kept) = Total(Without(kept, k)) + kept[i].weight
<1>1. DOMAIN kept = 1..Len(kept) /\ Len(kept) \in Nat
  BY LenProperties
<1>2. CASE ~\E i \in DOMAIN kept : kept[i].key = k
  BY <1>2 DEF Without
<1>3. CASE \E i \in DOMAIN kept : kept[i].key = k
  <2> DEFINE i == CHOOSE i \in DOMAIN kept : kept[i].key = k
             head == SubSeq(kept, 1, i - 1)
             tail == SubSeq(kept, i + 1, Len(kept))
             rest == head \o tail
  <2>1. i \in 1..Len(kept) /\ kept[i].key = k /\ Without(kept, k) = rest
    BY <1>1, <1>3 DEF Without, RemoveAt
  <2> HIDE DEF i
  <2>2. \A j \in DOMAIN kept : kept[j].key = k => j = i
    BY <1>1, <2>1 DEF Distinct
  <2>3. /\ head \in Seq(Entry) /\ Len(head) = i - 1
        /\ \A j \in 1..(i - 1) : head[j] = kept[j]
        /\ tail \in Seq(Entry) /\ Len(tail) = Len(kept) - i
        /\ \A j \in 1..(Len(kept) - i) : tail[j] = kept[i + j]
    <3>1. i - 1 \in 0..Len(kept) /\ i \in 0..Len(kept)
      BY <1>1, <2>1
    <3>2. /\ head \in Seq(Entry) /\ Len(head) = i - 1
          /\ \A j \in 1..(i - 1) : head[j] = kept[j]
      BY <1>1, <2>1, <3>1, SplitProperties
    <3>3. /\ tail \in Seq(Entry) /\ Len(tail) = Len(kept) - i
          /\ \A j \in 1..(Len(kept) - i) : tail[j] = kept[i + j]
      BY <1>1, <2>1, <3>1, SplitProperties
    <3> QED
      BY <3>2, <3>3
  <2> HIDE DEF head, tail
  <2>4. /\ rest \in Seq(Entry) /\ Len(rest) = Len(kept) - 1 /\ DOMAIN rest = 1..(Len(kept) - 1)
        /\ \A j \in 1..(Len(kept) - 1) : rest[j] = IF j < i THEN kept[j] ELSE kept[j + 1]
    <3>1. /\ rest \in Seq(Entry) /\ Len(rest) = Len(head) + Len(tail)
          /\ \A j \in 1..(Len(head) + Len(tail)) :
               rest[j] = IF j <= Len(head) THEN head[j] ELSE tail[j - Len(head)]
      BY <2>3, ConcatProperties
    <3>2. Len(head) + Len(tail) = Len(kept) - 1
      BY <1>1, <2>1, <2>3
    <3>3. ASSUME NEW j \in 1..(Len(kept) - 1)
          PROVE  rest[j] = IF j < i THEN kept[j] ELSE kept[j + 1]
      <4>1. CASE j < i
        BY <1>1, <2>1, <2>3, <3>1, <3>2, <4>1
      <4>2. CASE ~(j < i)
        <5>1. j - (i - 1) \in 1..(Len(kept) - i) /\ i + (j - (i - 1)) = j + 1
          BY <1>1, <2>1, <4>2
        <5>2. rest[j] = tail[j - (i - 1)]
          BY <1>1, <2>1, <2>3, <3>1, <3>2, <4>2
        <5> QED
          BY <2>3, <4>2, <5>1, <5>2
      <4> QED
        BY <4>1, <4>2
    <3> QED
      BY <3>1, <3>2, <3>3, LenProperties
  <2> DEFINE old(j) == IF j < i THEN j ELSE j + 1
  <2> HIDE DEF rest
  <2>5. ASSUME NEW j \in DOMAIN rest
        PROVE  /\ old(j) \in DOMAIN kept
               /\ old(j) # i
               /\ rest[j] = kept[old(j)]
    <3>1. j \in 1..(Len(kept) - 1)
      BY <2>4
    <3> QED
      BY <1>1, <2>1, <2>4, <3>1
  <2>6. ASSUME NEW j \in DOMAIN rest, NEW m \in DOMAIN rest, old(j) = old(m)
        PROVE  j = m
    <3>1. j \in Int /\ m \in Int /\ i \in Int
      BY <1>1, <2>1, <2>4
    <3> QED
      BY <2>6, <3>1
  <2> HIDE DEF old
  <2>7. Distinct(rest)
    BY <2>5, <2>6 DEF Distinct
  <2>8. \A j \in DOMAIN rest : rest[j].key # k
    BY <2>2, <2>5
  <2>9. Total(kept) = Total(rest) + kept[i].weight
    <3>1. kept[i] \in Entry
      BY <2>1, ElementOfSeq
    <3>2. kept = Append(head, kept[i]) \o tail
      <4>1. kept = SubSeq(kept, 1, i) \o SubSeq(kept, i + 1, Len(kept))
        <5>1. i \in 0..Len(kept)
          BY <1>1, <2>1
        <5> QED
          BY <5>1, SequenceSplit
      <4>2. SubSeq(kept, 1, i) = Append(SubSeq(kept, 1, i - 1), kept[i])
        BY <1>1, <2>1
      <4> QED
        BY <4>1, <4>2 DEF head, tail
    <3>3. Append(head, kept[i]) \in Seq(Entry)
      BY <2>3, <3>1, AppendProperties
    <3>4. Total(kept) = (Total(head) + kept[i].weight) + Total(tail)
      BY ZenonT(40), <2>3, <3>1, <3>2, <3>3, TotalLaws
    <3>5. Total(rest) = Total(head) + Total(tail)
      BY <2>3, TotalLaws DEF rest
    <3>6. Total(head) \in Nat /\ Total(tail) \in Nat /\ kept[i].weight \in Nat
      BY <2>3, <3>1, TotalLaws, CacheAssumption DEF Entry
    <3> QED
      BY <3>4, <3>5, <3>6
  <2> QED
    BY <2>1, <2>2, <2>4, <2>7, <2>8, <2>9
<1> QED
  BY <1>2, <1>3

\* Appending an entry with a key that is not kept leaves every key once.
LEMMA AppendDistinct ==
  ASSUME NEW kept \in Seq(Entry), Distinct(kept), NEW entry \in Entry,
         \A j \in DOMAIN kept : kept[j].key # entry.key
  PROVE  Append(kept, entry) \in Seq(Entry) /\ Distinct(Append(kept, entry))
<1>1. /\ Append(kept, entry) \in Seq(Entry) /\ DOMAIN kept = 1..Len(kept) /\ Len(kept) \in Nat
      /\ DOMAIN Append(kept, entry) = 1..(Len(kept) + 1)
      /\ \A j \in 1..Len(kept) : Append(kept, entry)[j] = kept[j]
      /\ Append(kept, entry)[Len(kept) + 1] = entry
  BY AppendProperties, LenProperties
<1>2. \A j \in DOMAIN Append(kept, entry) : j \in DOMAIN kept \/ j = Len(kept) + 1
  BY <1>1
<1> QED
  BY <1>1, <1>2 DEF Distinct

\* The eviction loop stops within the limits, with the weight of what is left.
LEMMA EvictedKeeps ==
  ASSUME NEW kept \in Seq(Entry), Distinct(kept), Evicted(kept, Total(kept))
  PROVE  Kept'
<1> DEFINE remains(n) == Total(kept) - Total(SubSeq(kept, 1, n))
<1>1. PICK drop \in 0..Len(kept) :
        /\ \/ Len(kept) - drop <= MaxEntries /\ remains(drop) <= MaxWeight
           \/ drop = Len(kept)
        /\ entries' = SubSeq(kept, drop + 1, Len(kept))
        /\ weight' = remains(drop)
  BY DEF Evicted
<1>2. /\ SubSeq(kept, 1, drop) \in Seq(Entry)
      /\ entries' \in Seq(Entry) /\ Len(entries') = Len(kept) - drop
      /\ \A j \in 1..(Len(kept) - drop) : entries'[j] = kept[drop + j]
  BY <1>1, SplitProperties
<1>3. Total(entries') = remains(drop)
  <2>1. kept = SubSeq(kept, 1, drop) \o entries'
    BY <1>1, SequenceSplit
  <2>2. Total(kept) = Total(SubSeq(kept, 1, drop)) + Total(entries')
    BY <1>2, <2>1, TotalLaws
  <2>3. Total(SubSeq(kept, 1, drop)) \in Nat /\ Total(entries') \in Nat
    BY <1>2, TotalLaws
  <2> QED
    BY <2>2, <2>3
<1>4. Distinct(entries')
  <2>1. /\ DOMAIN entries' = 1..(Len(kept) - drop) /\ DOMAIN kept = 1..Len(kept)
        /\ Len(kept) \in Nat /\ drop \in Nat
    BY <1>2, LenProperties
  <2>2. ASSUME NEW i \in DOMAIN entries', NEW j \in DOMAIN entries', entries'[i].key = entries'[j].key
        PROVE  i = j
    <3>1. /\ i \in 1..(Len(kept) - drop) /\ j \in 1..(Len(kept) - drop)
          /\ drop + i \in DOMAIN kept /\ drop + j \in DOMAIN kept
      BY <2>1
    <3>2. kept[drop + i].key = kept[drop + j].key
      <4>1. entries'[i] = kept[drop + i] /\ entries'[j] = kept[drop + j]
        BY <1>2, <3>1
      <4> QED
        BY <2>2, <4>1
    <3>3. drop + i = drop + j
      BY <3>1, <3>2 DEF Distinct
    <3> QED
      BY <2>1, <3>3
  <2> QED
    BY <2>2 DEF Distinct
<1>5. ~(Len(entries') > MaxEntries \/ Total(entries') > MaxWeight)
  <2>1. CASE Len(kept) - drop <= MaxEntries /\ remains(drop) <= MaxWeight
    <3>1. Len(kept) - drop \in Int /\ remains(drop) \in Int
      <4>1. Total(entries') \in Nat
        BY <1>2, TotalLaws
      <4> QED
        BY <1>3, <4>1
    <3> QED
      BY <1>2, <1>3, <2>1, <3>1, CacheAssumption
  <2>2. CASE drop = Len(kept)
    <3>1. entries' = <<>>
      BY <1>2, <2>2, EmptySeq
    <3> QED
      BY <3>1, TotalLaws, CacheAssumption
  <2> QED
    BY <1>1, <2>1, <2>2
<1> QED
  BY <1>1, <1>2, <1>3, <1>4, <1>5 DEF Kept, Exceeds, Total, Distinct

\* Storing keeps the entries distinct, weighed and within the limits.
LEMMA StoreKeeps ==
  ASSUME Kept, NEW entry \in Entry, Store(entry)
  PROVE  Kept'
<1> DEFINE rest == Without(entries, entry.key)
           kept == Append(rest, entry)
<1>1. CASE UNCHANGED <<entries, weight>>
  BY <1>1 DEF Kept, Exceeds, Total, Distinct
<1>2. CASE Evicted(kept, weight - (Total(entries) - Total(rest)) + entry.weight)
  <2>1. /\ rest \in Seq(Entry) /\ Distinct(rest)
        /\ \A j \in DOMAIN rest : rest[j].key # entry.key
    BY WithoutLaws DEF Kept
  <2> HIDE DEF rest
  <2>2. kept \in Seq(Entry) /\ Distinct(kept)
    BY <2>1, AppendDistinct
  <2>3. weight - (Total(entries) - Total(rest)) + entry.weight = Total(kept)
    <3>1. Total(entries) \in Nat /\ Total(rest) \in Nat /\ Total(kept) = Total(rest) + entry.weight
          /\ weight = Total(entries) /\ entry.weight \in Nat
      BY <2>1, TotalLaws, CacheAssumption DEF Kept, Entry
    <3> QED
      BY <3>1
  <2> HIDE DEF kept
  <2> QED
    BY <1>2, <2>2, <2>3, EvictedKeeps
<1> QED
  BY <1>1, <1>2 DEF Store

\* A hit puts the entry last: the same entries in another order.
LEMMA HitKeeps ==
  ASSUME Kept, NEW k, NEW i \in DOMAIN entries, entries[i].key = k,
         entries' = Append(Without(entries, k), entries[i]), UNCHANGED weight
  PROVE  Kept'
<1> DEFINE rest == Without(entries, k)
<1>1. entries[i] \in Entry /\ Len(entries) \in Nat
  BY ElementOfSeq, LenProperties DEF Kept
<1>2. /\ rest \in Seq(Entry) /\ Distinct(rest)
      /\ \A j \in DOMAIN rest : rest[j].key # entries[i].key
      /\ Len(rest) = Len(entries) - 1
      /\ Total(entries) = Total(rest) + entries[i].weight
  BY WithoutLaws DEF Kept
<1> HIDE DEF rest
<1>3. /\ entries' \in Seq(Entry) /\ Distinct(entries')
      /\ Len(entries') = Len(entries)
      /\ Total(entries') = Total(entries)
  <2>1. entries' = Append(rest, entries[i])
    BY DEF rest
  <2>2. Append(rest, entries[i]) \in Seq(Entry) /\ Distinct(Append(rest, entries[i]))
    BY <1>1, <1>2, AppendDistinct
  <2>3. Len(Append(rest, entries[i])) = Len(entries)
    BY <1>1, <1>2, AppendProperties
  <2>4. Total(Append(rest, entries[i])) = Total(entries)
    BY <1>1, <1>2, TotalLaws
  <2> QED
    BY <2>1, <2>2, <2>3, <2>4
<1> QED
  BY <1>3 DEF Kept, Exceeds, Total, Distinct

\* Every step keeps the entries distinct, weighed and within the limits.
LEMMA KeptNext == CacheInv /\ Kept /\ [Next]_vars => Kept'
<1> SUFFICES ASSUME CacheInv, Kept, [Next]_vars PROVE Kept'
  OBVIOUS
<1>1. CASE UNCHANGED <<entries, weight>>
  BY <1>1 DEF Kept, Exceeds, Total, Distinct
<1>2. ASSUME NEW k \in Keys, GetOrLoad(k)
      PROVE  Kept'
  <2>1. CASE UNCHANGED <<entries, weight>>
    BY <1>1, <2>1
  <2>2. ASSUME NEW i \in DOMAIN entries, entries[i].key = k,
               entries' = Append(Without(entries, k), entries[i]), UNCHANGED weight
        PROVE  Kept'
    BY <2>2, HitKeeps
  <2> QED
    BY <1>2, <2>1, <2>2 DEF GetOrLoad, vars
<1>3. ASSUME NEW l \in DOMAIN loads, NEW w \in Weights \cup {NoWeight}, LoadGives(l, w)
      PROVE  Kept'
  <2>1. CASE loads[l].generation = generation /\ w # NoWeight
    <3>1. [key |-> loads[l].key, weight |-> w, load |-> l] \in Entry
      <4>1. loads[l] \in Load /\ l \in 1..MaxLoads
        BY ElementOfSeq, LenProperties, CacheAssumption DEF CacheInv
      <4> QED
        BY <2>1, <4>1 DEF Entry, Load
    <3>2. Store([key |-> loads[l].key, weight |-> w, load |-> l])
      BY <1>3, <2>1 DEF LoadGives
    <3> QED
      BY <3>1, <3>2, StoreKeeps
  <2>2. CASE ~(loads[l].generation = generation /\ w # NoWeight)
    BY <1>1, <1>3, <2>2 DEF LoadGives
  <2> QED
    BY <2>1, <2>2
<1>4. ASSUME NEW l \in DOMAIN loads, LoadThrows(l) \/ GiveUpPromise(l)
      PROVE  Kept'
  BY <1>1, <1>4 DEF LoadThrows, GiveUpPromise
<1>5. CASE Clear
  <2>1. entries' = <<>> /\ weight' = 0
    BY <1>5 DEF Clear
  <2>2. Total(<<>>) = 0
    BY TotalLaws
  <2> QED
    BY <2>1, <2>2, CacheAssumption DEF Kept, Exceeds, Total, Distinct
<1> QED
  BY <1>1, <1>2, <1>3, <1>4, <1>5 DEF Next, vars

\* The weight counter never drifts from what is kept, no key is kept twice and
\* neither limit is ever passed, whatever the order of hits, stores of new and
\* of kept keys, evictions, and clears.
THEOREM CacheWithinLimits == Spec => []WithinLimits
<1>1. Init => Kept
  BY TotalLaws, CacheAssumption DEF Init, Kept, Exceeds, Distinct
<1>2. Kept => WithinLimits
  BY DEF Kept, WithinLimits, Distinct
<1> QED
  BY <1>1, <1>2, CacheInvariant, KeptNext, PTL DEF Spec

\* The variables keep their types.
THEOREM CacheTypes == Spec => []TypeOK
<1>1. CacheInv /\ Kept => TypeOK
  BY TotalLaws DEF CacheInv, Kept, TypeOK
<1>2. Init => Kept
  BY TotalLaws, CacheAssumption DEF Init, Kept, Exceeds, Distinct
<1> QED
  BY <1>1, <1>2, CacheInvariant, KeptNext, PTL DEF Spec

----------------------------------------------------------------------------
(* The answers.                                                            *)

\* What is found in a source is of the fields of the cache key alone.
LEMMA AlikeCompile ==
  ASSUME NEW x, NEW y, CompilationCacheKey(x) = CompilationCacheKey(y)
  PROVE  Compile(x, x.source) = Compile(y, y.source)
<1>1. x.registry = y.registry /\ x.slotId = y.slotId /\ x.source = y.source /\ x.limits = y.limits
  BY DEF CompilationCacheKey
<1> QED BY <1>1 DEF Compile, Reject

LEMMA CompileStatus ==
  ASSUME NEW x, NEW source
  PROVE  Compile(x, source).status \in {"accepted", "rejected"}
BY DEF Compile, Reject, Accept

LEMMA AcceptedCompile ==
  ASSUME NEW x, NEW source, Compile(x, source).status = "accepted"
  PROVE  Compile(x, source) = Accept(Compiled(Program(source, x.registry, x.slotId), source, Facts[source.text].syntaxNodes))
BY DEF Compile, Reject, Accept

\* A kept artifact that is verified, whoever damaged it and in what field, stands
\* for what compiling the request would give.
LEMMA ArtifactsCompile ==
  ASSUME NEW x, NEW r \in Requests, x.registry = r.registry,
         \A a \in x.cachedArtifact : \E b \in Genuine : Damaged(a, b)
  PROVE  LoadCompilation(x) = Compile(x, x.source)
<1> DEFINE kept == {a \in x.cachedArtifact : VerifyArtifact(a, x) /\ a.syntaxNodes <= x.limits.syntaxNodes}
<1>1. CASE kept = {}
  BY <1>1 DEF LoadCompilation
<1>2. CASE kept # {}
  <2> DEFINE a == CHOOSE a \in kept : TRUE
  <2>1. a \in x.cachedArtifact /\ VerifyArtifact(a, x)
    BY <1>2
  <2>2. LoadCompilation(x) = Accept(Compiled(a.program, x.source, a.syntaxNodes))
    BY <1>2 DEF LoadCompilation
  <2> HIDE DEF a
  <2>3. PICK b \in Genuine : Damaged(a, b)
    BY <2>1
  <2>4. PICK q \in Admitted : Compile(q, q.source).status = "accepted" /\ b = SerializeArtifact(q, Compile(q, q.source).compiled)
    BY <2>3 DEF Genuine
  <2>5. Compile(q, q.source) = Accept(Compiled(Program(q.source, q.registry, q.slotId), q.source, Facts[q.source.text].syntaxNodes))
    BY <2>4, AcceptedCompile
  <2>6. /\ b.artifactKey = ArtifactKey(q) /\ b.syntaxNodes = Facts[q.source.text].syntaxNodes
        /\ b.irDigest = Program(q.source, q.registry, q.slotId) /\ b.program = b.irDigest
    BY <2>4, <2>5 DEF SerializeArtifact, Accept, Compiled
  <2>7. /\ a.artifactKey = b.artifactKey /\ a.syntaxNodes = b.syntaxNodes
        /\ a.program = b.program \/ a.irDigest = b.irDigest
    <3>1. {"artifactKey", "syntaxNodes", "irDigest", "program"} \subseteq DOMAIN b
      BY <2>4 DEF SerializeArtifact
    <3>2. PICK field \in {"compiler", "contractDigest", "slotId", "irDigest", "program"} : a = [b EXCEPT ![field] = a[field]]
      BY <2>3 DEF Damaged
    <3>3. \A other \in DOMAIN b : other # field => a[other] = b[other]
      BY <3>2
    <3> QED BY <3>1, <3>3
  <2>8. a.artifactKey = ArtifactKey(x) /\ a.irDigest = a.program
    BY <2>1 DEF VerifyArtifact
  <2>9. /\ q.registry.digest = x.registry.digest /\ q.slotId = x.slotId
        /\ q.source = x.source /\ q.limits = x.limits
    BY <2>6, <2>7, <2>8 DEF ArtifactKey
  <2>10. q.registry = x.registry
    BY <2>9, RequestsAssumption DEF Admitted
  <2>11. Compile(x, x.source) = Compile(q, q.source)
    BY <2>9, <2>10, AlikeCompile DEF CompilationCacheKey
  <2>12. a.program = Program(q.source, q.registry, q.slotId) /\ a.syntaxNodes = Facts[q.source.text].syntaxNodes
    BY <2>6, <2>7, <2>8
  <2> QED BY <2>2, <2>5, <2>9, <2>11, <2>12
<1> QED BY <1>1, <1>2

\* So nothing but a request and what is cached for its key tells its answer.
LEMMA ChecksAlike ==
  ASSUME NEW r \in Requests, NEW cache,
         CompilationCacheKey(r) \in DOMAIN cache => cache[CompilationCacheKey(r)] = Compile(r, r.source)
  PROVE  CheckCompile(r, cache) = CheckCompile(Bare(r), NoCache)
<1>1. LoadCompilation(r) = Compile(r, r.source)
  BY ArtifactsCompile, RequestsAssumption
<1>2. /\ Bare(r).registry = r.registry /\ Bare(r).slotId = r.slotId /\ Bare(r).source = r.source
      /\ Bare(r).limits = r.limits /\ Bare(r).cachedArtifact = {}
  BY RequestsAssumption DEF Bare, RequestFields
<1>3. LoadCompilation(Bare(r)) = Compile(r, r.source)
  <2>1. LoadCompilation(Bare(r)) = Compile(Bare(r), Bare(r).source)
    BY <1>2 DEF LoadCompilation
  <2>2. CompilationCacheKey(Bare(r)) = CompilationCacheKey(r)
    BY <1>2 DEF CompilationCacheKey
  <2> QED BY <2>1, <2>2, AlikeCompile
<1>4. Refusal(Bare(r)) = Refusal(r)
  BY <1>2 DEF Refusal
<1>5. \A code, usage : Reject(Bare(r), code, usage) = Reject(r, code, usage)
  BY <1>2 DEF Reject
<1>6. CASE Refusal(r) # ""
  <2>1. CheckCompile(Bare(r), NoCache) = Reject(r, Refusal(r), Usage(r.source, 0))
    BY <1>2, <1>4, <1>5, <1>6 DEF CheckCompile
  <2>2. CheckCompile(r, cache) = Reject(r, Refusal(r), Usage(r.source, 0))
    BY <1>6 DEF CheckCompile
  <2> QED BY <2>1, <2>2
<1>7. CASE Refusal(r) = ""
  <2>1. CheckCompile(Bare(r), NoCache) = Compile(r, r.source)
    BY <1>3, <1>4, <1>7 DEF CheckCompile, NoCache
  <2>2. CheckCompile(r, cache) = Compile(r, r.source)
    <3>1. CASE CompilationCacheKey(r) \in DOMAIN cache
      BY <1>7, <3>1 DEF CheckCompile
    <3>2. CASE CompilationCacheKey(r) \notin DOMAIN cache
      BY <1>1, <1>7, <3>2 DEF CheckCompile
    <3> QED BY <3>1, <3>2
  <2> QED BY <2>1, <2>2
<1> QED BY <1>6, <1>7

LEMMA AnswersAlike ==
  ASSUME NEW r \in Requests, NEW cache, CheckCompile(r, cache) = CheckCompile(Bare(r), NoCache)
  PROVE  Answer(r, cache) = Answer(Bare(r), NoCache)
<1>1. /\ \A field \in RequestFields \ {"cachedArtifact"} : Bare(r)[field] = r[field]
      /\ DOMAIN r = RequestFields
  BY RequestsAssumption DEF Bare, RequestFields
<1>2. /\ Bare(r).method = r.method /\ Bare(r).source = r.source /\ Bare(r).registry = r.registry
      /\ Bare(r).slotId = r.slotId /\ Bare(r).limits = r.limits /\ Bare(r).includeArtifact = r.includeArtifact
      /\ Bare(r).views = r.views /\ Bare(r).edits = r.edits /\ Bare(r).editLimits = r.editLimits
  BY <1>1 DEF RequestFields
<1>3. \A compiled : ProjectAcceptedCheck(Bare(r), compiled) = ProjectAcceptedCheck(r, compiled)
  BY <1>2 DEF ProjectAcceptedCheck, Reject, SerializeArtifact, ArtifactKey
<1>4. \A source : CheckRequestWithSource(Bare(r), source) = CheckRequestWithSource(r, source)
  BY <1>1 DEF Bare, CheckRequestWithSource, RequestFields
<1>5. \A source : CompileEditCandidate(Bare(r), source) = CompileEditCandidate(r, source)
  BY <1>2 DEF CompileEditCandidate, Compile, Reject
<1>6. Check(r, cache) = Check(Bare(r), NoCache)
  BY <1>3 DEF Check
<1>7. Inspect(r, cache) = Inspect(Bare(r), NoCache)
  BY <1>2, <1>3 DEF Inspect
<1>8. ApplySemanticEdits(r, cache) = ApplySemanticEdits(Bare(r), NoCache)
  BY <1>2, <1>4, <1>5 DEF ApplySemanticEdits
<1> QED BY <1>2, <1>6, <1>7, <1>8, RequestsAssumption DEF Answer

----------------------------------------------------------------------------
\* What is kept or being compiled for a key is what compiling a request with that
\* key gives.
Outcomes == {Compile(r, r.source) : r \in Admitted}
Compiles(l) ==
  \E r \in Admitted : loads[l].key = CompilationCacheKey(r) /\ results[l] = Compile(r, r.source)
Matching == {entry \in Entry : entry.load \in DOMAIN loads /\ loads[entry.load].key = entry.key}

BridgeInv ==
  /\ CacheInv
  /\ results \in Seq(Outcomes) /\ Len(results) = Len(loads)
  /\ \A l \in DOMAIN loads : Compiles(l)
  /\ entries \in Seq(Matching)

LEMMA BridgeInvInit == BridgeInit => BridgeInv
<1> SUFFICES ASSUME BridgeInit PROVE BridgeInv
  OBVIOUS
<1>1. entries = <<>> /\ loads = <<>> /\ results = <<>> /\ CacheInv
  BY CacheInvInit DEF BridgeInit, Init
<1>2. entries \in Seq(Matching) /\ DOMAIN loads = {} /\ Len(results) = Len(loads) /\ results \in Seq(Outcomes)
  BY <1>1
<1> QED BY <1>1, <1>2 DEF BridgeInv

\* The weight of a compilation is one that the cache is told.
LEMMA WeightsGiven ==
  ASSUME BridgeInv, NEW l \in DOMAIN loads
  PROVE  WeightOf(results[l]) \in Weights \cup {NoWeight}
<1>1. PICK r \in Admitted : results[l] = Compile(r, r.source)
  BY DEF BridgeInv, Compiles
<1> QED BY <1>1, RequestsAssumption

\* A step of the bridge is one of its cache.
LEMMA BridgeSteps ==
  ASSUME BridgeInv, [BridgeNext]_bridgeVars
  PROVE  [Next]_vars
<1>1. CASE UNCHANGED bridgeVars
  BY <1>1 DEF bridgeVars
<1>2. ASSUME NEW r \in Admitted, Ask(r) PROVE Next
  <2>1. CompilationCacheKey(r) \in Keys
    BY RequestsAssumption DEF Admitted
  <2> QED BY <1>2, <2>1 DEF Ask, Next
<1>3. CASE Turn
  BY <1>3, WeightsGiven DEF Turn, Next
<1> QED BY <1>1, <1>2, <1>3 DEF BridgeNext

\* A step that keeps the key of each load, and its result, keeps the entries of
\* their keys.
LEMMA MatchingStep ==
  ASSUME entries \in Seq(Matching), \A l \in DOMAIN loads : l \in DOMAIN loads' /\ loads'[l].key = loads[l].key
  PROVE  entries \in Seq(Matching')
<1>1. Matching \subseteq Matching'
  BY DEF Matching
<1> QED BY <1>1, SeqMonotonic

LEMMA AskStep ==
  ASSUME BridgeInv, CacheInv', NEW r \in Admitted, Ask(r)
  PROVE  BridgeInv'
<1> DEFINE key == CompilationCacheKey(r)
<1>0. /\ key \in Keys /\ r \in Requests
      /\ loads \in Seq(Load) /\ DOMAIN loads = 1..Len(loads) /\ Len(loads) \in Nat
      /\ results \in Seq(Outcomes) /\ Len(results) = Len(loads)
  <2>1. key \in Keys /\ r \in Requests
    BY RequestsAssumption DEF Admitted
  <2>2. loads \in Seq(Load) /\ results \in Seq(Outcomes) /\ Len(results) = Len(loads)
    BY DEF BridgeInv, CacheInv
  <2> QED BY <2>1, <2>2, LenProperties
<1>1. LoadCompilation(r) = Compile(r, r.source)
  BY <1>0, ArtifactsCompile, RequestsAssumption
<1> HIDE DEF key
<1>2. ASSUME NEW i \in DOMAIN entries, entries' = Append(Without(entries, key), entries[i]),
             UNCHANGED <<weight, generation, pending, loads>>
      PROVE  BridgeInv'
  <2>1. entries[i] \in Matching /\ entries \in Seq(Matching)
    BY <1>2, ElementOfSeq, LenProperties DEF BridgeInv
  <2>2. entries' \in Seq(Matching)
    BY <1>2, <2>1, WithoutType, AppendProperties
  <2>3. Matching' = Matching
    BY <1>2 DEF Matching
  <2>4. results' = results
    BY <1>0, <1>2 DEF Ask
  <2> QED BY <1>2, <2>2, <2>3, <2>4 DEF BridgeInv, Compiles
<1>3. CASE UNCHANGED vars
  <2>1. results' = results /\ Matching' = Matching
    BY <1>0, <1>3 DEF Ask, vars, Matching
  <2> QED BY <1>3, <2>1 DEF BridgeInv, Compiles, vars
<1>4. CASE /\ loads' = Append(loads, [key |-> key, generation |-> generation, phase |-> "loading"])
           /\ UNCHANGED <<entries, weight, generation>>
  <2> DEFINE load == [key |-> key, generation |-> generation, phase |-> "loading"]
             l == Len(loads) + 1
  <2>1. /\ Len(loads') = l /\ DOMAIN loads' = 1..l /\ loads'[l] = load
        /\ \A m \in DOMAIN loads : m \in DOMAIN loads' /\ loads'[m] = loads[m]
    <3>1. load \in Load
      BY <1>0 DEF Load, BridgeInv, CacheInv
    <3> QED BY <1>0, <1>4, <3>1, AppendProperties
  <2>2. results' = Append(results, Compile(r, r.source)) /\ Compile(r, r.source) \in Outcomes
    BY <1>0, <1>1, <2>1 DEF Ask, Outcomes
  <2>3. /\ results' \in Seq(Outcomes) /\ Len(results') = l /\ results'[l] = Compile(r, r.source)
        /\ \A m \in DOMAIN loads : results'[m] = results[m]
    BY <1>0, <2>2, AppendProperties
  <2>4. \A m \in DOMAIN loads' : Compiles(m)'
    <3> SUFFICES ASSUME NEW m \in 1..l PROVE Compiles(m)'
      BY <2>1
    <3>1. CASE m = l
      BY <2>1, <2>3, <3>1 DEF Compiles, key
    <3>2. CASE m # l
      <4>1. m \in DOMAIN loads
        BY <1>0, <3>2
      <4> QED BY <2>1, <2>3, <4>1 DEF BridgeInv, Compiles
    <3> QED BY <3>1, <3>2
  <2>5. entries' \in Seq(Matching')
    BY <1>4, <2>1, MatchingStep DEF BridgeInv
  <2> QED BY <2>1, <2>3, <2>4, <2>5 DEF BridgeInv
<1> QED BY <1>2, <1>3, <1>4 DEF Ask, GetOrLoad, key

LEMMA TurnStep ==
  ASSUME BridgeInv, CacheInv', Turn
  PROVE  BridgeInv'
<1>0. /\ loads \in Seq(Load) /\ DOMAIN loads = 1..Len(loads) /\ Len(loads) \in Nat /\ Len(loads) <= MaxLoads
      /\ \A m \in DOMAIN loads : loads[m] \in Load
      /\ results' = results
  BY LenProperties, ElementOfSeq DEF BridgeInv, CacheInv, Turn
<1>1. ASSUME NEW l \in DOMAIN loads, NEW phase, loads' = [loads EXCEPT ![l].phase = phase],
             entries' \in Seq(Matching)
      PROVE  BridgeInv'
  <2>1. /\ DOMAIN loads' = DOMAIN loads
        /\ \A m \in DOMAIN loads : loads'[m].key = loads[m].key
    BY <1>0, <1>1 DEF Load
  <2>2. Matching' = Matching
    BY <2>1 DEF Matching
  <2>3. \A m \in DOMAIN loads' : Compiles(m)'
    BY <1>0, <2>1 DEF BridgeInv, Compiles
  <2> QED BY <1>0, <1>1, <2>1, <2>2, <2>3 DEF BridgeInv
<1>2. ASSUME NEW l \in DOMAIN loads, LoadGives(l, WeightOf(results[l]))
      PROVE  BridgeInv'
  <2> DEFINE w == WeightOf(results[l])
             entry == [key |-> loads[l].key, weight |-> w, load |-> l]
  <2>0. w \in Weights \cup {NoWeight}
    BY WeightsGiven
  <2> HIDE DEF w
  <2>1. entries' \in Seq(Matching)
    <3>1. CASE loads[l].generation = generation /\ w # NoWeight
      <4>1. entry \in Matching
        BY <1>0, <2>0, <3>1, CacheAssumption DEF Matching, Entry, Load
      <4> QED BY <1>2, <3>1, <4>1, StoreType DEF LoadGives, BridgeInv, w
    <3>2. CASE ~(loads[l].generation = generation /\ w # NoWeight)
      BY <1>2, <3>2 DEF LoadGives, BridgeInv, w
    <3> QED BY <3>1, <3>2
  <2> QED BY <1>1, <1>2, <2>1 DEF LoadGives
<1>3. ASSUME NEW l \in DOMAIN loads, LoadThrows(l) \/ GiveUpPromise(l)
      PROVE  BridgeInv'
  BY <1>1, <1>3 DEF LoadThrows, GiveUpPromise, BridgeInv
<1>4. CASE Clear
  <2>1. loads' = loads /\ entries' = <<>>
    BY <1>4 DEF Clear
  <2>2. entries' \in Seq(Matching')
    BY <2>1
  <2> QED BY <1>0, <2>1, <2>2 DEF BridgeInv, Compiles
<1> QED BY <1>2, <1>3, <1>4 DEF Turn

LEMMA BridgeInvNext == BridgeInv /\ [BridgeNext]_bridgeVars => BridgeInv'
<1> SUFFICES ASSUME BridgeInv, [BridgeNext]_bridgeVars PROVE BridgeInv'
  OBVIOUS
<1>1. CacheInv'
  BY BridgeSteps, CacheInvNext DEF BridgeInv
<1>2. CASE UNCHANGED bridgeVars
  BY <1>1, <1>2 DEF BridgeInv, bridgeVars, vars, Compiles, Matching
<1> QED BY <1>1, <1>2, AskStep, TurnStep DEF BridgeNext

LEMMA BridgeInvariant == BridgeSpec => []BridgeInv
BY BridgeInvInit, BridgeInvNext, PTL DEF BridgeSpec

\* The compiling methods use the cache as its specification has it, so what was
\* proved of the cache holds of the bridge.
THEOREM BridgeUsesCache == BridgeSpec => Spec
<1>1. BridgeInit => Init
  BY DEF BridgeInit
<1>2. BridgeInv /\ [BridgeNext]_bridgeVars => [Next]_vars
  BY BridgeSteps
<1> QED BY <1>1, <1>2, BridgeInvariant, PTL DEF BridgeSpec, Spec

----------------------------------------------------------------------------
\* What a request is given for its key is what compiling it gives.
LEMMA SharedCompiles ==
  ASSUME BridgeInv, NEW r, CompilationCacheKey(r) \in DOMAIN Shared
  PROVE  Shared[CompilationCacheKey(r)] = Compile(r, r.source)
<1> DEFINE key == CompilationCacheKey(r)
           l == LoadOf(key)
<1>1. key \in Keys /\ (Cached(key) \/ pending[key] # 0) /\ Shared[key] = results[l]
  BY DEF Shared
<1>2. l \in DOMAIN loads /\ loads[l].key = key
  <2>1. CASE Cached(key)
    <3> DEFINE i == CHOOSE i \in DOMAIN entries : entries[i].key = key
    <3>1. i \in DOMAIN entries /\ entries[i].key = key /\ l = entries[i].load
      BY <2>1 DEF Cached, LoadOf
    <3> HIDE DEF i, key, l
    <3>2. entries[i] \in Matching
      BY <3>1, ElementOfSeq, LenProperties DEF BridgeInv
    <3> QED BY <3>1, <3>2 DEF Matching
  <2>2. CASE ~Cached(key)
    BY <1>1, <2>2 DEF LoadOf, BridgeInv, CacheInv, Promised
  <2> QED BY <2>1, <2>2
<1>3. PICK q \in Admitted : loads[l].key = CompilationCacheKey(q) /\ results[l] = Compile(q, q.source)
  BY <1>2 DEF BridgeInv, Compiles
<1> QED BY <1>1, <1>2, <1>3, AlikeCompile

LEMMA SharedAnswers ==
  ASSUME BridgeInv, NEW r \in Requests
  PROVE  Answer(r, Shared) = Answer(Bare(r), NoCache)
BY SharedCompiles, ChecksAlike, AnswersAlike

\* Whatever was asked, cached, evicted, cleared or is being compiled before, and
\* whatever artifact a host has kept, the answer to a request is that of a new
\* bridge to it alone (checkCompile, getOrLoad).
THEOREM TransparentCache == BridgeSpec => []CacheTransparent
<1>1. BridgeInv => CacheTransparent
  BY SharedAnswers DEF CacheTransparent, Alone
<1> QED BY <1>1, BridgeInvariant, PTL

\* A source an edit returns is not refused, under the limits of the request.
LEMMA CandidateStands ==
  ASSUME NEW r \in Requests, NEW source, Refusal(r) = "", source.module = r.source.module,
         CompileEditCandidate(r, source).status = "accepted",
         NEW x, x = [r EXCEPT !.source = source, !.method = "inspect"], NEW cache,
         CompilationCacheKey(x) \in DOMAIN cache => cache[CompilationCacheKey(x)] = Compile(x, x.source)
  PROVE  CheckCompile(x, cache) = CompileEditCandidate(r, source)
<1>1. /\ x.registry = r.registry /\ x.slotId = r.slotId /\ x.limits = r.limits
      /\ x.source = source /\ x.cachedArtifact = r.cachedArtifact
  BY RequestsAssumption DEF RequestFields
<1>2. /\ CompileEditCandidate(r, source) = Compile(r, source)
      /\ Facts[source.text].utf8 /\ ~(Facts[source.text].bytes > r.limits.sourceBytes) /\ ~OverMeasure(source, r.limits)
  BY DEF CompileEditCandidate, Reject
<1>3. /\ RegistryValid(r.registry, r.slotId) /\ CompileLimitsValid(r.limits, r.registry.slots[r.slotId].compileLimits)
      /\ r.source.module \in Modules
  BY DEF Refusal
<1>4. Refusal(x) = ""
  BY <1>1, <1>2, <1>3 DEF Refusal
<1>5. LoadCompilation(x) = Compile(x, x.source)
  BY <1>1, ArtifactsCompile, RequestsAssumption
<1>6. Compile(x, x.source) = Compile(r, source)
  BY <1>1 DEF Compile, Reject
<1> QED BY <1>2, <1>4, <1>5, <1>6 DEF CheckCompile

LEMMA EditStands ==
  ASSUME NEW r \in Requests, r.method = "edit", NEW cache,
         \A x : CompilationCacheKey(x) \in DOMAIN cache => cache[CompilationCacheKey(x)] = Compile(x, x.source)
  PROVE  StandsAgain(r, Answer(r, cache), cache)
<1> DEFINE answer == ApplySemanticEdits(r, cache)
           edited == Transform(r.edits, r.source)
           candidate == CompileEditCandidate(r, edited.source)
           x == Again(r, answer)
           updated == CheckRequestWithSource(r, edited.source)
           final == ProjectAcceptedCheck(updated, candidate.compiled)
<1>0. Answer(r, cache) = answer
  BY DEF Answer
<1> SUFFICES ASSUME answer.status = "accepted"
             PROVE  Answer(x, cache) = [status |-> "accepted", check |-> answer.check, views |-> answer.views]
  BY <1>0 DEF StandsAgain
<1>1. /\ CheckCompile(r, cache).status # "rejected" /\ edited.ok
      /\ candidate.status # "rejected" /\ final.status # "rejected" /\ ~ViewsFail(candidate.compiled, r.views)
      /\ answer = [status |-> "accepted", source |-> edited.source, check |-> final, views |-> DeriveViews(candidate.compiled, r.views)]
  BY DEF ApplySemanticEdits, EditsRejected
<1> HIDE DEF answer
<1>2. Refusal(r) = ""
  BY <1>1 DEF CheckCompile, Reject
<1>3. x = [r EXCEPT !.source = edited.source, !.method = "inspect"] /\ edited.source.module = r.source.module
  BY <1>1, RequestsAssumption DEF Again
<1>4. candidate.status = "accepted"
  BY <1>1, CompileStatus DEF CompileEditCandidate, Reject
<1>5. CheckCompile(x, cache) = candidate
  <2>1. CompilationCacheKey(x) \in DOMAIN cache => cache[CompilationCacheKey(x)] = Compile(x, x.source)
    OBVIOUS
  <2> HIDE DEF x, edited
  <2> QED BY <1>2, <1>3, <1>4, <2>1, CandidateStands
<1>6. /\ x.method = "inspect" /\ x.views = r.views /\ ViewsValid(x.views)
      /\ x.registry = r.registry /\ x.slotId = r.slotId /\ x.limits = r.limits
      /\ x.includeArtifact = r.includeArtifact /\ x.source = edited.source
  BY <1>3, RequestsAssumption DEF RequestFields
<1>7. /\ updated.registry = r.registry /\ updated.slotId = r.slotId /\ updated.limits = r.limits
      /\ updated.includeArtifact = r.includeArtifact /\ updated.source = edited.source
  BY RequestsAssumption DEF CheckRequestWithSource, RequestFields
<1>8. ProjectAcceptedCheck(x, candidate.compiled) = final
  BY <1>6, <1>7 DEF ProjectAcceptedCheck, Reject, SerializeArtifact, ArtifactKey
<1>9. final.status = "accepted"
  BY <1>1 DEF ProjectAcceptedCheck, Reject
<1> HIDE DEF x, updated, final, candidate, edited
<1>10. Inspect(x, cache) = [status |-> "accepted", check |-> final, views |-> DeriveViews(candidate.compiled, r.views)]
  BY <1>1, <1>4, <1>5, <1>6, <1>8, <1>9 DEF Inspect
<1> QED BY <1>1, <1>6, <1>10 DEF Answer

\* The source an edit request returns, whatever was compiled before, stands on
\* its own: checked again under the same limits, with whatever is cached then, it is
\* accepted with the answer and the views that came with it (compileEditCandidate).
THEOREM EditedSourceAccepted == BridgeSpec => []EditedSourceStands
<1>1. BridgeInv => EditedSourceStands
  BY EditStands, SharedCompiles DEF EditedSourceStands
<1> QED BY <1>1, BridgeInvariant, PTL

----------------------------------------------------------------------------
(* The diff.                                                               *)

\* What is related after some regions: the nodes of each side that are not of
\* both, each in one entry with nodes of the other side.
Accounts(before, after, s) ==
  LET same == DOMAIN before \cap DOMAIN after IN
  /\ same \subseteq s.before /\ s.before \subseteq DOMAIN before
  /\ same \subseteq s.after /\ s.after \subseteq DOMAIN after
  /\ \A e \in s.entries :
       /\ e.before # {} /\ e.before \subseteq s.before \ same
       /\ e.after # {} /\ e.after \subseteq s.after \ same
       /\ \E kind \in {"renamed", "moved", "updated"} : e.kind = Relation([old |-> e.before, new |-> e.after], kind)
  /\ \A id \in s.before \ same : \E e \in s.entries : id \in e.before
  /\ \A id \in s.after \ same : \E e \in s.entries : id \in e.after
  /\ \A e, f \in s.entries : e.before \cap f.before # {} \/ e.after \cap f.after # {} => e = f

LEMMA RelatedAccounts ==
  ASSUME NEW before, NEW after, NEW kinds, NEW s, NEW region, Accounts(before, after, s)
  PROVE  Accounts(before, after, Related(before, after, kinds, s, region))
<1> DEFINE same == DOMAIN before \cap DOMAIN after
           Of(shape) == Group(before, after, s, region, shape)
           shapes == {before[id].shape : id \in NodesIn(before, region.original)}
                       \cup {after[id].shape : id \in NodesIn(after, region.updated)}
           groups == {g \in {Of(shape) : shape \in shapes} : g.old # {} /\ g.new # {}}
           kind == RelationKind(region.editIds, kinds)
           Made(g) == DiffEntry(Relation(g, kind), g.old, g.new, region.editIds)
           t == Related(before, after, kinds, s, region)
<1>1. /\ t.before = s.before \cup UNION {g.old : g \in groups}
      /\ t.after = s.after \cup UNION {g.new : g \in groups}
      /\ t.entries = s.entries \cup {Made(g) : g \in groups}
  BY DEF Related
<1>2. \A g \in groups :
        /\ g.old # {} /\ g.old \subseteq DOMAIN before \ s.before
        /\ g.new # {} /\ g.new \subseteq DOMAIN after \ s.after
        /\ g = [old |-> g.old, new |-> g.new]
  BY DEF Group, NodesIn
<1>3. \A g, h \in groups : g.old \cap h.old # {} \/ g.new \cap h.new # {} => g = h
  <2> SUFFICES ASSUME NEW p \in shapes, NEW q \in shapes,
                      Of(p).old \cap Of(q).old # {} \/ Of(p).new \cap Of(q).new # {}
               PROVE  p = q
    OBVIOUS
  <2> QED BY DEF Group
<1>4. \A g \in groups : Made(g).before = g.old /\ Made(g).after = g.new /\ Made(g).kind = Relation(g, kind)
  BY DEF DiffEntry
<1>5. kind \in {"renamed", "moved", "updated"}
  BY DEF RelationKind
<1> HIDE DEF groups, Made, t, kind
<1>6. /\ same \subseteq t.before /\ t.before \subseteq DOMAIN before
      /\ same \subseteq t.after /\ t.after \subseteq DOMAIN after
  BY <1>1, <1>2 DEF Accounts
<1>7. \A e \in t.entries :
       /\ e.before # {} /\ e.before \subseteq t.before \ same
       /\ e.after # {} /\ e.after \subseteq t.after \ same
       /\ \E k \in {"renamed", "moved", "updated"} : e.kind = Relation([old |-> e.before, new |-> e.after], k)
  <2> SUFFICES ASSUME NEW e \in t.entries
               PROVE  /\ e.before # {} /\ e.before \subseteq t.before \ same
                      /\ e.after # {} /\ e.after \subseteq t.after \ same
                      /\ \E k \in {"renamed", "moved", "updated"} : e.kind = Relation([old |-> e.before, new |-> e.after], k)
    OBVIOUS
  <2>1. CASE e \in s.entries
    BY <1>1, <2>1 DEF Accounts
  <2>2. ASSUME NEW g \in groups, e = Made(g) PROVE /\ e.before # {} /\ e.before \subseteq t.before \ same
                      /\ e.after # {} /\ e.after \subseteq t.after \ same
                      /\ \E k \in {"renamed", "moved", "updated"} : e.kind = Relation([old |-> e.before, new |-> e.after], k)
    <3>1. e.before = g.old /\ e.after = g.new /\ e.kind = Relation(g, kind) /\ g = [old |-> g.old, new |-> g.new]
      BY <1>2, <1>4, <2>2
    <3>2. g.old \subseteq t.before /\ g.new \subseteq t.after
      BY <1>1
    <3>3. g.old \cap same = {} /\ g.new \cap same = {}
      BY <1>2 DEF Accounts
    <3> QED BY <1>2, <1>5, <3>1, <3>2, <3>3
  <2> QED BY <1>1, <2>1, <2>2
<1>8. /\ \A id \in t.before \ same : \E e \in t.entries : id \in e.before
      /\ \A id \in t.after \ same : \E e \in t.entries : id \in e.after
  BY <1>1, <1>4 DEF Accounts
<1>9. \A e, f \in t.entries : e.before \cap f.before # {} \/ e.after \cap f.after # {} => e = f
  <2> SUFFICES ASSUME NEW e \in t.entries, NEW f \in t.entries,
                      e.before \cap f.before # {} \/ e.after \cap f.after # {}
               PROVE  e = f
    OBVIOUS
  <2>1. \A d \in s.entries : d.before \subseteq s.before /\ d.after \subseteq s.after
    BY DEF Accounts
  <2>2. CASE e \in s.entries /\ f \in s.entries
    BY <2>2 DEF Accounts
  <2>3. ASSUME NEW g \in groups, e = Made(g), f \in s.entries PROVE FALSE
    BY <1>2, <1>4, <2>1, <2>3
  <2>4. ASSUME NEW g \in groups, f = Made(g), e \in s.entries PROVE FALSE
    BY <1>2, <1>4, <2>1, <2>4
  <2>5. ASSUME NEW g \in groups, NEW h \in groups, e = Made(g), f = Made(h) PROVE e = f
    BY <1>3, <1>4, <2>5
  <2> QED BY <1>1, <2>2, <2>3, <2>4, <2>5
<1> QED BY <1>6, <1>7, <1>8, <1>9 DEF Accounts, t

\* The equation of the recursion over the first n regions.
Solves(h, before, after, kinds, regions, start, n) ==
  h = [i \in 0..n |-> IF i = 0 THEN start ELSE Related(before, after, kinds, h[i - 1], regions[i])]

\* It has a solution, for any number of them.
LEMMA RegionsExist ==
  ASSUME NEW before, NEW after, NEW kinds, NEW regions, NEW start, NEW n \in Nat
  PROVE  \E h : Solves(h, before, after, kinds, regions, start, n)
<1> DEFINE Exists(m) == \E h : Solves(h, before, after, kinds, regions, start, m)
           Missing == {m \in Nat : ~Exists(m)}
<1>1. Exists(0)
  <2> DEFINE h == [i \in 0..0 |-> start]
  <2>1. Solves(h, before, after, kinds, regions, start, 0)
    BY DEF Solves
  <2> QED BY <2>1
<1>2. ASSUME NEW m \in Nat, Exists(m)
      PROVE  Exists(m + 1)
  <2>1. PICK h : Solves(h, before, after, kinds, regions, start, m)
    BY <1>2
  <2> DEFINE g == [i \in 0..(m + 1) |-> IF i <= m THEN h[i] ELSE Related(before, after, kinds, h[m], regions[m + 1])]
  <2>2. Solves(g, before, after, kinds, regions, start, m + 1)
    <3> SUFFICES ASSUME NEW i \in 0..(m + 1)
                 PROVE  g[i] = IF i = 0 THEN start ELSE Related(before, after, kinds, g[i - 1], regions[i])
      BY DEF Solves
    <3>1. CASE i <= m
      <4>1. g[i] = h[i] /\ (i # 0 => g[i - 1] = h[i - 1])
        BY <3>1
      <4>2. h[i] = IF i = 0 THEN start ELSE Related(before, after, kinds, h[i - 1], regions[i])
        BY <2>1, <3>1 DEF Solves
      <4> QED BY <4>1, <4>2
    <3>2. CASE i = m + 1
      BY <3>2
    <3> QED BY <3>1, <3>2
  <2> QED BY <2>2
<1> SUFFICES Missing = {}
  OBVIOUS
<1> SUFFICES ASSUME Missing # {} PROVE FALSE
  OBVIOUS
<1> HIDE DEF Exists
<1>3. PICK m \in Missing : \A k \in Missing : m <= k
  BY LeastNatural, Missing \subseteq Nat
<1>4. m # 0
  BY <1>1, <1>3
<1>5. m - 1 \in Nat /\ ~(m - 1 \in Missing)
  BY <1>3, <1>4
<1> QED BY <1>2, <1>3, <1>5

\* So the regions leave the nodes they relate accounted for, however many.
LEMMA RegionsAccount ==
  ASSUME NEW before, NEW after, NEW kinds, NEW regions, Len(regions) \in Nat, NEW n \in 0..Len(regions)
  PROVE  Accounts(before, after, AfterRegions(before, after, kinds, regions)[n])
<1> DEFINE same == DOMAIN before \cap DOMAIN after
           start == [before |-> same, after |-> same, entries |-> {}]
           related == AfterRegions(before, after, kinds, regions)
           Odd == {m \in 0..Len(regions) : ~Accounts(before, after, related[m])}
<1> SUFFICES ASSUME Odd # {} PROVE FALSE
  OBVIOUS
<1>1. related = [i \in 0..Len(regions) |-> IF i = 0 THEN start ELSE Related(before, after, kinds, related[i - 1], regions[i])]
  <2>1. \E h : Solves(h, before, after, kinds, regions, start, Len(regions))
    BY RegionsExist
  <2> QED BY <2>1 DEF AfterRegions, Solves
<1> HIDE DEF related
<1>2. PICK m \in Odd : \A k \in Odd : m <= k
  BY LeastNatural, Odd \subseteq Nat
<1>3. Accounts(before, after, start)
  BY DEF Accounts
<1>4. m # 0
  BY <1>1, <1>2, <1>3
<1>5. m - 1 \in 0..Len(regions) /\ Accounts(before, after, related[m - 1])
  BY <1>2, <1>4
<1>6. related[m] = Related(before, after, kinds, related[m - 1], regions[m])
  BY <1>1, <1>2, <1>4
<1> QED BY <1>2, <1>5, <1>6, RelatedAccounts

LEMMA OneEntry ==
  ASSUME NEW S, NEW e \in S, \A f \in S : f = e
  PROVE  Cardinality(S) = 1
<1>1. S = {e}
  OBVIOUS
<1> QED BY <1>1, FS_Singleton

\* An entry tells of a split or a merge exactly when it is one.
LEMMA RelationTells ==
  ASSUME NEW old, NEW new, IsFiniteSet(old), IsFiniteSet(new), old # {}, new # {},
         NEW kind \in {"renamed", "moved", "updated"}
  PROVE  Relation([old |-> old, new |-> new], kind) \in {"split", "merged"} <=>
           Cardinality(old) * Cardinality(new) > 1 /\ 1 \in {Cardinality(old), Cardinality(new)}
<1>1. PICK a \in Nat \ {0}, b \in Nat \ {0} : a = Cardinality(old) /\ b = Cardinality(new)
  <2>1. Cardinality(old) \in Nat /\ Cardinality(new) \in Nat
    BY FS_CardinalityType
  <2>2. Cardinality(old) # 0 /\ Cardinality(new) # 0
    BY FS_EmptySet
  <2> QED BY <2>1, <2>2
<1>2. Relation([old |-> old, new |-> new], kind)
        = CASE a = 1 /\ b > 1 -> "split" [] a > 1 /\ b = 1 -> "merged" [] OTHER -> kind
  BY <1>1 DEF Relation
<1>3. CASE a = 1 /\ b > 1
  BY <1>1, <1>2, <1>3
<1>4. CASE a > 1 /\ b = 1
  BY <1>1, <1>2, <1>4
<1>5. CASE a = 1 /\ b = 1
  BY <1>1, <1>2, <1>5
<1>6. CASE a > 1 /\ b > 1
  BY <1>1, <1>2, <1>6
<1> QED BY <1>1, <1>3, <1>4, <1>5, <1>6

\* The diff of any two finite graphs, whatever the edits and the regions, relates
\* each node of either once (buildSemanticDiff).
THEOREM DiffIsTotal ==
  ASSUME problem.kind = "diff" =>
           /\ IsFiniteSet(DOMAIN problem.before) /\ IsFiniteSet(DOMAIN problem.after)
           /\ Len(problem.regions) \in Nat
  PROVE  DiffAccountsForNodes
<1> SUFFICES ASSUME problem.kind = "diff"
             PROVE  DiffAccountsForNodes
  BY DEF DiffAccountsForNodes
<1> DEFINE before == problem.before
           after == problem.after
           all == DOMAIN problem.kinds
           same == DOMAIN before \cap DOMAIN after
           done == AfterRegions(before, after, problem.kinds, problem.regions)[Len(problem.regions)]
           preserved == {DiffEntry("preserved", {id}, {id}, {}) : id \in same}
           removed == {DiffEntry("removed", {id}, {}, all) : id \in DOMAIN before \ done.before}
           added == {DiffEntry("added", {}, {id}, all) : id \in DOMAIN after \ done.after}
<1>1. Accounts(before, after, done)
  BY RegionsAccount
<1>2. EntriesOf(problem) = done.entries \cup preserved \cup removed \cup added
  BY DEF EntriesOf, BuildSemanticDiff
<1>4. /\ \A e \in preserved : \E id \in same : e.before = {id} /\ e.after = {id} /\ e.kind = "preserved"
      /\ \A e, f \in preserved : (e.before = f.before => e = f) /\ (e.after = f.after => e = f)
      /\ \A id \in same : \E e \in preserved : e.before = {id} /\ e.after = {id}
  <2>1. \A id \in same : DiffEntry("preserved", {id}, {id}, {}) \in preserved
    OBVIOUS
  <2>2. \A e \in preserved : \E id \in same : e = DiffEntry("preserved", {id}, {id}, {})
    OBVIOUS
  <2> HIDE DEF done, preserved
  <2>3. ASSUME NEW e \in preserved
        PROVE  \E id \in same :
                 /\ e = DiffEntry("preserved", {id}, {id}, {})
                 /\ e.before = {id} /\ e.after = {id} /\ e.kind = "preserved"
    <3>1. PICK id \in same : e = DiffEntry("preserved", {id}, {id}, {})
      BY <2>2
    <3> QED BY <3>1 DEF DiffEntry
  <2>4. \A e, f \in preserved : (e.before = f.before => e = f) /\ (e.after = f.after => e = f)
    <3> SUFFICES ASSUME NEW e \in preserved, NEW f \in preserved, e.before = f.before \/ e.after = f.after PROVE e = f
      OBVIOUS
    <3>1. PICK i \in same : e = DiffEntry("preserved", {i}, {i}, {}) /\ e.before = {i} /\ e.after = {i}
      BY <2>3
    <3>2. PICK j \in same : f = DiffEntry("preserved", {j}, {j}, {}) /\ f.before = {j} /\ f.after = {j}
      BY <2>3
    <3>3. i = j
      BY <3>1, <3>2
    <3> QED BY <3>1, <3>2, <3>3
  <2>5. \A id \in same : \E e \in preserved : e.before = {id} /\ e.after = {id}
    BY <2>1 DEF DiffEntry
  <2> QED BY <2>3, <2>4, <2>5
<1>5. /\ \A e \in removed : \E id \in DOMAIN before \ done.before : e.before = {id} /\ e.after = {} /\ e.kind = "removed"
      /\ \A e, f \in removed : e.before = f.before => e = f
      /\ \A id \in DOMAIN before \ done.before : \E e \in removed : e.before = {id}
  <2>1. \A id \in DOMAIN before \ done.before : DiffEntry("removed", {id}, {}, all) \in removed
    OBVIOUS
  <2>2. \A e \in removed : \E id \in DOMAIN before \ done.before : e = DiffEntry("removed", {id}, {}, all)
    OBVIOUS
  <2> HIDE DEF done, removed
  <2>3. ASSUME NEW e \in removed
        PROVE  \E id \in DOMAIN before \ done.before :
                 /\ e = DiffEntry("removed", {id}, {}, all)
                 /\ e.before = {id} /\ e.after = {} /\ e.kind = "removed"
    <3>1. PICK id \in DOMAIN before \ done.before : e = DiffEntry("removed", {id}, {}, all)
      BY <2>2
    <3> QED BY <3>1 DEF DiffEntry
  <2>4. \A e, f \in removed : e.before = f.before => e = f
    <3> SUFFICES ASSUME NEW e \in removed, NEW f \in removed, e.before = f.before PROVE e = f
      OBVIOUS
    <3>1. PICK i \in DOMAIN before \ done.before : e = DiffEntry("removed", {i}, {}, all) /\ e.before = {i}
      BY <2>3
    <3>2. PICK j \in DOMAIN before \ done.before : f = DiffEntry("removed", {j}, {}, all) /\ f.before = {j}
      BY <2>3
    <3>3. i = j
      BY <3>1, <3>2
    <3> QED BY <3>1, <3>2, <3>3
  <2>5. \A id \in DOMAIN before \ done.before : \E e \in removed : e.before = {id}
    BY <2>1 DEF DiffEntry
  <2> QED BY <2>3, <2>4, <2>5
<1>6. /\ \A e \in added : \E id \in DOMAIN after \ done.after : e.before = {} /\ e.after = {id} /\ e.kind = "added"
      /\ \A e, f \in added : e.after = f.after => e = f
      /\ \A id \in DOMAIN after \ done.after : \E e \in added : e.after = {id}
  <2>1. \A id \in DOMAIN after \ done.after : DiffEntry("added", {}, {id}, all) \in added
    OBVIOUS
  <2>2. \A e \in added : \E id \in DOMAIN after \ done.after : e = DiffEntry("added", {}, {id}, all)
    OBVIOUS
  <2> HIDE DEF done, added
  <2>3. ASSUME NEW e \in added
        PROVE  \E id \in DOMAIN after \ done.after :
                 /\ e = DiffEntry("added", {}, {id}, all)
                 /\ e.before = {} /\ e.after = {id} /\ e.kind = "added"
    <3>1. PICK id \in DOMAIN after \ done.after : e = DiffEntry("added", {}, {id}, all)
      BY <2>2
    <3> QED BY <3>1 DEF DiffEntry
  <2>4. \A e, f \in added : e.after = f.after => e = f
    <3> SUFFICES ASSUME NEW e \in added, NEW f \in added, e.after = f.after PROVE e = f
      OBVIOUS
    <3>1. PICK i \in DOMAIN after \ done.after : e = DiffEntry("added", {}, {i}, all) /\ e.after = {i}
      BY <2>3
    <3>2. PICK j \in DOMAIN after \ done.after : f = DiffEntry("added", {}, {j}, all) /\ f.after = {j}
      BY <2>3
    <3>3. i = j
      BY <3>1, <3>2
    <3> QED BY <3>1, <3>2, <3>3
  <2>5. \A id \in DOMAIN after \ done.after : \E e \in added : e.after = {id}
    BY <2>1 DEF DiffEntry
  <2> QED BY <2>3, <2>4, <2>5
<1>7. \A e \in done.entries : e.before \subseteq done.before \ same /\ e.after \subseteq done.after \ same
  BY <1>1 DEF Accounts
<1> HIDE DEF done, preserved, removed, added
<1>8. ASSUME NEW id \in DOMAIN before
      PROVE  Cardinality({e \in EntriesOf(problem) : id \in e.before}) = 1
  <2>1. CASE id \in same
    <3>1. PICK e \in preserved : e.before = {id}
      BY <1>4, <2>1
    <3>2. \A f \in EntriesOf(problem) : id \in f.before => f = e
      <4>1. ASSUME NEW f \in preserved, id \in f.before PROVE f = e
        <5>1. f.before = {id}
          <6>1. PICK i : f.before = {i} /\ f.after = {i}
            BY <1>4, <4>1
          <6> QED BY <4>1, <6>1
        <5>2. e.before = f.before
          BY <3>1, <5>1
        <5> QED BY <1>4, <5>2
      <4>2. id \in done.before
        BY <1>1, <2>1 DEF Accounts
      <4>3. \A f \in done.entries : id \notin f.before
        BY <1>7, <2>1
      <4>4. \A f \in removed : id \notin f.before
        BY <1>5, <4>2
      <4>5. \A f \in added : id \notin f.before
        BY <1>6
      <4> QED BY <1>2, <4>1, <4>3, <4>4, <4>5
    <3> QED BY <1>2, <3>1, <3>2, OneEntry
  <2>2. CASE id \in done.before \ same
    <3>1. PICK e \in done.entries : id \in e.before
      BY <1>1, <2>2 DEF Accounts
    <3>2. \A f \in EntriesOf(problem) : id \in f.before => f = e
      <4>1. \A f \in done.entries : id \in f.before => f = e
        BY <1>1, <3>1 DEF Accounts
      <4> QED BY <1>2, <1>4, <1>5, <1>6, <2>2, <4>1
    <3> QED BY <1>2, <3>1, <3>2, OneEntry
  <2>3. CASE id \in DOMAIN before \ done.before
    <3>1. PICK e \in removed : e.before = {id}
      BY <1>5, <2>3
    <3>2. \A f \in EntriesOf(problem) : id \in f.before => f = e
      <4>1. ASSUME NEW f \in removed, id \in f.before PROVE f = e
        <5>1. f.before = {id}
          BY <1>5, <4>1
        <5>2. e.before = f.before
          BY <3>1, <5>1
        <5> QED BY <1>5, <5>2
      <4>2. \A f \in done.entries : id \notin f.before
        BY <1>7, <2>3
      <4>3. \A f \in preserved : id \notin f.before
        BY <1>1, <1>4, <2>3 DEF Accounts
      <4>4. \A f \in added : id \notin f.before
        BY <1>6
      <4> QED BY <1>2, <4>1, <4>2, <4>3, <4>4
    <3> QED BY <1>2, <3>1, <3>2, OneEntry
  <2> QED BY <2>1, <2>2, <2>3
<1>9. ASSUME NEW id \in DOMAIN after
      PROVE  Cardinality({e \in EntriesOf(problem) : id \in e.after}) = 1
  <2>1. CASE id \in same
    <3>1. PICK e \in preserved : e.after = {id}
      BY <1>4, <2>1
    <3>2. \A f \in EntriesOf(problem) : id \in f.after => f = e
      <4>1. ASSUME NEW f \in preserved, id \in f.after PROVE f = e
        <5>1. f.after = {id}
          <6>1. PICK i : f.before = {i} /\ f.after = {i}
            BY <1>4, <4>1
          <6> QED BY <4>1, <6>1
        <5>2. e.after = f.after
          BY <3>1, <5>1
        <5> QED BY <1>4, <5>2
      <4>2. id \in done.after
        BY <1>1, <2>1 DEF Accounts
      <4>3. \A f \in done.entries : id \notin f.after
        BY <1>7, <2>1
      <4>4. \A f \in added : id \notin f.after
        BY <1>6, <4>2
      <4>5. \A f \in removed : id \notin f.after
        BY <1>5
      <4> QED BY <1>2, <4>1, <4>3, <4>4, <4>5
    <3> QED BY <1>2, <3>1, <3>2, OneEntry
  <2>2. CASE id \in done.after \ same
    <3>1. PICK e \in done.entries : id \in e.after
      BY <1>1, <2>2 DEF Accounts
    <3>2. \A f \in EntriesOf(problem) : id \in f.after => f = e
      <4>1. \A f \in done.entries : id \in f.after => f = e
        BY <1>1, <3>1 DEF Accounts
      <4> QED BY <1>2, <1>4, <1>5, <1>6, <2>2, <4>1
    <3> QED BY <1>2, <3>1, <3>2, OneEntry
  <2>3. CASE id \in DOMAIN after \ done.after
    <3>1. PICK e \in added : e.after = {id}
      BY <1>6, <2>3
    <3>2. \A f \in EntriesOf(problem) : id \in f.after => f = e
      <4>1. ASSUME NEW f \in added, id \in f.after PROVE f = e
        <5>1. f.after = {id}
          BY <1>6, <4>1
        <5>2. e.after = f.after
          BY <3>1, <5>1
        <5> QED BY <1>6, <5>2
      <4>2. \A f \in done.entries : id \notin f.after
        BY <1>7, <2>3
      <4>3. \A f \in preserved : id \notin f.after
        BY <1>1, <1>4, <2>3 DEF Accounts
      <4>4. \A f \in removed : id \notin f.after
        BY <1>5
      <4> QED BY <1>2, <4>1, <4>2, <4>3, <4>4
    <3> QED BY <1>2, <3>1, <3>2, OneEntry
  <2> QED BY <2>1, <2>2, <2>3
<1>10. ASSUME NEW e \in EntriesOf(problem)
       PROVE  e.kind \in {"split", "merged"} <=>
                Cardinality(e.before) * Cardinality(e.after) > 1 /\ 1 \in {Cardinality(e.before), Cardinality(e.after)}
  <2>1. CASE e \in done.entries
    <3>1. e.before # {} /\ e.after # {} /\ IsFiniteSet(e.before) /\ IsFiniteSet(e.after)
      <4>1. e.before \subseteq DOMAIN before /\ e.after \subseteq DOMAIN after /\ e.before # {} /\ e.after # {}
        BY <1>1, <2>1 DEF Accounts
      <4> QED BY <4>1, FS_Subset
    <3>2. PICK kind \in {"renamed", "moved", "updated"} : e.kind = Relation([old |-> e.before, new |-> e.after], kind)
      BY <1>1, <2>1 DEF Accounts
    <3> QED BY <3>1, <3>2, RelationTells
  <2>2. CASE e \in preserved
    <3>1. PICK id : e.before = {id} /\ e.after = {id} /\ e.kind = "preserved"
      BY <1>4, <2>2
    <3>2. Cardinality(e.before) = 1 /\ Cardinality(e.after) = 1
      BY <3>1, FS_Singleton
    <3> QED BY <3>1, <3>2
  <2>3. CASE e \in removed
    <3>1. PICK id : e.before = {id} /\ e.after = {} /\ e.kind = "removed"
      BY <1>5, <2>3
    <3>2. Cardinality(e.before) = 1 /\ Cardinality(e.after) = 0
      BY <3>1, FS_Singleton, FS_EmptySet
    <3> QED BY <3>1, <3>2
  <2>4. CASE e \in added
    <3>1. PICK id : e.before = {} /\ e.after = {id} /\ e.kind = "added"
      BY <1>6, <2>4
    <3>2. Cardinality(e.before) = 0 /\ Cardinality(e.after) = 1
      BY <3>1, FS_Singleton, FS_EmptySet
    <3> QED BY <3>1, <3>2
  <2> QED BY <1>2, <2>1, <2>2, <2>3, <2>4
<1> QED BY <1>8, <1>9, <1>10 DEF DiffAccountsForNodes


-----------------------------------------------------------------------------
(* Batches of source transformations.                                      *)
\* What normalized transformations of a source are: at most one removal and at
\* most one insertion, which does not lie in the removal unless at its beginning.
WellFormed(size, values) ==
  /\ IsFiniteSet(DOMAIN values) /\ DOMAIN values \subseteq Nat
  /\ \A i \in DOMAIN values :
       /\ \A x, y \in values[i].insertion : x = y
       /\ \A x \in values[i].insertion : x.at \in 0..size
       /\ \A r, q \in values[i].removal : r = q
       /\ \A r \in values[i].removal : r.start \in Nat /\ r.end \in 0..size /\ r.start < r.end
       /\ \A x \in values[i].insertion, r \in values[i].removal : x.at <= r.start \/ x.at > r.end

Steps == Nat \X {0, 1} \X Nat

\* The order of the sweep is by position, insertions first.
LEMMA PrecedesMeans ==
  ASSUME NEW a \in Steps, NEW b \in Steps
  PROVE  Precedes(a, b) <=>
           \/ a[1] < b[1]
           \/ a[1] = b[1] /\ a[2] < b[2]
           \/ a[1] = b[1] /\ a[2] = b[2] /\ a[3] < b[3]
<1>1. 1..3 = {1, 2, 3} /\ 1..0 = {} /\ 1..1 = {1} /\ 1..2 = {1, 2}
  OBVIOUS
<1>2. Precedes(a, b) <=> \E k \in {1, 2, 3} : a[k] < b[k] /\ \A j \in 1..(k - 1) : a[j] = b[j]
  BY <1>1 DEF Precedes
<1>3. (\A j \in 1..(1 - 1) : a[j] = b[j]) /\ ((\A j \in 1..(2 - 1) : a[j] = b[j]) <=> a[1] = b[1])
      /\ ((\A j \in 1..(3 - 1) : a[j] = b[j]) <=> a[1] = b[1] /\ a[2] = b[2])
  <2>1. 1 - 1 = 0 /\ 2 - 1 = 1 /\ 3 - 1 = 2
    OBVIOUS
  <2> QED BY <1>1, <2>1
<1> QED BY <1>2, <1>3

LEMMA PrecedesOrders ==
  /\ \A a, b, c \in Steps : Precedes(a, b) /\ Precedes(b, c) => Precedes(a, c)
  /\ \A a \in Steps : ~Precedes(a, a)
  /\ \A a, b \in Steps : Precedes(a, b) \/ a = b \/ Precedes(b, a)
<1>1. \A a, b \in Steps : Precedes(a, b) <=>
           \/ a[1] < b[1]
           \/ a[1] = b[1] /\ a[2] < b[2]
           \/ a[1] = b[1] /\ a[2] = b[2] /\ a[3] < b[3]
  BY PrecedesMeans
<1>2. \A a \in Steps : a[1] \in Nat /\ a[2] \in Nat /\ a[3] \in Nat /\ a = <<a[1], a[2], a[3]>>
  BY DEF Steps
<1>3. ASSUME NEW a \in Steps, NEW b \in Steps, NEW c \in Steps, Precedes(a, b), Precedes(b, c)
      PROVE  Precedes(a, c)
  <2>1. /\ a[1] \in Nat /\ a[2] \in Nat /\ a[3] \in Nat /\ b[1] \in Nat /\ b[2] \in Nat /\ b[3] \in Nat
        /\ c[1] \in Nat /\ c[2] \in Nat /\ c[3] \in Nat
    BY <1>2
  <2>2. \/ a[1] < b[1]
        \/ a[1] = b[1] /\ a[2] < b[2]
        \/ a[1] = b[1] /\ a[2] = b[2] /\ a[3] < b[3]
    BY <1>1, <1>3
  <2>3. \/ b[1] < c[1]
        \/ b[1] = c[1] /\ b[2] < c[2]
        \/ b[1] = c[1] /\ b[2] = c[2] /\ b[3] < c[3]
    BY <1>1, <1>3
  <2>4. \/ a[1] < c[1]
        \/ a[1] = c[1] /\ a[2] < c[2]
        \/ a[1] = c[1] /\ a[2] = c[2] /\ a[3] < c[3]
    BY <2>1, <2>2, <2>3
  <2> QED BY <1>1, <2>4
<1>4. ASSUME NEW a \in Steps PROVE ~Precedes(a, a)
  BY <1>1, <1>2
<1>5. ASSUME NEW a \in Steps, NEW b \in Steps PROVE Precedes(a, b) \/ a = b \/ Precedes(b, a)
  <2>1. /\ a[1] \in Nat /\ a[2] \in Nat /\ a[3] \in Nat /\ b[1] \in Nat /\ b[2] \in Nat /\ b[3] \in Nat
        /\ a = <<a[1], a[2], a[3]>> /\ b = <<b[1], b[2], b[3]>>
    BY <1>2
  <2>2. CASE a[1] = b[1] /\ a[2] = b[2] /\ a[3] = b[3]
    BY <2>1, <2>2
  <2>3. CASE ~(a[1] = b[1] /\ a[2] = b[2] /\ a[3] = b[3])
    BY <1>1, <2>1, <2>3
  <2> QED BY <2>2, <2>3
<1> QED BY <1>3, <1>4, <1>5

\* How many steps come before one.
Rank(E, e) == Cardinality({o \in E : Precedes(o, e)})

\* The ranks of finitely many steps are 0 to their number less one, in the order
\* of the steps.
LEMMA RanksNumber ==
  ASSUME NEW E, E \subseteq Steps, IsFiniteSet(E)
  PROVE  /\ \A e \in E : Rank(E, e) \in 0..(Cardinality(E) - 1)
         /\ \A a, b \in E : Precedes(a, b) => Rank(E, a) < Rank(E, b)
         /\ \A m \in 0..(Cardinality(E) - 1) : \E e \in E : Rank(E, e) = m
<1> DEFINE before(e) == {o \in E : Precedes(o, e)}
           n == Cardinality(E)
<1>1. n \in Nat /\ \A e \in E : IsFiniteSet(before(e)) /\ Rank(E, e) = Cardinality(before(e)) /\ Rank(E, e) \in Nat
  <2>1. \A e \in E : before(e) \in SUBSET E
    OBVIOUS
  <2> QED BY <2>1, FS_Subset, FS_CardinalityType DEF Rank
<1>6. \A e \in E : Rank(E, e) \in Nat
  BY <1>1
<1>7. \A x, y \in Nat : x + 1 <= y => x < y
  OBVIOUS
<1>8. \A x \in Nat : ~(x < x)
  OBVIOUS
<1>2. ASSUME NEW e \in E PROVE Rank(E, e) \in 0..(n - 1)
  <2>1. before(e) \in SUBSET (E \ {e})
    BY PrecedesOrders
  <2>2. IsFiniteSet(E \ {e}) /\ Cardinality(E \ {e}) = n - 1
    BY FS_RemoveElement
  <2>3. Cardinality(before(e)) <= n - 1
    BY <2>1, <2>2, FS_Subset
  <2> QED BY <1>1, <2>3
<1>3. ASSUME NEW a \in E, NEW b \in E, Precedes(a, b) PROVE Rank(E, a) < Rank(E, b)
  <2>1. a \notin before(a)
    BY PrecedesOrders
  <2>2. IsFiniteSet(before(a) \cup {a}) /\ Cardinality(before(a) \cup {a}) = Cardinality(before(a)) + 1
    <3> HIDE DEF before
    <3>1. IsFiniteSet(before(a))
      BY <1>1
    <3> QED BY <2>1, <3>1, FS_AddElement
  <2>3. before(a) \cup {a} \in SUBSET before(b)
    <3> SUFFICES ASSUME NEW o \in before(a) \cup {a} PROVE o \in before(b)
      OBVIOUS
    <3>1. o \in E /\ (o = a \/ Precedes(o, a))
      OBVIOUS
    <3>2. Precedes(o, b)
      BY <1>3, <3>1, PrecedesOrders, E \subseteq Steps
    <3> QED BY <3>1, <3>2
  <2>4. Cardinality(before(a) \cup {a}) <= Cardinality(before(b))
    <3> HIDE DEF before
    <3>1. IsFiniteSet(before(b))
      BY <1>1
    <3> QED BY <2>3, <3>1, FS_Subset
  <2>5. Rank(E, a) + 1 <= Rank(E, b)
    <3> HIDE DEF before
    <3> QED BY <1>1, <2>2, <2>4
  <2> QED BY <1>6, <1>7, <2>5
<1>4. \A a, b \in E : Rank(E, a) = Rank(E, b) => a = b
  <2> SUFFICES ASSUME NEW a \in E, NEW b \in E, Rank(E, a) = Rank(E, b) PROVE a = b
    OBVIOUS
  <2>1. a \in Steps /\ b \in Steps
    OBVIOUS
  <2>2. ~Precedes(a, b) /\ ~Precedes(b, a)
    BY <1>3, <1>6, <1>8
  <2> QED BY <2>1, <2>2, PrecedesOrders
<1>5. \A m \in 0..(n - 1) : \E e \in E : Rank(E, e) = m
  <2> DEFINE f == [e \in E |-> Rank(E, e)]
  <2>1. f \in Injection(E, 0..(n - 1))
    <3>1. f \in [E -> 0..(n - 1)]
      BY <1>2
    <3> QED BY <1>4, <3>1 DEF Injection, IsInjective
  <2>2. IsFiniteSet(0..(n - 1)) /\ Cardinality(0..(n - 1)) = n
    <3>1. 0 \in Int /\ n - 1 \in Int
      BY <1>1
    <3>2. IsFiniteSet(0..(n - 1)) /\ Cardinality(0..(n - 1)) = IF 0 > n - 1 THEN 0 ELSE (n - 1) - 0 + 1
      BY <3>1, FS_Interval
    <3> QED BY <1>1, <3>2
  <2>3. f \in Surjection(E, 0..(n - 1))
    <3> HIDE DEF f
    <3> QED BY <2>1, <2>2, FS_Injection
  <2>4. \A m \in 0..(n - 1) : \E e \in E : f[e] = m
    BY <2>3 DEF Surjection
  <2> QED BY <2>4
<1> QED BY <1>2, <1>3, <1>5

\* So the sweep goes through all steps, each once, in order.
LEMMA SweptEnumerates ==
  ASSUME NEW values, Events(values) \subseteq Steps, IsFiniteSet(Events(values))
  PROVE  LET E == Events(values)
             n == Cardinality(E)
         IN  /\ n \in Nat /\ Len(Swept(values)) = n
             /\ \A k \in 1..n : Swept(values)[k] \in E
             /\ \A j, k \in 1..n : j < k => Precedes(Swept(values)[j], Swept(values)[k])
             /\ \A e \in E : \E k \in 1..n : Swept(values)[k] = e
<1> DEFINE E == Events(values)
           n == Cardinality(E)
           s == Swept(values)
<1>1. n \in Nat
  BY FS_CardinalityType
<1>2. s = [k \in 1..n |-> CHOOSE e \in E : Rank(E, e) = k - 1]
  BY DEF Swept, Rank
<1>3. Len(s) = n
  BY <1>1, <1>2
<1> HIDE DEF s, n, E
<1>4. E \subseteq Steps /\ IsFiniteSet(E) /\ n = Cardinality(E)
  BY DEF E, n
<1>5. /\ \A e \in E : Rank(E, e) \in 0..(n - 1)
      /\ \A a, b \in E : Precedes(a, b) => Rank(E, a) < Rank(E, b)
      /\ \A m \in 0..(n - 1) : \E e \in E : Rank(E, e) = m
  BY <1>4, RanksNumber
<1>6. ASSUME NEW k \in 1..n PROVE s[k] \in E /\ Rank(E, s[k]) = k - 1
  <2>1. k - 1 \in 0..(n - 1)
    BY <1>1
  <2>2. \E e \in E : Rank(E, e) = k - 1
    BY <1>5, <2>1
  <2>3. s[k] = CHOOSE e \in E : Rank(E, e) = k - 1
    BY <1>2
  <2> QED BY <2>2, <2>3
<1>7. ASSUME NEW j \in 1..n, NEW k \in 1..n, j < k PROVE Precedes(s[j], s[k])
  <2>1. s[j] \in E /\ s[k] \in E /\ Rank(E, s[j]) = j - 1 /\ Rank(E, s[k]) = k - 1
    BY <1>6
  <2>2. Rank(E, s[j]) < Rank(E, s[k])
    BY <1>1, <1>7, <2>1
  <2>3. ~Precedes(s[k], s[j]) /\ s[k] # s[j]
    <3>1. \A x, y \in Nat : x < y => ~(y < x) /\ x # y
      OBVIOUS
    <3>2. Rank(E, s[j]) \in Nat /\ Rank(E, s[k]) \in Nat
      BY <1>1, <1>5, <2>1
    <3> QED BY <1>5, <2>1, <2>2, <3>1, <3>2
  <2>4. s[j] \in Steps /\ s[k] \in Steps
    BY <1>4, <2>1
  <2> QED BY <2>3, <2>4, PrecedesOrders
<1>8. ASSUME NEW e \in E PROVE \E k \in 1..n : s[k] = e
  <2>1. Rank(E, e) \in 0..(n - 1)
    BY <1>5
  <2>2. PICK k \in 1..n : k - 1 = Rank(E, e)
    <3>1. Rank(E, e) + 1 \in 1..n /\ (Rank(E, e) + 1) - 1 = Rank(E, e)
      BY <1>1, <2>1
    <3> QED BY <3>1
  <2>3. s[k] \in E /\ Rank(E, s[k]) = Rank(E, e)
    BY <1>6, <2>2
  <2>4. ~Precedes(s[k], e) /\ ~Precedes(e, s[k])
    <3>1. \A x \in Nat : ~(x < x)
      OBVIOUS
    <3> QED BY <1>1, <1>5, <2>1, <2>3, <3>1
  <2>5. s[k] \in Steps /\ e \in Steps
    BY <1>4, <2>3
  <2> QED BY <2>4, <2>5, PrecedesOrders
<1> QED BY <1>1, <1>3, <1>6, <1>7, <1>8 DEF E, n, s

LEMMA AtMostOneIsFinite ==
  ASSUME NEW S, \A d, e \in S : d = e
  PROVE  IsFiniteSet(S)
<1>1. CASE S = {}
  BY <1>1, FS_EmptySet
<1>2. CASE S # {}
  <2>1. PICK e : S = {e}
    BY <1>2
  <2> QED BY <2>1, FS_Singleton
<1> QED BY <1>1, <1>2

\* The steps of well-formed values.
LEMMA EventsAre ==
  ASSUME NEW size \in Nat, NEW values, WellFormed(size, values)
  PROVE  /\ Events(values) \subseteq Steps /\ IsFiniteSet(Events(values))
         /\ \A i \in DOMAIN values : \A x \in values[i].insertion : <<x.at, 0, i>> \in Events(values)
         /\ \A i \in DOMAIN values : \A r \in values[i].removal : <<r.start, 1, i>> \in Events(values)
         /\ \A e \in Events(values) :
              /\ e[1] \in 0..size /\ e[2] \in {0, 1} /\ e[3] \in DOMAIN values
              /\ e[2] = 0 => \E x \in values[e[3]].insertion : x.at = e[1]
              /\ e[2] = 1 => \E r \in values[e[3]].removal : r.start = e[1]
<1> DEFINE ins(i) == {<<x.at, 0, i>> : x \in values[i].insertion}
           rem(i) == {<<r.start, 1, i>> : r \in values[i].removal}
           all == {ins(i) \cup rem(i) : i \in DOMAIN values}
<1>1. Events(values) = UNION all
  BY DEF Events
<1>2. \A e \in Events(values) : \E i \in DOMAIN values : e \in ins(i) \/ e \in rem(i)
  BY <1>1
<1>3. \A i \in DOMAIN values : ins(i) \subseteq Events(values) /\ rem(i) \subseteq Events(values)
  BY <1>1
<1>4. IsFiniteSet(Events(values))
  <2>1. \A i \in DOMAIN values : IsFiniteSet(ins(i)) /\ IsFiniteSet(rem(i))
    <3> SUFFICES ASSUME NEW i \in DOMAIN values PROVE IsFiniteSet(ins(i)) /\ IsFiniteSet(rem(i))
      OBVIOUS
    <3>1. \A d, e \in ins(i) : d = e
      <4>1. \A x, y \in values[i].insertion : x = y
        BY DEF WellFormed
      <4> QED BY <4>1
    <3>2. \A d, e \in rem(i) : d = e
      <4>1. \A x, y \in values[i].removal : x = y
        BY DEF WellFormed
      <4> QED BY <4>1
    <3> HIDE DEF ins, rem
    <3>3. IsFiniteSet(ins(i))
      BY <3>1, AtMostOneIsFinite
    <3>4. IsFiniteSet(rem(i))
      BY <3>2, AtMostOneIsFinite
    <3> QED BY <3>3, <3>4
  <2> HIDE DEF ins, rem
  <2>2. \A T \in all : IsFiniteSet(T)
    BY <2>1, FS_Union
  <2>3. IsFiniteSet(all)
    <3>1. IsFiniteSet(DOMAIN values)
      BY DEF WellFormed
    <3>2. all = {ins(i) \cup rem(i) : i \in DOMAIN values}
      OBVIOUS
    <3> DEFINE f == [i \in DOMAIN values |-> ins(i) \cup rem(i)]
    <3>3. f \in Surjection(DOMAIN values, all)
      BY DEF Surjection
    <3> QED BY <3>1, <3>3, FS_Surjection
  <2> QED BY <1>1, <2>2, <2>3, FS_UNION
<1>5. ASSUME NEW i \in DOMAIN values
      PROVE  /\ \A x \in values[i].insertion : <<x.at, 0, i>> \in Events(values)
             /\ \A r \in values[i].removal : <<r.start, 1, i>> \in Events(values)
  BY <1>3
<1>6. ASSUME NEW e \in Events(values)
      PROVE  /\ e \in Steps
             /\ e[1] \in 0..size /\ e[2] \in {0, 1} /\ e[3] \in DOMAIN values
             /\ e[2] = 0 => \E x \in values[e[3]].insertion : x.at = e[1]
             /\ e[2] = 1 => \E r \in values[e[3]].removal : r.start = e[1]
  <2>1. PICK i \in DOMAIN values : e \in ins(i) \/ e \in rem(i)
    BY <1>2
  <2>2. i \in Nat
    BY DEF WellFormed
  <2>3. CASE e \in ins(i)
    <3>1. PICK x \in values[i].insertion : e = <<x.at, 0, i>>
      BY <2>3
    <3>2. x.at \in 0..size
      BY <3>1 DEF WellFormed
    <3>3. e[1] = x.at /\ e[2] = 0 /\ e[3] = i
      BY <3>1
    <3>4. e \in Steps
      BY <2>2, <3>1, <3>2 DEF Steps
    <3> QED BY <3>1, <3>2, <3>3, <3>4
  <2>4. CASE e \in rem(i)
    <3>1. PICK r \in values[i].removal : e = <<r.start, 1, i>>
      BY <2>4
    <3>2. r.start \in Nat /\ r.end \in 0..size /\ r.start < r.end
      BY <3>1 DEF WellFormed
    <3>3. e[1] = r.start /\ e[2] = 1 /\ e[3] = i
      BY <3>1
    <3>4. e \in Steps /\ r.start \in 0..size
      BY <2>2, <3>1, <3>2 DEF Steps
    <3> QED BY <3>1, <3>3, <3>4
  <2> QED BY <2>1, <2>3, <2>4
<1> QED BY <1>4, <1>5, <1>6

\* A sequence of all steps, in their order.
Enumerates(E, ev, n) ==
  /\ n \in Nat
  /\ \A k \in 1..n : ev[k] \in E
  /\ \A j, k \in 1..n : j < k => Precedes(ev[j], ev[k])
  /\ \A e \in E : \E k \in 1..n : ev[k] = e

\* Two steps in order meet if the first is not done where the second is.
Meets(values, a, b) ==
  /\ a[3] # b[3]
  /\ a[2] = 0 => a[1] = b[1]
  /\ a[2] = 1 => \E r \in values[a[3]].removal : IF b[2] = 0 THEN b[1] <= r.end ELSE b[1] < r.end

\* Steps that meet are of transformations that touch.
LEMMA MeetingTouches ==
  ASSUME NEW size \in Nat, NEW values, WellFormed(size, values),
         NEW a \in Events(values), NEW b \in Events(values), Precedes(a, b), Meets(values, a, b)
  PROVE  ~Disjoint(values)
<1>1. /\ a[1] \in Nat /\ a[2] \in {0, 1} /\ a[3] \in DOMAIN values /\ b[1] \in Nat /\ b[2] \in {0, 1} /\ b[3] \in DOMAIN values
      /\ a[2] = 0 => \E x \in values[a[3]].insertion : x.at = a[1]
      /\ a[2] = 1 => \E r \in values[a[3]].removal : r.start = a[1]
      /\ b[2] = 0 => \E x \in values[b[3]].insertion : x.at = b[1]
      /\ b[2] = 1 => \E r \in values[b[3]].removal : r.start = b[1]
  BY EventsAre
<1>2. a[1] < b[1] \/ (a[1] = b[1] /\ a[2] < b[2]) \/ (a[1] = b[1] /\ a[2] = b[2] /\ a[3] < b[3])
  BY EventsAre, PrecedesMeans
<1>3. a[3] # b[3]
  BY DEF Meets
<1>4. Touches(values[a[3]], values[b[3]]) \/ Touches(values[b[3]], values[a[3]])
  <2>1. CASE a[2] = 0 /\ b[2] = 0
    BY <1>1, <2>1 DEF Meets, Touches
  <2>2. CASE a[2] = 0 /\ b[2] = 1
    <3>1. PICK x \in values[a[3]].insertion, r \in values[b[3]].removal : x.at = a[1] /\ r.start = b[1]
      BY <1>1, <2>2
    <3>2. a[1] = b[1] /\ r.end \in Nat /\ r.start < r.end
      BY <1>1, <2>2, <3>1 DEF Meets, WellFormed
    <3>3. x.at \in r.start..r.end
      BY <1>1, <3>1, <3>2
    <3> QED BY <3>3 DEF Touches
  <2>3. CASE a[2] = 1 /\ b[2] = 0
    <3>1. PICK r \in values[a[3]].removal : b[1] <= r.end
      BY <2>3 DEF Meets
    <3>2. PICK x \in values[b[3]].insertion : x.at = b[1]
      BY <1>1, <2>3
    <3>3. r.start = a[1] /\ r.end \in Nat
      BY <1>1, <2>3, <3>1 DEF WellFormed
    <3>4. x.at \in r.start..r.end
      BY <1>1, <1>2, <2>3, <3>1, <3>2, <3>3
    <3> QED BY <3>4 DEF Touches
  <2>4. CASE a[2] = 1 /\ b[2] = 1
    <3>1. PICK r \in values[a[3]].removal : b[1] < r.end
      BY <2>4 DEF Meets
    <3>2. PICK q \in values[b[3]].removal : q.start = b[1]
      BY <1>1, <2>4
    <3>3. r.start = a[1] /\ r.end \in Nat /\ q.end \in Nat /\ q.start < q.end
      BY <1>1, <2>4, <3>1, <3>2 DEF WellFormed
    <3>4. r.start < q.end /\ q.start < r.end
      BY <1>1, <1>2, <2>4, <3>1, <3>2, <3>3
    <3> QED BY <3>4 DEF Touches
  <2> QED BY <1>1, <2>1, <2>2, <2>3, <2>4
<1> QED BY <1>1, <1>3, <1>4 DEF Disjoint

\* Transformations that touch have steps that meet.
LEMMA TouchingMeets ==
  ASSUME NEW size \in Nat, NEW values, WellFormed(size, values), ~Disjoint(values)
  PROVE  \E a, b \in Events(values) : Precedes(a, b) /\ Meets(values, a, b)
<1>1. PICK i \in DOMAIN values, j \in DOMAIN values : i # j /\ Touches(values[i], values[j])
  BY DEF Disjoint
<1>2. i \in Nat /\ j \in Nat
  BY DEF WellFormed
<1>3. \A a, b \in Events(values) : Precedes(a, b) <=>
           \/ a[1] < b[1]
           \/ a[1] = b[1] /\ a[2] < b[2]
           \/ a[1] = b[1] /\ a[2] = b[2] /\ a[3] < b[3]
  BY EventsAre, PrecedesMeans
<1>4. CASE \E x \in values[i].insertion, y \in values[j].insertion : x.at = y.at
  <2>1. PICK x \in values[i].insertion, y \in values[j].insertion : x.at = y.at
    BY <1>4
  <2>2. PICK a, b : a = <<x.at, 0, i>> /\ b = <<x.at, 0, j>>
    OBVIOUS
  <2>3. a \in Events(values) /\ b \in Events(values)
    BY <2>1, <2>2, EventsAre
  <2>4. a[1] = x.at /\ a[2] = 0 /\ a[3] = i /\ b[1] = x.at /\ b[2] = 0 /\ b[3] = j
    BY <2>2
  <2>5. Meets(values, a, b) /\ Meets(values, b, a)
    BY <1>1, <2>4 DEF Meets
  <2>6. Precedes(a, b) \/ Precedes(b, a)
    BY <1>1, <1>2, <1>3, <2>3, <2>4
  <2> QED BY <2>3, <2>5, <2>6
<1>5. ASSUME NEW m \in DOMAIN values, NEW l \in DOMAIN values, m # l,
             NEW x \in values[m].insertion, NEW r \in values[l].removal, x.at \in r.start..r.end
      PROVE  \E a, b \in Events(values) : Precedes(a, b) /\ Meets(values, a, b)
  <2>1. PICK a, b : a = <<x.at, 0, m>> /\ b = <<r.start, 1, l>>
    OBVIOUS
  <2>2. a \in Events(values) /\ b \in Events(values)
    BY <2>1, EventsAre
  <2>3. a[1] = x.at /\ a[2] = 0 /\ a[3] = m /\ b[1] = r.start /\ b[2] = 1 /\ b[3] = l
    BY <2>1
  <2>4. x.at \in Nat /\ r.start \in Nat /\ r.end \in Nat /\ r.start <= x.at /\ x.at <= r.end
    BY <1>5 DEF WellFormed
  <2>5. CASE x.at = r.start
    <3>1. Precedes(a, b)
      BY <1>3, <2>2, <2>3, <2>5
    <3>2. Meets(values, a, b)
      BY <1>5, <2>3, <2>5 DEF Meets
    <3> QED BY <2>2, <3>1, <3>2
  <2>6. CASE x.at # r.start
    <3>1. Precedes(b, a)
      BY <1>3, <2>2, <2>3, <2>4, <2>6
    <3>2. Meets(values, b, a)
      BY <1>5, <2>3, <2>4 DEF Meets
    <3> QED BY <2>2, <3>1, <3>2
  <2> QED BY <2>5, <2>6
<1>6. CASE \E x \in values[i].insertion, r \in values[j].removal : x.at \in r.start..r.end
  BY <1>1, <1>5, <1>6
<1>7. CASE \E r \in values[i].removal, q \in values[j].removal : r.start < q.end /\ q.start < r.end
  <2>1. PICK r \in values[i].removal, q \in values[j].removal : r.start < q.end /\ q.start < r.end
    BY <1>7
  <2>2. PICK a, b : a = <<r.start, 1, i>> /\ b = <<q.start, 1, j>>
    OBVIOUS
  <2>3. a \in Events(values) /\ b \in Events(values)
    BY <2>1, <2>2, EventsAre
  <2>4. a[1] = r.start /\ a[2] = 1 /\ a[3] = i /\ b[1] = q.start /\ b[2] = 1 /\ b[3] = j
    BY <2>2
  <2>5. Meets(values, a, b) /\ Meets(values, b, a)
    BY <1>1, <2>1, <2>4 DEF Meets
  <2>6. r.start \in Nat /\ q.start \in Nat
    BY <2>1 DEF WellFormed
  <2>7. Precedes(a, b) \/ Precedes(b, a)
    BY <1>1, <1>2, <1>3, <2>3, <2>4, <2>6
  <2> QED BY <2>3, <2>5, <2>7
<1>8. \/ \E x \in values[i].insertion, y \in values[j].insertion : x.at = y.at
      \/ \E x \in values[i].insertion, r \in values[j].removal : x.at \in r.start..r.end
      \/ \E r \in values[i].removal, q \in values[j].removal : r.start < q.end /\ q.start < r.end
  BY <1>1 DEF Touches
<1> QED BY <1>4, <1>6, <1>7, <1>8

\* A removal is behind a step.
Past(r, e) == IF e[2] = 0 THEN r.end < e[1] ELSE r.end <= e[1]

SweepState == [removal : SUBSET Nat, insertion : SUBSET Nat, position : Int, conflict : SUBSET Nat]

\* What the sweep knows after k steps: no two of them meet, what removal may still
\* reach a later step, and what is inserted at the last position.
SweepTrue(values, ev, k, s) ==
  /\ s \in SweepState
  /\ s.conflict # {} => ~Disjoint(values)
  /\ s.conflict = {} =>
       /\ \A i, j \in 1..k : i < j => ~Meets(values, ev[i], ev[j])
       /\ \A i \in 1..k : ev[i][2] = 1 /\ ev[i][3] \notin s.removal => \A r \in values[ev[i][3]].removal : Past(r, ev[k])
       /\ \A i \in s.removal : \E j \in 1..k : ev[j][2] = 1 /\ ev[j][3] = i
       /\ \A i \in 1..k : ev[i][2] = 0 => ev[i][1] <= s.position /\ (ev[i][1] = s.position => ev[i][3] \in s.insertion)
       /\ \A i \in s.insertion : \E j \in 1..k : ev[j][1] = s.position /\ ev[j][2] = 0 /\ ev[j][3] = i
       /\ IF k = 0 THEN s.position = -1 ELSE s.position <= ev[k][1]

\* One step of the sweep keeps it true.
LEMMA SweepStep ==
  ASSUME NEW size \in Nat, NEW values, WellFormed(size, values), NEW ev, NEW n, Enumerates(Events(values), ev, n),
         NEW k \in Nat, k < n, NEW s, SweepTrue(values, ev, k, s)
  PROVE  SweepTrue(values, ev, k + 1, Sweep(values, s, ev[k + 1]))
<1> DEFINE e == ev[k + 1]
           open == Open(values, s, e)
           here == IF s.position = e[1] THEN s.insertion ELSE {}
           other == IF open \ {e[3]} # {} THEN open ELSE here \ {e[3]}
           t == Sweep(values, s, e)
<1>1. /\ k + 1 \in 1..n /\ n \in Nat
      /\ \A i \in 1..k : i \in 1..n /\ i < k + 1
      /\ \A i \in 1..(k + 1) : i \in 1..k \/ i = k + 1
      /\ \A i \in 1..k : i \in 1..(k + 1)
      /\ k # 0 => k \in 1..k
  BY DEF Enumerates
<1>2. /\ e \in Events(values) /\ e[1] \in Nat /\ e[2] \in {0, 1} /\ e[3] \in DOMAIN values /\ e[3] \in Nat
  <2>1. e \in Events(values)
    BY <1>1 DEF Enumerates
  <2>2. e[1] \in Nat /\ e[2] \in {0, 1} /\ e[3] \in DOMAIN values
    BY <2>1, EventsAre
  <2> QED BY <2>1, <2>2 DEF WellFormed
<1>3. \A i \in 1..k :
        /\ ev[i] \in Events(values) /\ ev[i][1] \in Nat /\ ev[i][2] \in {0, 1} /\ ev[i][3] \in DOMAIN values /\ ev[i][3] \in Nat
        /\ Precedes(ev[i], e)
        /\ ev[i][1] <= e[1] /\ (ev[i][1] = e[1] => ev[i][2] <= e[2])
  <2> SUFFICES ASSUME NEW i \in 1..k
               PROVE  /\ ev[i] \in Events(values) /\ ev[i][1] \in Nat /\ ev[i][2] \in {0, 1} /\ ev[i][3] \in DOMAIN values /\ ev[i][3] \in Nat
                      /\ Precedes(ev[i], e)
                      /\ ev[i][1] <= e[1] /\ (ev[i][1] = e[1] => ev[i][2] <= e[2])
    OBVIOUS
  <2>1. ev[i] \in Events(values) /\ Precedes(ev[i], e)
    BY <1>1 DEF Enumerates
  <2>2. ev[i][1] \in Nat /\ ev[i][2] \in {0, 1} /\ ev[i][3] \in DOMAIN values
    BY <2>1, EventsAre
  <2>3. ev[i] \in Steps /\ e \in Steps
    BY <1>2, <2>1, EventsAre
  <2>4. \/ ev[i][1] < e[1]
        \/ ev[i][1] = e[1] /\ ev[i][2] < e[2]
        \/ ev[i][1] = e[1] /\ ev[i][2] = e[2] /\ ev[i][3] < e[3]
    BY <2>1, <2>3, PrecedesMeans
  <2>5. ev[i][1] <= e[1] /\ (ev[i][1] = e[1] => ev[i][2] <= e[2])
    BY <1>2, <2>2, <2>4
  <2> QED BY <2>1, <2>2, <2>5 DEF WellFormed
<1>4. \A i \in DOMAIN values : \A r, q \in values[i].removal : r = q /\ r.end \in Nat
  BY DEF WellFormed
<1>5. s \in SweepState
  BY DEF SweepTrue
<1>6. CASE s.conflict # {}
  <2>1. t = s
    BY <1>6 DEF Sweep
  <2> QED BY <1>5, <1>6, <2>1 DEF SweepTrue
<1>7. CASE s.conflict = {}
  <2>1. /\ \A i, j \in 1..k : i < j => ~Meets(values, ev[i], ev[j])
        /\ \A i \in 1..k : ev[i][2] = 1 /\ ev[i][3] \notin s.removal => \A r \in values[ev[i][3]].removal : Past(r, ev[k])
        /\ \A i \in s.removal : \E j \in 1..k : ev[j][2] = 1 /\ ev[j][3] = i
        /\ \A i \in 1..k : ev[i][2] = 0 => ev[i][1] <= s.position /\ (ev[i][1] = s.position => ev[i][3] \in s.insertion)
        /\ \A i \in s.insertion : \E j \in 1..k : ev[j][1] = s.position /\ ev[j][2] = 0 /\ ev[j][3] = i
        /\ IF k = 0 THEN s.position = -1 ELSE s.position <= ev[k][1]
    BY <1>7 DEF SweepTrue
  <2>2. s.position \in Int /\ s.position <= e[1]
    BY <1>1, <1>2, <1>3, <1>5, <2>1 DEF SweepState
  <2>3. /\ open = {i \in s.removal : \A r \in values[i].removal : IF e[2] = 0 THEN r.end >= e[1] ELSE r.end > e[1]}
        /\ open \subseteq s.removal /\ open \subseteq Nat /\ here \subseteq Nat /\ here \subseteq s.insertion /\ s.removal \subseteq Nat
    BY <1>5 DEF Open, SweepState
  <2>4. t = IF other # {} THEN [s EXCEPT !.conflict = other \cup {e[3]}]
            ELSE IF e[2] = 0 THEN [s EXCEPT !.removal = open, !.position = e[1], !.insertion = {e[3]}]
            ELSE [s EXCEPT !.removal = {e[3]}]
    BY <1>7 DEF Sweep
  <2> HIDE DEF e, open, here, t
  <2>5. \A i \in 1..k : ev[i][2] = 1 /\ ev[i][3] \notin open => \A r \in values[ev[i][3]].removal : Past(r, e)
    <3> SUFFICES ASSUME NEW i \in 1..k, ev[i][2] = 1, ev[i][3] \notin open, NEW r \in values[ev[i][3]].removal
                 PROVE  Past(r, e)
      OBVIOUS
    <3>1. r.end \in Nat /\ ev[i][3] \in DOMAIN values
      BY <1>3, <1>4
    <3>2. CASE ev[i][3] \in s.removal
      <4>1. PICK q \in values[ev[i][3]].removal : ~(IF e[2] = 0 THEN q.end >= e[1] ELSE q.end > e[1])
        BY <2>3, <3>2
      <4>2. q = r
        BY <1>4, <3>1
      <4> QED BY <1>2, <3>1, <4>1, <4>2 DEF Past
    <3>3. CASE ev[i][3] \notin s.removal
      <4>1. Past(r, ev[k])
        BY <2>1, <3>3
      <4>2. k \in 1..k
        BY <1>1
      <4>3. ev[k][1] \in Nat /\ ev[k][2] \in {0, 1} /\ ev[k][1] <= e[1] /\ (ev[k][1] = e[1] => ev[k][2] <= e[2])
        BY <1>3, <4>2
      <4> QED BY <1>2, <3>1, <4>1, <4>3 DEF Past
    <3> QED BY <3>2, <3>3
  <2>6. CASE other # {}
    <3>1. \E i \in 1..k : Meets(values, ev[i], e)
      <4>1. CASE open \ {e[3]} # {}
        <5>1. PICK i \in open : i # e[3]
          BY <4>1
        <5>2. PICK j \in 1..k : ev[j][2] = 1 /\ ev[j][3] = i
          BY <2>1, <2>3
        <5>3. \E r \in values[i].removal : TRUE
          BY <1>3, <5>2, EventsAre
        <5>4. \E r \in values[i].removal : IF e[2] = 0 THEN r.end >= e[1] ELSE r.end > e[1]
          BY <2>3, <5>3
        <5>5. \E r \in values[i].removal : IF e[2] = 0 THEN e[1] <= r.end ELSE e[1] < r.end
          BY <1>2, <1>3, <1>4, <5>2, <5>4
        <5> QED BY <5>1, <5>2, <5>5 DEF Meets
      <4>2. CASE open \ {e[3]} = {}
        <5>1. PICK i \in here : i # e[3]
          BY <2>6, <4>2
        <5>2. s.position = e[1] /\ i \in s.insertion
          BY <5>1 DEF here
        <5>3. PICK j \in 1..k : ev[j][1] = e[1] /\ ev[j][2] = 0 /\ ev[j][3] = i
          BY <2>1, <5>2
        <5> QED BY <5>1, <5>3 DEF Meets
      <4> QED BY <4>1, <4>2
    <3>2. ~Disjoint(values)
      BY <1>2, <1>3, <3>1, MeetingTouches
    <3>3. t = [s EXCEPT !.conflict = other \cup {e[3]}]
      BY <2>4, <2>6
    <3>4. other \subseteq Nat
      BY <2>3
    <3>5. t \in SweepState /\ t.conflict # {}
      BY <1>2, <1>5, <3>3, <3>4 DEF SweepState
    <3> QED BY <3>2, <3>5 DEF SweepTrue, e, t
  <2>7. CASE other = {}
    <3>1. open \subseteq {e[3]} /\ here \subseteq {e[3]}
      BY <2>7
    <3>2. \A i \in 1..k : ev[i][2] = 0 /\ ev[i][1] = e[1] => s.position = e[1] /\ ev[i][3] = e[3]
      <4> SUFFICES ASSUME NEW i \in 1..k, ev[i][2] = 0, ev[i][1] = e[1] PROVE s.position = e[1] /\ ev[i][3] = e[3]
        OBVIOUS
      <4>1. ev[i][1] <= s.position
        BY <2>1
      <4>2. s.position = e[1]
        BY <1>2, <2>2, <4>1
      <4>3. ev[i][3] \in here
        BY <2>1, <4>2 DEF here
      <4> QED BY <3>1, <4>2, <4>3
    <3>3. \A i \in 1..k : ~Meets(values, ev[i], e)
      <4> SUFFICES ASSUME NEW i \in 1..k, Meets(values, ev[i], e) PROVE FALSE
        OBVIOUS
      <4>1. ev[i][3] # e[3] /\ ev[i][2] \in {0, 1}
        BY <1>3 DEF Meets
      <4>2. CASE ev[i][2] = 0
        BY <3>2, <4>1, <4>2 DEF Meets
      <4>3. CASE ev[i][2] = 1
        <5>1. PICK r \in values[ev[i][3]].removal : IF e[2] = 0 THEN e[1] <= r.end ELSE e[1] < r.end
          BY <4>3 DEF Meets
        <5>2. Past(r, e)
          BY <2>5, <3>1, <4>1, <4>3
        <5>3. r.end \in Nat
          BY <1>3, <1>4
        <5> QED BY <1>2, <5>1, <5>2, <5>3 DEF Past
      <4> QED BY <4>1, <4>2, <4>3
    <3>4. \A i, j \in 1..(k + 1) : i < j => ~Meets(values, ev[i], ev[j])
      <4> SUFFICES ASSUME NEW i \in 1..(k + 1), NEW j \in 1..(k + 1), i < j PROVE ~Meets(values, ev[i], ev[j])
        OBVIOUS
      <4>1. i \in 1..k /\ (j \in 1..k \/ j = k + 1)
        OBVIOUS
      <4> QED BY <2>1, <3>3, <4>1 DEF e
    <3>5. CASE e[2] = 0
      <4>1. t = [s EXCEPT !.removal = open, !.position = e[1], !.insertion = {e[3]}]
        BY <2>4, <2>7, <3>5
      <4>2. t \in SweepState /\ t.removal = open /\ t.position = e[1] /\ t.insertion = {e[3]} /\ t.conflict = {}
        <5>1. open \in SUBSET Nat /\ {e[3]} \in SUBSET Nat /\ e[1] \in Int
          BY <1>2, <2>3
        <5>2. t = [removal |-> open, insertion |-> {e[3]}, position |-> e[1], conflict |-> {}]
          BY <1>5, <1>7, <4>1 DEF SweepState
        <5>3. {} \in SUBSET Nat
          OBVIOUS
        <5> QED BY <5>1, <5>2, <5>3 DEF SweepState
      <4>3. \A i \in 1..(k + 1) : ev[i][2] = 1 /\ ev[i][3] \notin t.removal => \A r \in values[ev[i][3]].removal : Past(r, ev[k + 1])
        <5> SUFFICES ASSUME NEW i \in 1..(k + 1), ev[i][2] = 1, ev[i][3] \notin open
                     PROVE  \A r \in values[ev[i][3]].removal : Past(r, e)
          BY <4>2 DEF e
        <5>1. i \in 1..k
          BY <1>1, <3>5 DEF e
        <5> QED BY <2>5, <5>1
      <4>4. \A i \in t.removal : \E j \in 1..(k + 1) : ev[j][2] = 1 /\ ev[j][3] = i
        BY <1>1, <2>1, <2>3, <4>2
      <4>5. \A i \in 1..(k + 1) : ev[i][2] = 0 => ev[i][1] <= t.position /\ (ev[i][1] = t.position => ev[i][3] \in t.insertion)
        <5> SUFFICES ASSUME NEW i \in 1..(k + 1), ev[i][2] = 0
                     PROVE  ev[i][1] <= e[1] /\ (ev[i][1] = e[1] => ev[i][3] = e[3])
          BY <4>2
        <5>1. CASE i \in 1..k
          BY <1>3, <3>2, <5>1
        <5>2. CASE i = k + 1
          BY <1>2, <5>2 DEF e
        <5> QED BY <1>1, <5>1, <5>2
      <4>6. \A i \in t.insertion : \E j \in 1..(k + 1) : ev[j][1] = t.position /\ ev[j][2] = 0 /\ ev[j][3] = i
        <5>1. k + 1 \in 1..(k + 1)
          OBVIOUS
        <5> QED BY <3>5, <4>2, <5>1 DEF e
      <4>7. IF k + 1 = 0 THEN t.position = -1 ELSE t.position <= ev[k + 1][1]
        BY <1>2, <4>2 DEF e
      <4> QED BY <3>4, <4>2, <4>3, <4>4, <4>5, <4>6, <4>7 DEF SweepTrue, t, e
    <3>6. CASE e[2] = 1
      <4>1. t = [s EXCEPT !.removal = {e[3]}]
        BY <2>4, <2>7, <3>6
      <4>2. t \in SweepState /\ t.removal = {e[3]} /\ t.position = s.position /\ t.insertion = s.insertion /\ t.conflict = {}
        BY <1>2, <1>5, <1>7, <4>1 DEF SweepState
      <4>3. \A i \in 1..(k + 1) : ev[i][2] = 1 /\ ev[i][3] \notin t.removal => \A r \in values[ev[i][3]].removal : Past(r, ev[k + 1])
        <5> SUFFICES ASSUME NEW i \in 1..(k + 1), ev[i][2] = 1, ev[i][3] # e[3]
                     PROVE  \A r \in values[ev[i][3]].removal : Past(r, e)
          BY <4>2 DEF e
        <5>1. i \in 1..k
          BY <1>1 DEF e
        <5>2. ev[i][3] \notin open
          BY <3>1
        <5> QED BY <2>5, <5>1, <5>2
      <4>4. \A i \in t.removal : \E j \in 1..(k + 1) : ev[j][2] = 1 /\ ev[j][3] = i
        <5>1. k + 1 \in 1..(k + 1)
          OBVIOUS
        <5> QED BY <3>6, <4>2, <5>1 DEF e
      <4>5. \A i \in 1..(k + 1) : ev[i][2] = 0 => ev[i][1] <= t.position /\ (ev[i][1] = t.position => ev[i][3] \in t.insertion)
        <5> SUFFICES ASSUME NEW i \in 1..(k + 1), ev[i][2] = 0
                     PROVE  ev[i][1] <= s.position /\ (ev[i][1] = s.position => ev[i][3] \in s.insertion)
          BY <4>2
        <5>1. i \in 1..k
          BY <1>1, <3>6 DEF e
        <5> QED BY <2>1, <5>1
      <4>6. \A i \in t.insertion : \E j \in 1..(k + 1) : ev[j][1] = t.position /\ ev[j][2] = 0 /\ ev[j][3] = i
        BY <1>1, <2>1, <4>2
      <4>7. IF k + 1 = 0 THEN t.position = -1 ELSE t.position <= ev[k + 1][1]
        BY <2>2, <4>2 DEF e
      <4> QED BY <3>4, <4>2, <4>3, <4>4, <4>5, <4>6, <4>7 DEF SweepTrue, t, e
    <3> QED BY <1>2, <3>5, <3>6
  <2> QED BY <2>6, <2>7 DEF t, e
<1> QED BY <1>6, <1>7

\* The recursion over the steps of a sweep, which has a solution.
Sweeping(h, values, events, start, n) ==
  h = [i \in 0..n |-> IF i = 0 THEN start ELSE Sweep(values, h[i - 1], events[i])]
LEMMA SweepsExist ==
  ASSUME NEW values, NEW events, NEW start, NEW n \in Nat
  PROVE  \E h : Sweeping(h, values, events, start, n)
<1> DEFINE Is(h, m) == Sweeping(h, values, events, start, m)
           Missing == {m \in Nat : ~\E h : Is(h, m)}
<1>1. \E h : Is(h, 0)
  <2> DEFINE h == [i \in 0..0 |-> start]
  <2>1. Is(h, 0)
    BY DEF Sweeping
  <2> QED BY <2>1
<1>2. ASSUME NEW m \in Nat, \E h : Is(h, m)
      PROVE  \E h : Is(h, m + 1)
  <2>1. PICK h : Is(h, m)
    BY <1>2
  <2> DEFINE g == [i \in 0..(m + 1) |-> IF i <= m THEN h[i] ELSE Sweep(values, h[m], events[(m + 1)])]
  <2>2. Is(g, m + 1)
    <3> SUFFICES ASSUME NEW i \in 0..(m + 1)
                 PROVE  g[i] = IF i = 0 THEN start ELSE Sweep(values, g[i - 1], events[i])
      BY DEF Sweeping
    <3>1. CASE i <= m
      <4>1. g[i] = h[i] /\ (i # 0 => g[i - 1] = h[i - 1])
        BY <3>1
      <4>2. h[i] = IF i = 0 THEN start ELSE Sweep(values, h[i - 1], events[i])
        BY <2>1, <3>1 DEF Sweeping
      <4> QED BY <4>1, <4>2
    <3>2. CASE i = m + 1
      BY <3>2
    <3> QED BY <3>1, <3>2
  <2> QED BY <2>2
<1> SUFFICES Missing = {}
  OBVIOUS
<1> SUFFICES ASSUME Missing # {} PROVE FALSE
  OBVIOUS
<1> HIDE DEF Is
<1>3. PICK m \in Missing : \A k \in Missing : m <= k
  BY LeastNatural, Missing \subseteq Nat
<1>4. m # 0
  BY <1>1, <1>3
<1>5. m - 1 \in Nat /\ ~(m - 1 \in Missing)
  BY <1>3, <1>4
<1> QED BY <1>2, <1>3, <1>5


\* So a batch has a conflict exactly when two of its transformations touch.
LEMMA ConflictsFound ==
  ASSUME NEW size \in Nat, NEW values, WellFormed(size, values)
  PROVE  FirstConflict(values) = {} <=> Disjoint(values)
<1> DEFINE ev == Swept(values)
           n == Len(ev)
           start == [removal |-> {}, insertion |-> {}, position |-> -1, conflict |-> {}]
           after == Sweeps(values)
           Odd == {m \in 0..n : ~SweepTrue(values, ev, m, after[m])}
<1>1. Enumerates(Events(values), ev, n)
  BY EventsAre, SweptEnumerates DEF Enumerates
<1>2. n \in Nat
  BY <1>1 DEF Enumerates
<1>3. after = [i \in 0..n |-> IF i = 0 THEN start ELSE Sweep(values, after[i - 1], ev[i])]
  <2>1. \E h : Sweeping(h, values, ev, start, n)
    BY <1>2, SweepsExist
  <2> QED BY <2>1 DEF Sweeps, Sweeping
<1> HIDE DEF ev, n, after
<1>4. SweepTrue(values, ev, 0, start)
  BY DEF SweepTrue, SweepState
<1> HIDE DEF start
<1>5. Odd = {}
  <2> SUFFICES ASSUME Odd # {} PROVE FALSE
    OBVIOUS
  <2>1. PICK m \in Odd : \A k \in Odd : m <= k
    BY LeastNatural, Odd \subseteq Nat
  <2>2. m # 0
    BY <1>2, <1>3, <1>4, <2>1
  <2>3. m - 1 \in Nat /\ m - 1 < n /\ m - 1 \in 0..n /\ SweepTrue(values, ev, m - 1, after[m - 1])
    BY <1>2, <2>1, <2>2
  <2>4. (m - 1) + 1 = m /\ after[m] = Sweep(values, after[m - 1], ev[m])
    <3>1. m \in 0..n /\ m \in Nat
      BY <1>2, <2>1
    <3>2. after[m] = IF m = 0 THEN start ELSE Sweep(values, after[m - 1], ev[m])
      BY <1>3, <3>1
    <3> QED BY <2>2, <3>1, <3>2
  <2>5. SweepTrue(values, ev, (m - 1) + 1, Sweep(values, after[m - 1], ev[(m - 1) + 1]))
    BY <1>1, <2>3, SweepStep
  <2> QED BY <2>1, <2>4, <2>5
<1>6. SweepTrue(values, ev, n, after[n])
  BY <1>2, <1>5
<1>7. FirstConflict(values) = after[n].conflict
  BY DEF FirstConflict, after, n, ev
<1>8. ASSUME after[n].conflict = {}, ~Disjoint(values)
      PROVE  FALSE
  <2>1. PICK a \in Events(values), b \in Events(values) : Precedes(a, b) /\ Meets(values, a, b)
    BY <1>8, TouchingMeets
  <2>2. PICK i \in 1..n, j \in 1..n : ev[i] = a /\ ev[j] = b
    BY <1>1, <2>1 DEF Enumerates
  <2>3. i < j
    <3>1. ~(j < i) /\ i # j
      <4>1. a \in Steps /\ b \in Steps
        BY EventsAre
      <4>2. ~Precedes(b, a) /\ a # b
        BY <2>1, <4>1, PrecedesOrders
      <4> QED BY <1>1, <2>2, <4>2 DEF Enumerates
    <3> QED BY <1>2, <3>1
  <2> QED BY <1>6, <1>8, <2>1, <2>2, <2>3 DEF SweepTrue
<1> QED BY <1>6, <1>7, <1>8 DEF SweepTrue

\* The recursion over the offsets of a source has a solution.
PrefixRecursion(h, source, values, n) ==
  h = [i \in 0..n |-> IF i = 0 THEN <<>> ELSE (h[i - 1] \o PutAt(values, i - 1)) \o Staying(source, values, i - 1)]
LEMMA PrefixesExist ==
  ASSUME NEW source, NEW values, NEW n \in Nat
  PROVE  \E h : PrefixRecursion(h, source, values, n)
<1> DEFINE Is(h, m) == PrefixRecursion(h, source, values, m)
           Missing == {m \in Nat : ~\E h : Is(h, m)}
<1>1. \E h : Is(h, 0)
  <2> DEFINE h == [i \in 0..0 |-> <<>>]
  <2>1. Is(h, 0)
    BY DEF PrefixRecursion
  <2> QED BY <2>1
<1>2. ASSUME NEW m \in Nat, \E h : Is(h, m)
      PROVE  \E h : Is(h, m + 1)
  <2>1. PICK h : Is(h, m)
    BY <1>2
  <2> DEFINE g == [i \in 0..(m + 1) |-> IF i <= m THEN h[i] ELSE (h[m] \o PutAt(values, (m + 1) - 1)) \o Staying(source, values, (m + 1) - 1)]
  <2>2. Is(g, m + 1)
    <3> SUFFICES ASSUME NEW i \in 0..(m + 1)
                 PROVE  g[i] = IF i = 0 THEN <<>> ELSE (g[i - 1] \o PutAt(values, i - 1)) \o Staying(source, values, i - 1)
      BY DEF PrefixRecursion
    <3>1. CASE i <= m
      <4>1. g[i] = h[i] /\ (i # 0 => g[i - 1] = h[i - 1])
        BY <3>1
      <4>2. h[i] = IF i = 0 THEN <<>> ELSE (h[i - 1] \o PutAt(values, i - 1)) \o Staying(source, values, i - 1)
        BY <2>1, <3>1 DEF PrefixRecursion
      <4> QED BY <4>1, <4>2
    <3>2. CASE i = m + 1
      BY <3>2
    <3> QED BY <3>1, <3>2
  <2> QED BY <2>2
<1> SUFFICES Missing = {}
  OBVIOUS
<1> SUFFICES ASSUME Missing # {} PROVE FALSE
  OBVIOUS
<1> HIDE DEF Is
<1>3. PICK m \in Missing : \A k \in Missing : m <= k
  BY LeastNatural, Missing \subseteq Nat
<1>4. m # 0
  BY <1>1, <1>3
<1>5. m - 1 \in Nat /\ ~(m - 1 \in Missing)
  BY <1>3, <1>4
<1> QED BY <1>2, <1>3, <1>5

\* The recursion over the steps of a new source has a solution.
Constructs(h, source, values, events, start, n) ==
  h = [i \in 0..n |-> IF i = 0 THEN start ELSE At(values, AppendOriginal(source, h[i - 1], events[i][1]), events[i])]
LEMMA BuildingExists ==
  ASSUME NEW source, NEW values, NEW events, NEW start, NEW n \in Nat
  PROVE  \E h : Constructs(h, source, values, events, start, n)
<1> DEFINE Is(h, m) == Constructs(h, source, values, events, start, m)
           Missing == {m \in Nat : ~\E h : Is(h, m)}
<1>1. \E h : Is(h, 0)
  <2> DEFINE h == [i \in 0..0 |-> start]
  <2>1. Is(h, 0)
    BY DEF Constructs
  <2> QED BY <2>1
<1>2. ASSUME NEW m \in Nat, \E h : Is(h, m)
      PROVE  \E h : Is(h, m + 1)
  <2>1. PICK h : Is(h, m)
    BY <1>2
  <2> DEFINE g == [i \in 0..(m + 1) |-> IF i <= m THEN h[i] ELSE At(values, AppendOriginal(source, h[m], events[(m + 1)][1]), events[(m + 1)])]
  <2>2. Is(g, m + 1)
    <3> SUFFICES ASSUME NEW i \in 0..(m + 1)
                 PROVE  g[i] = IF i = 0 THEN start ELSE At(values, AppendOriginal(source, g[i - 1], events[i][1]), events[i])
      BY DEF Constructs
    <3>1. CASE i <= m
      <4>1. g[i] = h[i] /\ (i # 0 => g[i - 1] = h[i - 1])
        BY <3>1
      <4>2. h[i] = IF i = 0 THEN start ELSE At(values, AppendOriginal(source, h[i - 1], events[i][1]), events[i])
        BY <2>1, <3>1 DEF Constructs
      <4> QED BY <4>1, <4>2
    <3>2. CASE i = m + 1
      BY <3>2
    <3> QED BY <3>1, <3>2
  <2> QED BY <2>2
<1> SUFFICES Missing = {}
  OBVIOUS
<1> SUFFICES ASSUME Missing # {} PROVE FALSE
  OBVIOUS
<1> HIDE DEF Is
<1>3. PICK m \in Missing : \A k \in Missing : m <= k
  BY LeastNatural, Missing \subseteq Nat
<1>4. m # 0
  BY <1>1, <1>3
<1>5. m - 1 \in Nat /\ ~(m - 1 \in Missing)
  BY <1>3, <1>4
<1> QED BY <1>2, <1>3, <1>5

----------------------------------------------------------------------------
\* What is inserted are bytes.
InsertsBytes(B, values) == \A i \in DOMAIN values : \A x \in values[i].insertion : x.bytes \in Seq(B)

\* In a batch without conflicts the one insertion at an offset is what is put there.
LEMMA PutIs ==
  ASSUME NEW size \in Nat, NEW values, WellFormed(size, values), NEW B, InsertsBytes(B, values)
  PROVE  /\ \A p \in Nat : PutAt(values, p) \in Seq(B)
         /\ \A p \in Nat : (\A e \in Events(values) : e[2] = 0 => e[1] # p) => PutAt(values, p) = <<>>
         /\ Disjoint(values) =>
              \A i \in DOMAIN values : \A x \in values[i].insertion : PutAt(values, x.at) = x.bytes
<1> DEFINE here(p) == Insertions(values, p)
<1>1. \A p \in Nat : \A x \in here(p) : \E i \in DOMAIN values : x \in values[i].insertion /\ x.at = p
  BY DEF Insertions
<1>2. \A i \in DOMAIN values : \A x \in values[i].insertion : x \in here(x.at)
  BY DEF Insertions
<1>3. \A p \in Nat : PutAt(values, p) = IF here(p) = {} THEN <<>> ELSE (CHOOSE x \in here(p) : TRUE).bytes
  BY DEF PutAt
<1> HIDE DEF here
<1>4. ASSUME NEW p \in Nat PROVE PutAt(values, p) \in Seq(B)
  <2>1. CASE here(p) = {}
    BY <1>3, <2>1, EmptySeq
  <2>2. CASE here(p) # {}
    <3>1. PICK x \in here(p) : PutAt(values, p) = x.bytes
      BY <1>3, <2>2
    <3> QED BY <1>1, <3>1 DEF InsertsBytes
  <2> QED BY <2>1, <2>2
<1>5. ASSUME NEW p \in Nat, \A e \in Events(values) : e[2] = 0 => e[1] # p
      PROVE  PutAt(values, p) = <<>>
  <2>1. here(p) = {}
    <3> SUFFICES ASSUME NEW x \in here(p) PROVE FALSE
      OBVIOUS
    <3>1. PICK i \in DOMAIN values : x \in values[i].insertion /\ x.at = p
      BY <1>1
    <3>2. <<x.at, 0, i>> \in Events(values)
      BY <3>1, EventsAre
    <3>3. <<x.at, 0, i>>[1] = p /\ <<x.at, 0, i>>[2] = 0
      BY <3>1
    <3> QED BY <1>5, <3>2, <3>3
  <2> QED BY <1>3, <2>1
<1>6. ASSUME Disjoint(values), NEW i \in DOMAIN values, NEW x \in values[i].insertion
      PROVE  PutAt(values, x.at) = x.bytes
  <2>1. x.at \in Nat /\ x \in here(x.at)
    BY <1>2 DEF WellFormed
  <2>2. PICK y \in here(x.at) : PutAt(values, x.at) = y.bytes
    BY <1>3, <2>1
  <2>3. PICK j \in DOMAIN values : y \in values[j].insertion /\ y.at = x.at
    BY <1>1, <2>1, <2>2
  <2>4. i = j
    BY <1>6, <2>3 DEF Disjoint, Touches
  <2>5. x = y
    BY <2>3, <2>4 DEF WellFormed
  <2> QED BY <2>2, <2>5
<1> QED BY <1>4, <1>5, <1>6

LEMMA InsertionIsPut ==
  ASSUME NEW size \in Nat, NEW values, WellFormed(size, values), NEW B, InsertsBytes(B, values), Disjoint(values),
         NEW i \in DOMAIN values, NEW x \in values[i].insertion
  PROVE  PutAt(values, x.at) = x.bytes
<1>1. Disjoint(values) => \A j \in DOMAIN values : \A y \in values[j].insertion : PutAt(values, y.at) = y.bytes
  BY PutIs
<1> QED BY <1>1

\* The equation of what is to be made of a source.
LEMMA PrefixIs ==
  ASSUME NEW B, NEW source \in Seq(B), NEW values, WellFormed(Len(source), values), InsertsBytes(B, values)
  PROVE  /\ UpTo(source, values)[0] = <<>>
         /\ \A p \in 0..(Len(source) - 1) :
              UpTo(source, values)[p + 1] = (UpTo(source, values)[p] \o PutAt(values, p)) \o Staying(source, values, p)
         /\ \A p \in 0..Len(source) : UpTo(source, values)[p] \in Seq(B)
         /\ \A p \in 0..(Len(source) - 1) : Staying(source, values, p) \in Seq(B)
<1> DEFINE size == Len(source)
           up == UpTo(source, values)
           Odd == {p \in 0..size : up[p] \notin Seq(B)}
<1>1. size \in Nat
  OBVIOUS
<1>2. up = [p \in 0..size |-> IF p = 0 THEN <<>> ELSE (up[p - 1] \o PutAt(values, p - 1)) \o Staying(source, values, p - 1)]
  <2>1. \E h : PrefixRecursion(h, source, values, size)
    BY <1>1, PrefixesExist
  <2> QED BY <2>1 DEF UpTo, PrefixRecursion
<1> HIDE DEF up
<1>3. \A p \in 0..(size - 1) : Staying(source, values, p) \in Seq(B)
  <2> SUFFICES ASSUME NEW p \in 0..(size - 1) PROVE Staying(source, values, p) \in Seq(B)
    OBVIOUS
  <2>1. source[p + 1] \in B
    BY <1>1, ElementOfSeq
  <2>2. <<source[p + 1]>> \in Seq(B) /\ <<>> \in Seq(B)
    BY <2>1
  <2> QED BY <2>2 DEF Staying
<1>4. up[0] = <<>>
  BY <1>1, <1>2
<1>5. \A p \in 0..(size - 1) : up[p + 1] = (up[p] \o PutAt(values, p)) \o Staying(source, values, p)
  <2> SUFFICES ASSUME NEW p \in 0..(size - 1)
               PROVE  up[p + 1] = (up[p] \o PutAt(values, p)) \o Staying(source, values, p)
    OBVIOUS
  <2>1. p + 1 \in 0..size /\ p + 1 # 0 /\ (p + 1) - 1 = p
    BY <1>1
  <2> QED BY <1>2, <2>1
<1>6. Odd = {}
  <2> SUFFICES ASSUME Odd # {} PROVE FALSE
    OBVIOUS
  <2>1. PICK m \in Odd : \A k \in Odd : m <= k
    BY LeastNatural, Odd \subseteq Nat
  <2>2. m # 0
    BY <1>4, <2>1, EmptySeq
  <2>3. m - 1 \in 0..(size - 1) /\ (m - 1) + 1 = m /\ m - 1 \in 0..size /\ m - 1 \in Nat
    BY <1>1, <2>1, <2>2
  <2>4. up[m - 1] \in Seq(B)
    BY <2>1, <2>3
  <2>5. up[m] = (up[m - 1] \o PutAt(values, m - 1)) \o Staying(source, values, m - 1)
    BY <1>5, <2>3
  <2>6. PutAt(values, m - 1) \in Seq(B) /\ Staying(source, values, m - 1) \in Seq(B)
    BY <1>1, <1>3, <2>3, PutIs
  <2>7. up[m] \in Seq(B)
    BY <2>4, <2>5, <2>6, ConcatProperties
  <2> QED BY <2>1, <2>7
<1> QED BY <1>3, <1>4, <1>5, <1>6 DEF up

\* A stretch of a source grows by its next byte.
LEMMA StretchGrows ==
  ASSUME NEW B, NEW source \in Seq(B), NEW a \in 1..Len(source), NEW m \in a..Len(source)
  PROVE  /\ SubSeq(source, a, m) \in Seq(B) /\ SubSeq(source, a, m - 1) \in Seq(B)
         /\ SubSeq(source, a, m) = SubSeq(source, a, m - 1) \o <<source[m]>>
<1>1. \A i \in a..m : source[i] \in B
  BY ElementOfSeq
<1>2. a \in Int /\ m \in Int /\ m - 1 \in Int /\ \A i \in a..(m - 1) : i \in a..m
  OBVIOUS
<1> QED BY <1>1, <1>2, SubSeqProperties, SubSeqRecursiveSecond

\* A stretch that stays, or goes, with nothing put inside it.
KeptStretch(values, c, p) ==
  (\A q \in c..(p - 1) : Untouched(values, q)) /\ \A q \in (c + 1)..(p - 1) : PutAt(values, q) = <<>>
RemovedStretch(values, c, p) ==
  (\A q \in c..(p - 1) : ~Untouched(values, q)) /\ \A q \in (c + 1)..(p - 1) : PutAt(values, q) = <<>>

\* What is made of the source at p is that at c with the stretch between them, or
\* without it.
Copied(source, values, c, p) ==
  UpTo(source, values)[p] = (UpTo(source, values)[c] \o PutAt(values, c)) \o SubSeq(source, c + 1, p)
Skipped(source, values, c, p) == UpTo(source, values)[p] = UpTo(source, values)[c] \o PutAt(values, c)

\* Over a stretch that stays, with nothing put into it, bytes are copied.
LEMMA PrefixOverKept ==
  ASSUME NEW B, NEW source \in Seq(B), NEW values, WellFormed(Len(source), values), InsertsBytes(B, values),
         NEW c \in Nat, NEW p \in Nat, c < p, p <= Len(source),
         KeptStretch(values, c, p)
  PROVE  Copied(source, values, c, p)
<1> DEFINE size == Len(source)
           up == UpTo(source, values)
           so(m) == up[m] = (up[c] \o PutAt(values, c)) \o SubSeq(source, c + 1, m)
           Odd == {m \in (c + 1)..p : ~so(m)}
<1>1. /\ size \in Nat /\ up[c] \in Seq(B) /\ PutAt(values, c) \in Seq(B)
      /\ \A q \in 0..(size - 1) : up[q + 1] = (up[q] \o PutAt(values, q)) \o Staying(source, values, q)
  <2>1. size \in Nat /\ c \in 0..size
    OBVIOUS
  <2>2. up[c] \in Seq(B) /\ \A q \in 0..(size - 1) : up[q + 1] = (up[q] \o PutAt(values, q)) \o Staying(source, values, q)
    BY <2>1, PrefixIs
  <2>3. PutAt(values, c) \in Seq(B)
    BY <2>1, PutIs
  <2> QED BY <2>1, <2>2, <2>3
<1> HIDE DEF up
<1>2. up[c] \o PutAt(values, c) \in Seq(B)
  BY <1>1, ConcatProperties
<1>3. \A q \in c..(p - 1) : Staying(source, values, q) = <<source[q + 1]>> /\ source[q + 1] \in B
  <2> SUFFICES ASSUME NEW q \in c..(p - 1) PROVE Staying(source, values, q) = <<source[q + 1]>> /\ source[q + 1] \in B
    OBVIOUS
  <2>1. q + 1 \in 1..size
    BY <1>1
  <2>2. Untouched(values, q)
    BY DEF KeptStretch
  <2> QED BY <2>1, <2>2, ElementOfSeq DEF Staying
<1>4. so(c + 1)
  <2>1. c \in 0..(size - 1) /\ c \in c..(p - 1) /\ c + 1 \in 1..size
    BY <1>1
  <2>2. SubSeq(source, c + 1, c + 1) = <<source[c + 1]>>
    <3>1. SubSeq(source, c + 1, c + 1) = SubSeq(source, c + 1, (c + 1) - 1) \o <<source[c + 1]>>
      BY <2>1, StretchGrows
    <3>2. SubSeq(source, c + 1, (c + 1) - 1) = <<>>
      BY SubSeqEmpty
    <3>3. <<source[c + 1]>> \in Seq(B)
      BY <1>3, <2>1
    <3> QED BY <3>1, <3>2, <3>3, ConcatEmptySeq
  <2> QED BY <1>1, <1>3, <2>1, <2>2
<1>5. Odd = {}
  <2> SUFFICES ASSUME Odd # {} PROVE FALSE
    OBVIOUS
  <2>1. PICK m \in Odd : \A k \in Odd : m <= k
    <3>1. Odd \subseteq Nat
      <4> HIDE DEF so
      <4> QED OBVIOUS
    <3> QED BY <3>1, LeastNatural
  <2>2. m # c + 1
    BY <1>4, <2>1
  <2>3. /\ m \in Nat /\ m - 1 \in (c + 1)..(p - 1) /\ m - 1 \in (c + 1)..p /\ (m - 1) + 1 = m /\ m - 1 \in 0..(size - 1) /\ m - 1 \in c..(p - 1)
        /\ ~(m <= m - 1) /\ m <= size
    BY <1>1, <2>1, <2>2
  <2>4. so(m - 1)
    BY <2>1, <2>3
  <2>5. up[m] = (up[m - 1] \o <<>>) \o <<source[m]>>
    <3>1. PutAt(values, m - 1) = <<>>
      BY <2>3 DEF KeptStretch
    <3> QED BY <1>1, <1>3, <2>3, <3>1
  <2>6. SubSeq(source, c + 1, m - 1) \in Seq(B) /\ SubSeq(source, c + 1, m) = SubSeq(source, c + 1, m - 1) \o <<source[m]>>
    BY <1>1, <2>3, StretchGrows
  <2>7. up[m - 1] \o <<>> = up[m - 1]
    <3>1. up[m - 1] \in Seq(B)
      BY <1>2, <2>4, <2>6, ConcatProperties
    <3> QED BY <3>1
  <2>8. ((up[c] \o PutAt(values, c)) \o SubSeq(source, c + 1, m - 1)) \o <<source[m]>>
          = (up[c] \o PutAt(values, c)) \o (SubSeq(source, c + 1, m - 1) \o <<source[m]>>)
    <3> DEFINE a == up[c] \o PutAt(values, c)
               b == SubSeq(source, c + 1, m - 1)
               d == <<source[m]>>
    <3>1. a \in Seq(B) /\ b \in Seq(B)
      BY <1>2, <2>6
    <3>2. d \in Seq(B)
      BY <1>3, <2>3
    <3> HIDE DEF a, b, d
    <3>3. \A f, g, h \in Seq(B) : (f \o g) \o h = f \o (g \o h)
      BY ConcatAssociative
    <3>4. (a \o b) \o d = a \o (b \o d)
      BY <3>1, <3>2, <3>3
    <3> QED BY <3>4 DEF a, b, d
  <2>9. so(m)
    BY <2>4, <2>5, <2>6, <2>7, <2>8
  <2> QED BY <2>1, <2>9
<1>6. p \in (c + 1)..p
  OBVIOUS
<1> QED BY <1>5, <1>6 DEF up, Copied

\* Over a stretch that is removed, with nothing put into it, nothing is.
LEMMA PrefixOverRemoved ==
  ASSUME NEW B, NEW source \in Seq(B), NEW values, WellFormed(Len(source), values), InsertsBytes(B, values),
         NEW c \in Nat, NEW p \in Nat, c < p, p <= Len(source),
         RemovedStretch(values, c, p)
  PROVE  Skipped(source, values, c, p)
<1> DEFINE size == Len(source)
           up == UpTo(source, values)
           so(m) == up[m] = up[c] \o PutAt(values, c)
           Odd == {m \in (c + 1)..p : ~so(m)}
<1>1. /\ size \in Nat /\ up[c] \in Seq(B) /\ PutAt(values, c) \in Seq(B)
      /\ \A q \in 0..(size - 1) : up[q + 1] = (up[q] \o PutAt(values, q)) \o Staying(source, values, q)
  <2>1. size \in Nat /\ c \in 0..size
    OBVIOUS
  <2>2. up[c] \in Seq(B) /\ \A q \in 0..(size - 1) : up[q + 1] = (up[q] \o PutAt(values, q)) \o Staying(source, values, q)
    BY <2>1, PrefixIs
  <2>3. PutAt(values, c) \in Seq(B)
    BY <2>1, PutIs
  <2> QED BY <2>1, <2>2, <2>3
<1> HIDE DEF up
<1>2. up[c] \o PutAt(values, c) \in Seq(B)
  BY <1>1, ConcatProperties
<1>3. \A q \in c..(p - 1) : Staying(source, values, q) = <<>>
  BY DEF Staying, RemovedStretch
<1>4. so(c + 1)
  <2>1. c \in 0..(size - 1) /\ c \in c..(p - 1)
    BY <1>1
  <2>2. up[c + 1] = (up[c] \o PutAt(values, c)) \o <<>>
    BY <1>1, <1>3, <2>1
  <2> QED BY <1>2, <2>2
<1>5. Odd = {}
  <2> SUFFICES ASSUME Odd # {} PROVE FALSE
    OBVIOUS
  <2>1. PICK m \in Odd : \A k \in Odd : m <= k
    <3>1. Odd \subseteq Nat
      <4> HIDE DEF so
      <4> QED OBVIOUS
    <3> QED BY <3>1, LeastNatural
  <2>2. m # c + 1
    BY <1>4, <2>1
  <2>3. /\ m \in Nat /\ m - 1 \in (c + 1)..(p - 1) /\ m - 1 \in (c + 1)..p /\ (m - 1) + 1 = m /\ m - 1 \in 0..(size - 1) /\ m - 1 \in c..(p - 1)
        /\ ~(m <= m - 1)
    BY <1>1, <2>1, <2>2
  <2>4. so(m - 1)
    BY <2>1, <2>3
  <2>5. up[m] = (up[m - 1] \o <<>>) \o <<>>
    <3>1. PutAt(values, m - 1) = <<>>
      BY <2>3 DEF RemovedStretch
    <3> QED BY <1>1, <1>3, <2>3, <3>1
  <2>6. so(m)
    BY <1>2, <2>4, <2>5
  <2> QED BY <2>1, <2>6
<1>6. p \in (c + 1)..p
  OBVIOUS
<1> QED BY <1>5, <1>6 DEF up, Skipped

-----------------------------------------------------------------------------
\* Where nothing touches, a step is done before the next one: a removal has
\* ended, and two insertions lie apart.
LEMMA StepsApart ==
  ASSUME NEW size \in Nat, NEW values, WellFormed(size, values), Disjoint(values),
         NEW ev, NEW n, Enumerates(Events(values), ev, n), NEW j \in 1..n, NEW k \in 1..n, j < k
  PROVE  /\ ev[j][1] <= ev[k][1]
         /\ ev[j][2] = 0 /\ ev[k][2] = 0 => ev[j][1] < ev[k][1]
         /\ ev[j][2] = 1 => \A r \in values[ev[j][3]].removal :
                              r.end <= ev[k][1] /\ (ev[k][2] = 0 => r.end < ev[k][1])
<1> DEFINE a == ev[j]
           b == ev[k]
<1>1. a \in Events(values) /\ b \in Events(values) /\ Precedes(a, b)
  BY DEF Enumerates
<1> HIDE DEF a, b
<1>2. a \in Steps /\ b \in Steps
  BY <1>1, EventsAre
<1>3. /\ a[1] \in Nat /\ a[2] \in {0, 1} /\ a[3] \in DOMAIN values /\ b[1] \in Nat /\ b[2] \in {0, 1} /\ b[3] \in DOMAIN values
      /\ a[2] = 0 => \E x \in values[a[3]].insertion : x.at = a[1]
      /\ a[2] = 1 => \E r \in values[a[3]].removal : r.start = a[1]
      /\ b[2] = 0 => \E x \in values[b[3]].insertion : x.at = b[1]
      /\ b[2] = 1 => \E r \in values[b[3]].removal : r.start = b[1]
  BY <1>1, EventsAre
<1>9. a[3] \in Nat /\ b[3] \in Nat
  BY <1>2 DEF Steps
<1>4. \/ a[1] < b[1]
      \/ a[1] = b[1] /\ a[2] < b[2]
      \/ a[1] = b[1] /\ a[2] = b[2] /\ a[3] < b[3]
  BY <1>1, <1>2, PrecedesMeans
<1>5. ~Meets(values, a, b)
  BY <1>1, MeetingTouches
<1>6. a[1] <= b[1]
  BY <1>3, <1>4
<1>7. ASSUME a[2] = 0, b[2] = 0 PROVE a[1] < b[1]
  <2>1. CASE a[3] = b[3]
    <3>1. PICK x \in values[a[3]].insertion : x.at = a[1]
      BY <1>3, <1>7
    <3>2. PICK y \in values[b[3]].insertion : y.at = b[1]
      BY <1>3, <1>7
    <3>3. x = y
      BY <1>3, <2>1 DEF WellFormed
    <3> QED BY <1>3, <1>4, <1>7, <1>9, <2>1, <3>1, <3>2, <3>3
  <2>2. CASE a[3] # b[3]
    BY <1>3, <1>5, <1>6, <1>7, <2>2 DEF Meets
  <2> QED BY <2>1, <2>2
<1>8. ASSUME a[2] = 1, NEW r \in values[a[3]].removal
      PROVE  r.end <= b[1] /\ (b[2] = 0 => r.end < b[1])
  <2>1. r.start = a[1] /\ r.start \in Nat /\ r.end \in Nat /\ r.start < r.end
    <3>1. PICK q \in values[a[3]].removal : q.start = a[1]
      BY <1>3, <1>8
    <3>2. q = r /\ r.start \in Nat /\ r.end \in 0..size /\ r.start < r.end
      BY <1>3, <1>8 DEF WellFormed
    <3> QED BY <3>1, <3>2
  <2>2. CASE a[3] = b[3] /\ b[2] = 0
    <3>1. PICK x \in values[b[3]].insertion : x.at = b[1]
      BY <1>3, <2>2
    <3>2. x.at <= r.start \/ x.at > r.end
      BY <1>3, <1>8, <2>2 DEF WellFormed
    <3> QED BY <1>3, <1>4, <1>8, <2>1, <2>2, <3>1, <3>2
  <2>3. CASE a[3] = b[3] /\ b[2] = 1
    <3>1. PICK q \in values[b[3]].removal : q.start = b[1]
      BY <1>3, <2>3
    <3>2. q = r
      BY <1>3, <1>8, <2>3 DEF WellFormed
    <3> QED BY <1>3, <1>4, <1>8, <1>9, <2>1, <2>3, <3>1, <3>2
  <2>4. CASE a[3] # b[3]
    <3>1. ~IF b[2] = 0 THEN b[1] <= r.end ELSE b[1] < r.end
      BY <1>5, <1>8, <2>4 DEF Meets
    <3> QED BY <1>3, <2>1, <3>1
  <2> QED BY <1>3, <2>2, <2>3, <2>4
<1> QED BY <1>6, <1>7, <1>8 DEF a, b

\* What has been inserted at an offset by the first k steps.
Inserted(ev, k, p) == \E j \in 1..k : ev[j][2] = 0 /\ ev[j][1] = p

\* After k steps with the cursor at c, what is done lies before the cursor and
\* what is left behind it.
Placed(size, values, ev, n, k, c) ==
  /\ c \in 0..size
  /\ \A j \in 1..k : ev[j][1] <= c
  /\ \A j \in 1..k : ev[j][2] = 1 => \A r \in values[ev[j][3]].removal : r.end <= c
  /\ \A j \in (k + 1)..n : c <= ev[j][1]

\* What is to be made of the source up to c, with what is put there if that step is done.
Made(source, values, ev, k, c) ==
  UpTo(source, values)[c] \o (IF Inserted(ev, k, c) THEN PutAt(values, c) ELSE <<>>)

IsBuilt(s) == s = [cursor |-> s.cursor, output |-> s.output, entries |-> s.entries]

BuildTrue(source, values, ev, n, k, s) ==
  /\ IsBuilt(s)
  /\ Placed(Len(source), values, ev, n, k, s.cursor)
  /\ s.output = Made(source, values, ev, k, s.cursor)

\* Copying up to the next step, or to the end after the last, keeps that.
LEMMA CopyStep ==
  ASSUME NEW B, NEW source \in Seq(B), NEW values, WellFormed(Len(source), values), InsertsBytes(B, values),
         Disjoint(values), NEW ev, NEW n, Enumerates(Events(values), ev, n),
         NEW k \in 0..n, NEW s, BuildTrue(source, values, ev, n, k, s),
         NEW p \in 0..Len(source), s.cursor <= p, \A j \in (k + 1)..n : p <= ev[j][1]
  PROVE  BuildTrue(source, values, ev, n, k, AppendOriginal(source, s, p)) /\ AppendOriginal(source, s, p).cursor = p
<1> DEFINE size == Len(source)
           up == UpTo(source, values)
           c == s.cursor
           a == AppendOriginal(source, s, p)
<1>1. /\ size \in Nat /\ c \in 0..size /\ n \in Nat /\ k \in Nat
      /\ s = [cursor |-> c, output |-> s.output, entries |-> s.entries]
      /\ \A j \in 1..k : ev[j][1] <= c
      /\ \A j \in 1..k : ev[j][2] = 1 => \A r \in values[ev[j][3]].removal : r.end <= c
      /\ s.output = up[c] \o (IF Inserted(ev, k, c) THEN PutAt(values, c) ELSE <<>>)
  <2>1. n \in Nat
    BY DEF Enumerates
  <2>2. k \in Nat /\ size \in Nat
    BY <2>1
  <2> QED BY <2>1, <2>2 DEF BuildTrue, IsBuilt, Placed, Made
<1>2. CASE p = c
  <2>1. a = s
    BY <1>1, <1>2 DEF AppendOriginal
  <2> QED BY <1>2, <2>1
<1>3. CASE p # c
  <2>1. c \in Nat /\ p \in Nat /\ c < p /\ p <= size
    BY <1>1, <1>3
  <2>2. /\ a = [cursor |-> a.cursor, output |-> a.output, entries |-> a.entries]
        /\ a.cursor = p /\ a.output = s.output \o SubSeq(source, c + 1, p)
    <3>1. ~(p <= s.cursor)
      BY <1>1, <2>1
    <3>2. SliceOf(source, Span(c, p)) = SubSeq(source, c + 1, p)
      BY DEF SliceOf, Span
    <3> DEFINE y == s.output \o SliceOf(source, Span(c, p))
    <3>3. \E z : a = [s EXCEPT !.cursor = p, !.output = y, !.entries = z]
      BY <3>1 DEF AppendOriginal
    <3> HIDE DEF a, y
    <3>4. PICK z : a = [s EXCEPT !.cursor = p, !.output = y, !.entries = z]
      BY <3>3
    <3>5. a = [cursor |-> p, output |-> y, entries |-> z]
      BY <1>1, <3>4
    <3>6. a = [cursor |-> a.cursor, output |-> a.output, entries |-> a.entries] /\ a.cursor = p /\ a.output = y
      BY <3>5
    <3> QED BY <3>2, <3>6 DEF y
  <2> HIDE DEF a
  <2>3. \A e \in Events(values) : \E j \in 1..n : ev[j] = e
    BY DEF Enumerates
  <2>4. \A j \in 1..n : j \in 1..k \/ j \in (k + 1)..n
    BY <1>1
  <2>5. \A e \in Events(values) : e[1] \in Nat
    BY <1>1, EventsAre
  <2>6. ASSUME NEW q \in c..(p - 1) PROVE Untouched(values, q)
    <3> SUFFICES ASSUME NEW i \in DOMAIN values, NEW r \in values[i].removal PROVE q \notin r.start..(r.end - 1)
      BY DEF Untouched
    <3>1. <<r.start, 1, i>> \in Events(values) /\ r.start \in Nat /\ r.end \in Nat
      <4>1. r.start \in Nat /\ r.end \in 0..size
        BY DEF WellFormed
      <4>2. <<r.start, 1, i>> \in Events(values)
        BY <1>1, EventsAre
      <4> QED BY <4>1, <4>2
    <3>2. PICK j \in 1..n : ev[j] = <<r.start, 1, i>>
      BY <2>3, <3>1
    <3>3. ev[j][1] = r.start /\ ev[j][2] = 1 /\ ev[j][3] = i
      BY <3>2
    <3>4. CASE j \in 1..k
      <4>1. r.end <= c
        BY <1>1, <3>3, <3>4
      <4> QED BY <2>1, <3>1, <4>1
    <3>5. CASE j \in (k + 1)..n
      <4>1. p <= r.start
        BY <3>3, <3>5
      <4> QED BY <2>1, <3>1, <4>1
    <3> QED BY <2>4, <3>4, <3>5
  <2>7. ASSUME NEW q \in Nat, c < q, q < p PROVE PutAt(values, q) = <<>>
    <3>1. ASSUME NEW e \in Events(values), e[2] = 0 PROVE e[1] # q
      <4>1. PICK j \in 1..n : ev[j] = e
        BY <2>3
      <4> QED BY <1>1, <2>1, <2>4, <2>5, <2>7, <4>1
    <3> QED BY <1>1, <2>7, <3>1, PutIs
  <2>8. ~Inserted(ev, k, c) => PutAt(values, c) = <<>>
    <3> SUFFICES ASSUME ~Inserted(ev, k, c) PROVE PutAt(values, c) = <<>>
      OBVIOUS
    <3>1. ASSUME NEW e \in Events(values), e[2] = 0 PROVE e[1] # c
      <4>1. PICK j \in 1..n : ev[j] = e
        BY <2>3
      <4>2. CASE j \in 1..k
        BY <3>1, <4>1, <4>2 DEF Inserted
      <4>3. CASE j \in (k + 1)..n
        BY <2>1, <2>5, <4>1, <4>3
      <4> QED BY <2>4, <4>2, <4>3
    <3> QED BY <1>1, <2>1, <3>1, PutIs
  <2>9. s.output = up[c] \o PutAt(values, c)
    BY <1>1, <2>8
  <2>10. up[p] = s.output \o SubSeq(source, c + 1, p)
    <3>1. \A q \in c..(p - 1) : Untouched(values, q)
      BY <2>6
    <3>2. \A q \in (c + 1)..(p - 1) : PutAt(values, q) = <<>>
      <4> TAKE q \in (c + 1)..(p - 1)
      <4>1. q \in Nat /\ c < q /\ q < p
        BY <2>1
      <4> QED BY <2>7, <4>1
    <3>3. up[p] = (up[c] \o PutAt(values, c)) \o SubSeq(source, c + 1, p)
      <4>1. KeptStretch(values, c, p)
        BY <3>1, <3>2 DEF KeptStretch
      <4>2. p \in Nat /\ c \in Nat /\ c < p /\ p <= Len(source)
        BY <2>1
      <4> HIDE DEF c, up
      <4>3. Copied(source, values, c, p)
        BY <4>1, <4>2, PrefixOverKept
      <4> QED BY <4>3 DEF Copied, up
    <3> QED BY <2>9, <3>3
  <2>11. up[p] \in Seq(B)
    BY PrefixIs
  <2>12. ~Inserted(ev, k, p)
    BY <1>1, <2>1, <2>3 DEF Inserted
  <2>13. a.output = up[p] \o <<>>
    <3>1. a.output = up[p]
      BY <2>2, <2>10
    <3> QED BY <2>11, <3>1, ConcatEmptySeq
  <2>14. a.cursor = p /\ a = [cursor |-> a.cursor, output |-> a.output, entries |-> a.entries]
    BY <2>2
  <2>15. /\ \A j \in 1..k : ev[j][1] <= p
         /\ \A j \in 1..k : ev[j][2] = 1 => \A r \in values[ev[j][3]].removal : r.end <= p
    <3>1. \A j \in 1..k : ev[j] \in Events(values)
      BY <1>1 DEF Enumerates
    <3>2. \A j \in 1..k : ev[j][1] \in Nat /\ ev[j][3] \in DOMAIN values
      BY <1>1, <3>1, EventsAre
    <3>3. \A i \in DOMAIN values : \A r \in values[i].removal : r.end \in Nat
      BY <1>1 DEF WellFormed
    <3> QED BY <1>1, <2>1, <3>2, <3>3
  <2>16. a.output = Made(source, values, ev, k, p)
    BY <2>12, <2>13 DEF Made
  <2>17. Placed(Len(source), values, ev, n, k, p)
    BY <2>15 DEF Placed
  <2>18. BuildTrue(source, values, ev, n, k, a)
    BY <2>14, <2>16, <2>17 DEF BuildTrue, IsBuilt
  <2> QED BY <2>14, <2>18 DEF a
<1> QED BY <1>2, <1>3 DEF a, c

\* One step of the building keeps it true.
LEMMA BuildStep ==
  ASSUME NEW B, NEW source \in Seq(B), NEW values, WellFormed(Len(source), values), InsertsBytes(B, values),
         Disjoint(values), NEW ev, NEW n, Enumerates(Events(values), ev, n),
         NEW k \in Nat, k < n, NEW s, BuildTrue(source, values, ev, n, k, s)
  PROVE  BuildTrue(source, values, ev, n, k + 1, At(values, AppendOriginal(source, s, ev[k + 1][1]), ev[k + 1]))
<1> DEFINE size == Len(source)
           up == UpTo(source, values)
           e == ev[k + 1]
           p == ev[k + 1][1]
           a == AppendOriginal(source, s, p)
           t == At(values, a, e)
<1>1. /\ size \in Nat /\ n \in Nat /\ k \in 0..n /\ k + 1 \in 1..n /\ k + 1 \in (k + 1)..n
      /\ \A j \in 1..(k + 1) : j \in 1..k \/ j = k + 1
      /\ \A j \in 1..k : j \in 1..(k + 1) /\ j \in 1..n /\ j < k + 1
      /\ \A j \in ((k + 1) + 1)..n : j \in (k + 1)..n /\ j \in 1..n /\ k + 1 < j
      /\ \A j \in 1..n : j \in 1..k \/ j = k + 1 \/ j \in ((k + 1) + 1)..n
  BY DEF Enumerates
<1>2. \A j \in 1..n : ev[j] \in Events(values) /\ ev[j][1] \in 0..size /\ ev[j][2] \in {0, 1} /\ ev[j][3] \in DOMAIN values
  <2>1. \A j \in 1..n : ev[j] \in Events(values)
    BY DEF Enumerates
  <2> QED BY <1>1, <2>1, EventsAre
<1>3. /\ e \in Events(values) /\ p \in 0..size /\ p \in Nat /\ e[2] \in {0, 1} /\ e[3] \in DOMAIN values
      /\ e[2] = 0 => \E x \in values[e[3]].insertion : x.at = p
      /\ e[2] = 1 => \E r \in values[e[3]].removal : r.start = p
  BY <1>1, <1>2, EventsAre
<1>4. \A j \in ((k + 1) + 1)..n :
        /\ p <= ev[j][1]
        /\ e[2] = 0 /\ ev[j][2] = 0 => p < ev[j][1]
        /\ e[2] = 1 => \A r \in values[e[3]].removal : r.end <= ev[j][1] /\ (ev[j][2] = 0 => r.end < ev[j][1])
  BY <1>1, StepsApart
<1>5. \A j \in 1..k : e[2] = 0 /\ ev[j][2] = 0 => ev[j][1] < p
  BY <1>1, StepsApart
<1>6. \A j \in (k + 1)..n : p <= ev[j][1]
  <2>1. \A j \in (k + 1)..n : j = k + 1 \/ j \in ((k + 1) + 1)..n
    BY <1>1
  <2> QED BY <1>3, <1>4, <2>1
<1>7. s.cursor <= p
  BY <1>1 DEF BuildTrue, Placed
<1>8. BuildTrue(source, values, ev, n, k, a) /\ a.cursor = p
  BY <1>1, <1>3, <1>6, <1>7, CopyStep
<1> HIDE DEF a
<1>9. IsBuilt(a) /\ Placed(size, values, ev, n, k, p) /\ a.output = Made(source, values, ev, k, p)
  BY <1>8 DEF BuildTrue
<1>10. \A x \in Events(values) : \E j \in 1..n : ev[j] = x
  BY DEF Enumerates
<1>11. up[p] \in Seq(B) /\ PutAt(values, p) \in Seq(B)
  BY <1>1, <1>3, PrefixIs, PutIs
<1>12. CASE e[2] = 0
  <2>1. PICK x \in values[e[3]].insertion : x = CHOOSE y \in values[e[3]].insertion : TRUE
    BY <1>3, <1>12
  <2>2. x.at = p
    BY <1>3, <1>12, <2>1 DEF WellFormed
  <2>3. PutAt(values, p) = x.bytes
    <3>1. PutAt(values, x.at) = x.bytes
      BY <1>1, <1>3, InsertionIsPut
    <3> QED BY <2>2, <3>1
  <2>4. ~Inserted(ev, k, p)
    BY <1>1, <1>2, <1>5, <1>12 DEF Inserted
  <2>5. a.output = up[p]
    BY <1>9, <1>11, <2>4, ConcatEmptySeq DEF Made
  <2>6. t = AppendInsertion(a, x, e[3])
    BY <1>12, <2>1 DEF At
  <2>7. IsBuilt(t) /\ t.cursor = p /\ t.output = a.output \o x.bytes
    <3> DEFINE y == a.output \o x.bytes
    <3>1. \E z : t = [a EXCEPT !.output = y, !.entries = z]
      BY <2>6 DEF AppendInsertion
    <3> HIDE DEF y, t
    <3>2. PICK z : t = [a EXCEPT !.output = y, !.entries = z]
      BY <3>1
    <3>3. t = [cursor |-> p, output |-> y, entries |-> z]
      BY <1>8, <1>9, <3>2 DEF IsBuilt
    <3>4. IsBuilt(t) /\ t.cursor = p /\ t.output = y
      BY <3>3 DEF IsBuilt
    <3> QED BY <3>4 DEF y
  <2>8. Inserted(ev, k + 1, p)
    <3>1. k + 1 \in 1..(k + 1)
      BY <1>1
    <3> QED BY <1>12, <3>1 DEF Inserted
  <2> HIDE DEF t
  <2>9. t.output = Made(source, values, ev, k + 1, p)
    BY <2>3, <2>5, <2>7, <2>8 DEF Made
  <2>10. Placed(size, values, ev, n, k + 1, p)
    BY <1>1, <1>3, <1>4, <1>9, <1>12 DEF Placed
  <2>11. BuildTrue(source, values, ev, n, k + 1, t)
    BY <2>7, <2>9, <2>10 DEF BuildTrue
  <2> QED BY <2>11 DEF t, a
<1>13. CASE e[2] = 1
  <2>1. PICK r \in values[e[3]].removal : r = CHOOSE y \in values[e[3]].removal : TRUE
    BY <1>3, <1>13
  <2>2. r.start = p /\ r.end \in 0..size /\ p < r.end /\ \A q \in values[e[3]].removal : q = r
    BY <1>3, <1>13, <2>1 DEF WellFormed
  <2>3. t = Skip(a, r, e[3])
    BY <1>13, <2>1 DEF At
  <2>4. Max({p, r.end}) = r.end
    <3>1. r.end \in Int /\ p \in Int /\ p <= r.end
      BY <1>3, <2>2
    <3>2. \A m \in {p, r.end} : (\A y \in {p, r.end} : m >= y) => m = r.end
      BY <3>1
    <3>3. r.end \in {p, r.end} /\ \A y \in {p, r.end} : r.end >= y
      BY <3>1
    <3> QED BY <3>2, <3>3 DEF Max
  <2>5. IsBuilt(t) /\ t.cursor = r.end /\ t.output = a.output
    <3> DEFINE d == Max({p, r.end})
    <3>1. \E z : t = [a EXCEPT !.cursor = d, !.entries = z]
      BY <1>8, <2>3 DEF Skip
    <3> HIDE DEF d, t
    <3>2. PICK z : t = [a EXCEPT !.cursor = d, !.entries = z]
      BY <3>1
    <3>3. t = [cursor |-> d, output |-> a.output, entries |-> z]
      BY <1>9, <3>2 DEF IsBuilt
    <3>4. IsBuilt(t) /\ t.cursor = d /\ t.output = a.output
      BY <3>3 DEF IsBuilt
    <3> QED BY <2>4, <3>4 DEF d
  <2>6. ASSUME NEW q \in Nat, p <= q, q < r.end, NEW x \in Events(values), x[2] = 0, x[1] = q
        PROVE  Inserted(ev, k, p) /\ q = p
    <3>1. PICK j \in 1..n : ev[j] = x
      BY <1>10
    <3>2. j \in 1..k
      BY <1>1, <1>2, <1>3, <1>4, <1>13, <2>1, <2>2, <2>6, <3>1
    <3>3. x[1] <= p
      BY <1>9, <3>1, <3>2 DEF Placed
    <3>4. q = p
      BY <1>3, <2>6, <3>3
    <3> QED BY <2>6, <3>1, <3>2, <3>4 DEF Inserted
  <2>7. a.output = up[p] \o PutAt(values, p)
    <3>1. ~Inserted(ev, k, p) => PutAt(values, p) = <<>>
      <4> SUFFICES ASSUME ~Inserted(ev, k, p) PROVE PutAt(values, p) = <<>>
        OBVIOUS
      <4>1. \A x \in Events(values) : x[2] = 0 => x[1] # p
        BY <1>3, <2>2, <2>6
      <4> QED BY <1>1, <1>3, <4>1, PutIs
    <3> QED BY <1>9, <3>1 DEF Made
  <2>8. RemovedStretch(values, p, r.end)
    <3>1. ASSUME NEW q \in p..(r.end - 1) PROVE ~Untouched(values, q)
      BY <1>3, <2>1, <2>2 DEF Untouched
    <3>2. ASSUME NEW q \in (p + 1)..(r.end - 1) PROVE PutAt(values, q) = <<>>
      <4>1. q \in Nat /\ p <= q /\ q < r.end /\ q # p
        BY <1>3, <2>2
      <4>2. \A x \in Events(values) : x[2] = 0 => x[1] # q
        BY <2>6, <4>1
      <4> QED BY <1>1, <4>1, <4>2, PutIs
    <3> QED BY <3>1, <3>2 DEF RemovedStretch
  <2>9. up[r.end] = up[p] \o PutAt(values, p)
    <3> DEFINE f == r.end
    <3>1. f \in Nat /\ p < f /\ f <= Len(source) /\ RemovedStretch(values, p, f)
      BY <1>1, <2>2, <2>8
    <3> HIDE DEF f, p, up
    <3>2. Skipped(source, values, p, f)
      BY <1>3, <3>1, PrefixOverRemoved
    <3> QED BY <3>2 DEF f, up, Skipped
  <2>10. ~Inserted(ev, k + 1, r.end)
    <3> SUFFICES ASSUME NEW j \in 1..(k + 1), ev[j][2] = 0, ev[j][1] = r.end PROVE FALSE
      BY DEF Inserted
    <3>1. j \in 1..k
      <4>1. j # k + 1
        BY <1>13
      <4> QED BY <1>1, <4>1
    <3>2. ev[j][1] <= p
      BY <1>9, <3>1 DEF Placed
    <3> QED BY <1>3, <2>2, <3>2
  <2>11. up[r.end] \in Seq(B)
    BY <2>2, PrefixIs
  <2> HIDE DEF t
  <2>12. t.output = Made(source, values, ev, k + 1, r.end)
    BY <2>5, <2>7, <2>9, <2>10, <2>11, ConcatEmptySeq DEF Made
  <2>13. Placed(size, values, ev, n, k + 1, r.end)
    <3>1. ASSUME NEW j \in 1..(k + 1) PROVE ev[j][1] <= r.end
      <4>1. ev[j][1] <= p /\ ev[j][1] \in Nat
        BY <1>1, <1>2, <1>3, <1>9 DEF Placed
      <4> QED BY <1>3, <2>2, <4>1
    <3>2. ASSUME NEW j \in 1..(k + 1), ev[j][2] = 1, NEW q \in values[ev[j][3]].removal PROVE q.end <= r.end
      <4>1. CASE j = k + 1
        BY <2>2, <4>1
      <4>2. CASE j \in 1..k
        <5>1. q.end <= p /\ q.end \in Nat
          <6>1. q.end <= p
            BY <1>9, <3>2, <4>2 DEF Placed
          <6>2. ev[j][3] \in DOMAIN values
            BY <1>1, <1>2, <4>2
          <6> QED BY <3>2, <6>1, <6>2 DEF WellFormed
        <5> QED BY <1>3, <2>2, <5>1
      <4> QED BY <1>1, <4>1, <4>2
    <3>3. \A j \in ((k + 1) + 1)..n : r.end <= ev[j][1]
      BY <1>4, <1>13, <2>1
    <3> QED BY <2>2, <3>1, <3>2, <3>3 DEF Placed
  <2>14. BuildTrue(source, values, ev, n, k + 1, t)
    BY <2>5, <2>12, <2>13 DEF BuildTrue
  <2> QED BY <2>14 DEF t, a
<1> QED BY <1>3, <1>12, <1>13

\* So building a batch without conflicts makes of a source what the batch says.
LEMMA BuiltAtOnce ==
  ASSUME NEW B, NEW source \in Seq(B), NEW values, WellFormed(Len(source), values), InsertsBytes(B, values),
         Disjoint(values)
  PROVE  Build(source, values).output = Simultaneous(source, values)
<1> DEFINE size == Len(source)
           ev == Swept(values)
           n == Len(ev)
           start == [cursor |-> 0, output |-> <<>>, entries |-> <<>>]
           after == Building(source, values)
           Odd == {m \in 0..n : ~BuildTrue(source, values, ev, n, m, after[m])}
<1>1. Enumerates(Events(values), ev, n) /\ size \in Nat
  BY EventsAre, SweptEnumerates DEF Enumerates
<1>2. n \in Nat
  BY <1>1 DEF Enumerates
<1>3. after = [i \in 0..n |-> IF i = 0 THEN start ELSE At(values, AppendOriginal(source, after[i - 1], ev[i][1]), ev[i])]
  <2>1. \E h : Constructs(h, source, values, ev, start, n)
    BY <1>2, BuildingExists
  <2> QED BY <2>1 DEF Building, Constructs
<1>4. \A j \in 1..n : ev[j] \in Events(values) /\ ev[j][1] \in 0..size
  BY <1>1, EventsAre DEF Enumerates
<1> HIDE DEF ev, n, after
<1>5. BuildTrue(source, values, ev, n, 0, start)
  <2>1. UpTo(source, values)[0] = <<>> /\ ~Inserted(ev, 0, 0)
    BY PrefixIs DEF Inserted
  <2>2. IsBuilt(start) /\ start.cursor = 0 /\ start.output = <<>>
    BY DEF IsBuilt
  <2>3. Made(source, values, ev, 0, 0) = <<>>
    <3>1. <<>> \o <<>> = <<>>
      BY EmptySeq, ConcatEmptySeq
    <3> QED BY <2>1, <3>1 DEF Made
  <2>4. Placed(size, values, ev, n, 0, 0)
    BY <1>1, <1>2, <1>4 DEF Placed
  <2> HIDE DEF start
  <2> QED BY <2>2, <2>3, <2>4 DEF BuildTrue
<1> HIDE DEF start
<1>6. Odd = {}
  <2> SUFFICES ASSUME Odd # {} PROVE FALSE
    OBVIOUS
  <2>1. PICK m \in Odd : \A k \in Odd : m <= k
    BY LeastNatural, Odd \subseteq Nat
  <2>2. m # 0
    BY <1>2, <1>3, <1>5, <2>1
  <2>3. m - 1 \in Nat /\ m - 1 < n /\ m - 1 \in 0..n /\ BuildTrue(source, values, ev, n, m - 1, after[m - 1])
    BY <1>2, <2>1, <2>2
  <2>4. (m - 1) + 1 = m /\ after[m] = At(values, AppendOriginal(source, after[m - 1], ev[m][1]), ev[m])
    <3>1. m \in 0..n /\ m \in Nat
      BY <1>2, <2>1
    <3>2. after[m] = IF m = 0 THEN start ELSE At(values, AppendOriginal(source, after[m - 1], ev[m][1]), ev[m])
      BY <1>3, <3>1
    <3> QED BY <2>2, <3>1, <3>2
  <2>5. BuildTrue(source, values, ev, n, (m - 1) + 1,
                  At(values, AppendOriginal(source, after[m - 1], ev[(m - 1) + 1][1]), ev[(m - 1) + 1]))
    BY <1>1, <2>3, BuildStep
  <2> QED BY <2>1, <2>4, <2>5
<1>7. BuildTrue(source, values, ev, n, n, after[n])
  BY <1>2, <1>6
<1>8. after[n].cursor \in 0..size
  BY <1>7 DEF BuildTrue, Placed
<1> DEFINE b == AppendOriginal(source, after[n], size)
<1>9. BuildTrue(source, values, ev, n, n, b) /\ b.cursor = size
  <2>1. /\ n \in 0..n /\ size \in 0..size /\ after[n].cursor <= size
        /\ \A j \in (n + 1)..n : size <= ev[j][1]
    BY <1>1, <1>2, <1>8
  <2> QED BY <1>1, <1>7, <2>1, CopyStep
<1>10. Build(source, values) = b
  BY DEF Build, after, n, ev
<1> HIDE DEF b
<1>11. b.output = Made(source, values, ev, n, size)
  BY <1>9 DEF BuildTrue
<1>12. ~Inserted(ev, n, size) => PutAt(values, size) = <<>>
  <2> SUFFICES ASSUME ~Inserted(ev, n, size) PROVE PutAt(values, size) = <<>>
    OBVIOUS
  <2>1. \A e \in Events(values) : e[2] = 0 => e[1] # size
    BY <1>1 DEF Inserted, Enumerates
  <2> QED BY <1>1, <2>1, PutIs
<1> QED BY <1>10, <1>11, <1>12 DEF Made, Simultaneous

-----------------------------------------------------------------------------
\* The greatest and the least of numbers up to a bound.
LEMMA Extremes ==
  ASSUME NEW m \in Nat, NEW S, S \subseteq 0..m, S # {}
  PROVE  Min(S) \in S /\ Max(S) \in S
<1>1. Min(S) \in S
  <2>1. \E x \in S : \A y \in S : x <= y
    BY LeastNatural, S \subseteq Nat
  <2> QED BY <2>1 DEF Min
<1>2. Max(S) \in S
  <2> DEFINE D == {d \in 0..m : m - d \in S}
  <2>1. D # {}
    <3>1. PICK x \in S : x \in 0..m
      OBVIOUS
    <3>2. m - x \in 0..m /\ m - (m - x) = x
      BY <3>1
    <3> QED BY <3>1, <3>2
  <2>2. PICK d \in D : \A f \in D : d <= f
    BY <2>1, LeastNatural, D \subseteq Nat
  <2>3. \A y \in S : m - d >= y
    <3> TAKE y \in S
    <3>1. y \in 0..m /\ m - y \in 0..m /\ m - (m - y) = y
      OBVIOUS
    <3>2. m - y \in D
      BY <3>1
    <3>3. d <= m - y /\ d \in 0..m
      BY <2>2, <3>2
    <3> QED BY <3>1, <3>3
  <2>4. m - d \in S
    BY <2>2
  <2>5. \E x \in S : \A y \in S : x >= y
    BY <2>3, <2>4
  <2> QED BY <2>5 DEF Max
<1> QED BY <1>1, <1>2

\* A construct does not begin with the newline that begins the source.
BeginsInLine(source, r) == r.start = 0 => source[1] \notin {"n", "m"}

\* What a construct owns lies around it, in the source.
LEMMA OwnedAround ==
  ASSUME NEW B, NEW source \in Seq(B), NEW r, r.start \in Int, r.end \in Int, ValidRange(source, r), BeginsInLine(source, r)
  PROVE  /\ OwnedRange(source, r).start \in 0..r.start
         /\ OwnedRange(source, r).end \in r.end..Len(source)
<1> DEFINE size == Len(source)
           Before == {r.start} \cup {p \in 0 .. r.start - 1 : Leads(source, p, r.start)}
           start == Min(Before)
           line == LineStart(source, start)
           Behind == {r.end} \cup {p \in r.end + 1 .. Len(source) : Trails(source, r.end, p)}
           end == Max(Behind)
<1>1. size \in Nat /\ r.start \in Nat /\ r.end \in Nat /\ r.start < r.end /\ r.end <= size
  BY DEF ValidRange
<1>2. start \in Before /\ start \in 0..r.start
  <2>1. Before \subseteq 0..r.start /\ Before # {}
    BY <1>1
  <2>2. start \in Before
    BY <1>1, <2>1, Extremes
  <2> QED BY <2>1, <2>2
<1>3. end \in r.end..size
  <2>1. Behind \subseteq r.end..size /\ Behind # {} /\ Behind \subseteq 0..size
    BY <1>1
  <2>2. end \in Behind
    BY <1>1, <2>1, Extremes
  <2> QED BY <2>1, <2>2
<1>4. start = 0 => source[1] \notin {"n", "m"}
  <2>1. CASE start = r.start
    BY <2>1 DEF BeginsInLine
  <2>2. CASE start # r.start /\ start = 0
    <3>1. Leads(source, 0, r.start)
      BY <1>2, <2>2
    <3>2. source[0 + 1] = "c" /\ 0 + 1 = 1
      BY <3>1 DEF Leads
    <3> QED BY <3>2
  <2> QED BY <2>1, <2>2
<1> HIDE DEF start, end
<1>5. line \in 0..start
  <2> DEFINE top == Max({1, start})
             Ends == {0} \cup {q \in 1 .. top : q <= Len(source) /\ source[q] \in {"n", "m"}}
  <2>1. top = IF start = 0 THEN 1 ELSE start
    <3>1. start \in Nat
      BY <1>2
    <3>2. start + 1 \in Nat /\ {1, start} \subseteq 0..(start + 1) /\ {1, start} # {}
      BY <3>1
    <3>3. top \in {1, start}
      <4> DEFINE S == {1, start}
                 m == start + 1
      <4>1. m \in Nat /\ S \subseteq 0..m /\ S # {}
        BY <3>2
      <4> HIDE DEF S, m
      <4>2. Max(S) \in S
        BY <4>1, Extremes
      <4> QED BY <4>2 DEF S
    <3>4. \E x \in {1, start} : \A y \in {1, start} : x >= y
      BY <3>1
    <3>5. top >= 1 /\ top >= start
      BY <3>4 DEF Max
    <3> QED BY <3>1, <3>3, <3>5
  <2>2. top \in Nat
    BY <1>2, <2>1
  <2>3. line \in Ends
    <3> HIDE DEF top
    <3>1. Ends \subseteq 0..top /\ Ends # {}
      BY <2>2
    <3>2. Max(Ends) \in Ends
      BY <2>2, <3>1, Extremes
    <3> QED BY <3>2 DEF LineStart, top
  <2> HIDE DEF top
  <2>4. CASE start = 0
    <3>1. top = 1
      BY <2>1, <2>4
    <3>2. line = 0 \/ (line \in 1..1 /\ source[line] \in {"n", "m"})
      BY <2>3, <3>1
    <3>3. line = 0
      BY <1>4, <2>4, <3>2
    <3> QED BY <2>4, <3>3
  <2>5. CASE start # 0
    <3>1. top = start
      BY <2>1, <2>5
    <3>2. line = 0 \/ line \in 1..start
      BY <2>3, <3>1
    <3> QED BY <1>2, <3>2
  <2> QED BY <2>4, <2>5
<1>6. OwnedRange(source, r) = Span(IF Consists(source, line, start, {"s"}) THEN line ELSE start, end)
  BY DEF OwnedRange, start, end
<1> HIDE DEF line
<1>7. OwnedRange(source, r).start \in {line, start} /\ OwnedRange(source, r).end = end
  BY <1>6 DEF Span
<1> QED BY <1>2, <1>3, <1>5, <1>7

\* A transformation of a source of bytes of B, with its positions and contents:
\* any numbers, for the transformer is to tell which of them lie in the source.
IsTransformation(B, source, t) ==
  LET ranged == t.range.start \in Int /\ t.range.end \in Int
      content == t.content.bytes \in Seq(B) /\ t.content.origin \in {"fragment", "generated"}
  IN \/ t.kind = "insert" /\ t.at \in Int /\ content
     \/ t.kind = "replace" /\ ranged /\ content
     \/ t.kind = "delete" /\ ranged /\ (t.commentPolicy = "delete_owned_comments" => BeginsInLine(source, t.range))
     \/ t.kind = "move" /\ ranged /\ t.destination \in Int /\ BeginsInLine(source, t.range)

\* What a normalized transformation removes and inserts.
IsNormal(B, size, v) ==
  /\ \A x, y \in v.insertion : x = y
  /\ \A x \in v.insertion : x.at \in 0..size /\ x.bytes \in Seq(B)
  /\ \A r, q \in v.removal : r = q
  /\ \A r \in v.removal : r.start \in Nat /\ r.end \in 0..size /\ r.start < r.end
  /\ \A x \in v.insertion, r \in v.removal : x.at <= r.start \/ x.at > r.end
LEMMA ValidIsNormal ==
  ASSUME NEW B, NEW source \in Seq(B), NEW t, IsTransformation(B, source, t), Valid(source, t)
  PROVE  IsNormal(B, Len(source), Normalize(source, t))
<1> DEFINE size == Len(source)
           v == Normalize(source, t)
<1>1. size \in Nat /\ v.removal = Removal(source, t) /\ v.insertion = Insertion(source, t)
  BY DEF Normalize
<1> SUFFICES IsNormal(B, size, v)
  OBVIOUS
<1> HIDE DEF v
<1>2. \A r : ValidRange(source, r) /\ r.start \in Int /\ r.end \in Int =>
        r.start \in Nat /\ r.end \in 0..size /\ r.start < r.end
  BY <1>1 DEF ValidRange
<1>3. CASE t.kind = "insert"
  <2> DEFINE x == [at |-> t.at, bytes |-> t.content.bytes, origin |-> t.content.origin, original |-> {}]
  <2>1. t.at \in 0..size /\ t.content.bytes \in Seq(B)
    BY <1>3 DEF Valid, IsBoundary, IsTransformation
  <2>2. v.removal = {} /\ v.insertion = {x}
    BY <1>1, <1>3 DEF Removal, Insertion
  <2>3. x.at = t.at /\ x.bytes = t.content.bytes
    OBVIOUS
  <2> HIDE DEF x
  <2> QED BY <2>1, <2>2, <2>3 DEF IsNormal
<1>4. CASE t.kind = "replace"
  <2> DEFINE x == [at |-> t.range.start, bytes |-> t.content.bytes, origin |-> t.content.origin, original |-> {}]
  <2>1. t.range.start \in Nat /\ t.range.end \in 0..size /\ t.range.start < t.range.end /\ t.content.bytes \in Seq(B)
    BY <1>2, <1>4 DEF Valid, Editable, IsTransformation
  <2>2. v.removal = {t.range} /\ v.insertion = {x}
    BY <1>1, <1>4 DEF Removal, Insertion
  <2>3. x.at = t.range.start /\ x.bytes = t.content.bytes
    OBVIOUS
  <2> HIDE DEF x
  <2>4. x.at \in 0..size
    BY <1>1, <2>1, <2>3
  <2> QED BY <2>1, <2>2, <2>3, <2>4 DEF IsNormal
<1>5. CASE t.kind = "delete"
  <2>1. ValidRange(source, t.range) /\ t.range.start \in Int /\ t.range.end \in Int
    BY <1>5 DEF Valid, Editable, IsTransformation
  <2>2. t.range.start \in Nat /\ t.range.end \in 0..size /\ t.range.start < t.range.end
    BY <1>2, <2>1
  <2> DEFINE r == IF t.commentPolicy = "delete_owned_comments" THEN OwnedRange(source, t.range) ELSE t.range
  <2>3. v.removal = {r} /\ v.insertion = {}
    BY <1>1, <1>5 DEF Removal, Insertion
  <2>4. r.start \in Nat /\ r.end \in 0..size /\ r.start < r.end
    <3>1. CASE t.commentPolicy = "delete_owned_comments"
      <4>1. BeginsInLine(source, t.range)
        BY <1>5, <3>1 DEF IsTransformation
      <4>2. OwnedRange(source, t.range).start \in 0..t.range.start /\ OwnedRange(source, t.range).end \in t.range.end..Len(source)
        BY <2>1, <4>1, OwnedAround
      <4> QED BY <1>1, <2>2, <3>1, <4>2
    <3>2. CASE t.commentPolicy # "delete_owned_comments"
      BY <2>2, <3>2
    <3> QED BY <3>1, <3>2
  <2> HIDE DEF r
  <2> QED BY <2>3, <2>4 DEF IsNormal
<1>6. CASE t.kind = "move"
  <2> DEFINE r == Moved(source, t)
             x == [at |-> t.destination, bytes |-> SliceOf(source, r), origin |-> "moved", original |-> {r}]
  <2>1. /\ ValidRange(source, t.range) /\ t.range.start \in Int /\ t.range.end \in Int /\ BeginsInLine(source, t.range)
        /\ t.destination \in 0..size /\ t.destination \notin r.start .. r.end
    BY <1>6 DEF Valid, Editable, IsBoundary, IsTransformation
  <2>2. t.range.start \in Nat /\ t.range.end \in 0..size /\ t.range.start < t.range.end
    BY <1>2, <2>1
  <2>3. r.start \in Nat /\ r.end \in 0..size /\ r.start < r.end
    <3>1. OwnedRange(source, t.range).start \in 0..t.range.start /\ OwnedRange(source, t.range).end \in t.range.end..Len(source)
      BY <2>1, OwnedAround
    <3> QED BY <1>1, <2>2, <3>1 DEF Moved
  <2>4. v.removal = {r} /\ v.insertion = {x}
    BY <1>1, <1>6 DEF Removal, Insertion
  <2>5. x.at = t.destination /\ x.bytes = SliceOf(source, r)
    OBVIOUS
  <2> HIDE DEF x, r
  <2>6. SliceOf(source, r) \in Seq(B)
    <3>1. r.start + 1 \in Int /\ r.end \in Int /\ \A i \in (r.start + 1)..r.end : i \in 1..Len(source)
      BY <1>1, <2>3
    <3>2. \A i \in (r.start + 1)..r.end : source[i] \in B
      BY <3>1, ElementOfSeq
    <3> QED BY <3>1, <3>2, SubSeqProperties DEF SliceOf
  <2>7. x.at <= r.start \/ x.at > r.end
    BY <1>1, <2>1, <2>3, <2>5
  <2> QED BY <2>1, <2>3, <2>4, <2>5, <2>6, <2>7 DEF IsNormal
<1>7. t.kind \in {"insert", "replace", "delete", "move"}
  BY DEF IsTransformation
<1> QED BY <1>3, <1>4, <1>5, <1>6, <1>7

\* Answers within limits.
LEMMA LimitedSays ==
  ASSUME NEW a, NEW b, NEW limits, NEW usage, NEW answer
  PROVE  LET result == Limited(<<a, b>>, limits, usage, answer)
         IN  \/ result = answer /\ ~(usage[a] > limits[a]) /\ ~(usage[b] > limits[b])
             \/ /\ result.status = "rejected" /\ result.reason = "limit_exceeded"
                /\ result.usage[result.detail.limit] > limits[result.detail.limit]
<1> DEFINE names == <<a, b>>
           over == Exceeded(names, limits, usage)
           name == names[Min(over)]
           detail == [limit |-> name, maximum |-> limits[name], actual |-> usage[name]]
<1>1. CASE over = {}
  <2>1. Limited(names, limits, usage, answer) = answer
    BY <1>1 DEF Limited
  <2>2. 1 \in DOMAIN names /\ 2 \in DOMAIN names /\ names[1] = a /\ names[2] = b
    OBVIOUS
  <2>3. ~(usage[names[1]] > limits[names[1]]) /\ ~(usage[names[2]] > limits[names[2]])
    BY <1>1, <2>2 DEF Exceeded
  <2> QED BY <2>1, <2>2, <2>3
<1>2. CASE over # {}
  <2>1. Limited(names, limits, usage, answer) = [status |-> "rejected", reason |-> "limit_exceeded", detail |-> detail, usage |-> usage]
    BY <1>2 DEF Limited, LimitError, Rejected
  <2>2. Min(over) \in over
    <3>1. over \subseteq 0..2 /\ 2 \in Nat
      BY DEF Exceeded
    <3> QED BY <1>2, <3>1, Extremes
  <2>3. usage[name] > limits[name]
    BY <2>2 DEF Exceeded
  <2> HIDE DEF name, over
  <2> QED BY <2>1, <2>3
<1> QED BY <1>1, <1>2

\* A batch of transformations of a source.
IsBatch(B, source, batch) ==
  /\ \E m \in Nat : DOMAIN batch = 1..m
  /\ \A i \in DOMAIN batch : IsTransformation(B, source, batch[i])

LEMMA ValidBatchIsNormal ==
  ASSUME NEW B, NEW source \in Seq(B), NEW batch, IsBatch(B, source, batch), \A i \in DOMAIN batch : Valid(source, batch[i])
  PROVE  LET values == [i \in DOMAIN batch |-> Normalize(source, batch[i])]
         IN  WellFormed(Len(source), values) /\ InsertsBytes(B, values)
<1> DEFINE values == [i \in DOMAIN batch |-> Normalize(source, batch[i])]
<1>1. DOMAIN values = DOMAIN batch /\ \A i \in DOMAIN values : IsNormal(B, Len(source), values[i])
  BY ValidIsNormal DEF IsBatch
<1> HIDE DEF values
<1>2. IsFiniteSet(DOMAIN values) /\ DOMAIN values \subseteq Nat
  <2>1. PICK m \in Nat : DOMAIN batch = 1..m
    BY DEF IsBatch
  <2>2. IsFiniteSet(1..m)
    BY FS_Interval
  <2> QED BY <1>1, <2>1, <2>2
<1>3. WellFormed(Len(source), values)
  BY <1>1, <1>2 DEF WellFormed, IsNormal
<1>4. InsertsBytes(B, values)
  BY <1>1 DEF InsertsBytes, IsNormal
<1> QED BY <1>3, <1>4 DEF values

\* The answers to a batch.
Answers(source, batch, limits, result) ==
  LET values == [i \in DOMAIN batch |-> Normalize(source, batch[i])]
      valid  == \A i \in DOMAIN batch : Valid(source, batch[i])
  IN \/ /\ result.status = "rejected" /\ result.reason = "limit_exceeded"
        /\ result.usage[result.detail.limit] > limits[result.detail.limit]
     \/ ~valid /\ result.status = "rejected" /\ result.reason = "invalid_transformation"
     \/ valid /\ FirstConflict(values) # {} /\ result.status = "rejected" /\ result.reason = "conflicting_transformations"
     \/ /\ valid /\ FirstConflict(values) = {} /\ result.status = "accepted"
        /\ result.source = Build(source, values).output /\ result.provenance = Build(source, values).entries
        /\ \A name \in Judged : ~(result.usage[name] > limits[name])
LEMMA AnswersAre ==
  ASSUME NEW source, NEW batch, NEW limits
  PROVE  Answers(source, batch, limits, ApplySourceTransformations(source, batch, limits, <<>>))
<1> DEFINE values == [i \in DOMAIN batch |-> Normalize(source, batch[i])]
           u == EarlyUsage(source, batch)
           planned == PlannedUsage(source, values, u)
           built == Build(source, values)
           measured == BuiltUsage(built, planned)
           valid == \A i \in DOMAIN batch : Valid(source, batch[i])
           accepted == [status |-> "accepted", source |-> built.output, provenance |-> built.entries,
                        changedRegions |-> ChangedRegions(values, built.entries), usage |-> measured]
           judged == Judge(built, values, limits, <<>>, measured)
           conflict == FirstConflict(values)
           conflicting == IF conflict # {} THEN Rejected("conflicting_transformations", ConflictRecord(values, conflict), planned)
                          ELSE judged
           transformed == TransformValues(source, values, limits, <<>>, planned)
           started == IF ~valid THEN Rejected("invalid_transformation", {}, u) ELSE transformed
           result == ApplySourceTransformations(source, batch, limits, <<>>)
           Over(r) == r.status = "rejected" /\ r.reason = "limit_exceeded" /\ r.usage[r.detail.limit] > limits[r.detail.limit]
<1>1. result = Limited(<<"operations", "transformedRegions">>, limits, u, started)
  BY DEF ApplySourceTransformations
<1>2. transformed = Limited(<<"fragmentBytes", "work">>, limits, planned, conflicting)
  BY DEF TransformValues
<1>3. judged = Limited(<<"provenanceEntries", "sourceBytes">>, limits, measured, accepted)
  BY DEF Judge
<1> SUFFICES \/ Over(result)
             \/ ~valid /\ result.status = "rejected" /\ result.reason = "invalid_transformation"
             \/ valid /\ conflict # {} /\ result.status = "rejected" /\ result.reason = "conflicting_transformations"
             \/ /\ valid /\ conflict = {} /\ result.status = "accepted"
                /\ result.source = built.output /\ result.provenance = built.entries
                /\ \A name \in Judged : ~(result.usage[name] > limits[name])
  BY DEF Answers
<1>4. /\ planned.operations = u.operations /\ planned.transformedRegions = u.transformedRegions
      /\ measured.operations = planned.operations /\ measured.transformedRegions = planned.transformedRegions
      /\ measured.fragmentBytes = planned.fragmentBytes /\ measured.work = planned.work
  BY DEF EarlyUsage, PlannedUsage, BuiltUsage, NoEditUsage
<1> HIDE DEF values, u, planned, built, measured, accepted, judged, conflicting, transformed, started, result, valid
<1> DEFINE Under(usage, name) == ~(usage[name] > limits[name])
<1>5. /\ (result = started /\ Under(u, "operations") /\ Under(u, "transformedRegions")) \/ Over(result)
      /\ (transformed = conflicting /\ Under(planned, "fragmentBytes") /\ Under(planned, "work")) \/ Over(transformed)
      /\ (judged = accepted /\ Under(measured, "provenanceEntries") /\ Under(measured, "sourceBytes")) \/ Over(judged)
  <2>1. (result = started /\ Under(u, "operations") /\ Under(u, "transformedRegions")) \/ Over(result)
    BY <1>1, LimitedSays
  <2>2. (transformed = conflicting /\ Under(planned, "fragmentBytes") /\ Under(planned, "work")) \/ Over(transformed)
    BY <1>2, LimitedSays
  <2>3. (judged = accepted /\ Under(measured, "provenanceEntries") /\ Under(measured, "sourceBytes")) \/ Over(judged)
    BY <1>3, LimitedSays
  <2> QED BY <2>1, <2>2, <2>3
<1>6. \A reason, detail, usage : /\ Rejected(reason, detail, usage).status = "rejected"
                                 /\ Rejected(reason, detail, usage).reason = reason
  BY DEF Rejected
<1>7. /\ accepted.status = "accepted" /\ accepted.source = built.output /\ accepted.provenance = built.entries
      /\ accepted.usage = measured
  BY DEF accepted
<1> HIDE DEF conflict, Over
<1>8. CASE result = started /\ ~valid
  BY <1>6, <1>8 DEF started
<1>9. CASE result = transformed /\ valid
  <2>1. CASE transformed = conflicting /\ conflict # {}
    BY <1>6, <1>9, <2>1 DEF conflicting
  <2>2. CASE transformed = judged /\ conflict = {}
    <3>1. CASE Over(judged)
      BY <1>9, <2>2, <3>1
    <3>2. CASE ~Over(judged)
      <4>1. result = accepted /\ \A name \in Judged : Under(measured, name)
        <5>1. Under(measured, "provenanceEntries") /\ Under(measured, "sourceBytes") /\ judged = accepted
          BY <1>5, <3>2
        <5>2. Under(u, "operations") /\ Under(u, "transformedRegions") /\ Under(planned, "fragmentBytes") /\ Under(planned, "work")
          BY <1>5, <1>9, <2>2, <3>2
        <5>3. /\ Under(measured, "operations") /\ Under(measured, "transformedRegions")
              /\ Under(measured, "fragmentBytes") /\ Under(measured, "work")
          BY <1>4, <5>2
        <5> QED BY <1>9, <2>2, <5>1, <5>3 DEF Judged
      <4> QED BY <1>7, <1>9, <2>2, <4>1
    <3> QED BY <3>1, <3>2
  <2> QED BY <1>5, <1>9, <2>1, <2>2 DEF conflicting
<1> QED BY <1>5, <1>8, <1>9 DEF started

\* The transformer (engine/src/source-transform.ts) applies the transformations of
\* any batch to any source at once, each where it lies in the original, or applies
\* none of them and says why: one is not valid, two of them touch, or a limit is
\* really exceeded.
THEOREM BatchIsSimultaneous ==
  ASSUME NEW B, problem.kind = "transforms" => problem.source \in Seq(B) /\ IsBatch(B, problem.source, problem.batch)
  PROVE  SimultaneousBatch
<1> SUFFICES ASSUME NEW source \in Seq(B), NEW batch, NEW limits, IsBatch(B, source, batch)
             PROVE  AppliesAtOnce(source, batch, limits)
  BY DEF SimultaneousBatch
<1> DEFINE values == [i \in DOMAIN batch |-> Normalize(source, batch[i])]
           valid == \A i \in DOMAIN batch : Valid(source, batch[i])
           result == ApplySourceTransformations(source, batch, limits, <<>>)
<1>1. Answers(source, batch, limits, result)
  BY AnswersAre
<1>2. valid => (FirstConflict(values) = {} <=> Disjoint(values))
               /\ (Disjoint(values) => Build(source, values).output = Simultaneous(source, values))
  <2> SUFFICES ASSUME valid
               PROVE  (FirstConflict(values) = {} <=> Disjoint(values))
                      /\ (Disjoint(values) => Build(source, values).output = Simultaneous(source, values))
    OBVIOUS
  <2>1. WellFormed(Len(source), values) /\ InsertsBytes(B, values)
    BY ValidBatchIsNormal
  <2> HIDE DEF values
  <2>2. Len(source) \in Nat
    OBVIOUS
  <2>3. FirstConflict(values) = {} <=> Disjoint(values)
    BY <2>1, <2>2, ConflictsFound
  <2>4. Disjoint(values) => Build(source, values).output = Simultaneous(source, values)
    BY <2>1, BuiltAtOnce
  <2> QED BY <2>3, <2>4
<1> HIDE DEF result
<1>3. IsSimultaneous(source, batch, limits, values, result)
  <2>1. \/ /\ result.status = "rejected" /\ result.reason = "limit_exceeded"
           /\ result.usage[result.detail.limit] > limits[result.detail.limit]
        \/ ~valid /\ result.status = "rejected" /\ result.reason = "invalid_transformation"
        \/ valid /\ FirstConflict(values) # {} /\ result.status = "rejected" /\ result.reason = "conflicting_transformations"
        \/ /\ valid /\ FirstConflict(values) = {} /\ result.status = "accepted"
           /\ result.source = Build(source, values).output /\ \A name \in Judged : ~(result.usage[name] > limits[name])
    BY <1>1 DEF Answers
  <2> HIDE DEF values
  <2> QED BY <1>2, <2>1 DEF IsSimultaneous
<1> QED BY <1>3 DEF AppliesAtOnce, result, values

-----------------------------------------------------------------------------
\* An offset of the original is accounted for by one entry, or by none; a byte of
\* the result is of one entry, or of none.
TakenOnce(es, p)  == \E k \in DOMAIN es : \A m \in DOMAIN es : TakesByte(es[m], p) <=> m = k
TakenNever(es, p) == \A m \in DOMAIN es : ~TakesByte(es[m], p)
MadeOnce(es, p)   == \E k \in DOMAIN es : \A m \in DOMAIN es : MakesByte(es[m], p) <=> m = k
MadeNever(es, p)  == \A m \in DOMAIN es : ~MakesByte(es[m], p)

\* What a byte of an entry can be traced to: one range of the original, or what one
\* transformation inserted.
Traceable(source, values, e) ==
  /\ \A u, w \in e.updated : u = w
  /\ e.updated # {} =>
       \/ e.kind \in {"original", "moved"} /\ \E o : e.original = {o} /\ o.start \in 0..Len(source) /\ o.end \in o.start..Len(source)
       \/ e.kind \in {"fragment", "generated"} /\ e.by \in DOMAIN values /\ \A x \in values[e.by].insertion : x.origin = e.kind

\* What an entry tells is so, of bytes that are there.
EntryTrue(source, values, output, e) ==
  /\ Tells(source, output, values, e) /\ Traceable(source, values, e)
  /\ \A u \in e.updated : u.start \in 0..Len(output) /\ u.end \in u.start..Len(output)

\* What is built so far is accounted for: the original up to the cursor, and the
\* whole output.
AccountTrue(B, source, values, s) ==
  /\ \E S : s.entries \in Seq(S)
  /\ s.output \in Seq(B) /\ s.cursor \in 0..Len(source)
  /\ \A p \in Nat : (p < s.cursor => TakenOnce(s.entries, p)) /\ (p >= s.cursor => TakenNever(s.entries, p))
  /\ \A p \in Nat : (p < Len(s.output) => MadeOnce(s.entries, p)) /\ (p >= Len(s.output) => MadeNever(s.entries, p))
  /\ \A k \in DOMAIN s.entries : EntryTrue(source, values, s.output, s.entries[k])

\* What is put there is told of as it is.
ToldTruly(source, values) ==
  \A i \in DOMAIN values : \A x \in values[i].insertion :
    /\ x.origin \in {"moved", "fragment", "generated"} /\ \A y \in values[i].insertion : y = x
    /\ x.origin = "moved" => \E o : /\ x.original = {o} /\ SliceOf(source, o) = x.bytes
                                   /\ o.start \in 0..Len(source) /\ o.end \in o.start..Len(source)

\* An entry stays true of a longer output.
LEMMA EntryStays ==
  ASSUME NEW B, NEW source, NEW values, NEW o \in Seq(B), NEW w \in Seq(B), NEW e, EntryTrue(source, values, o, e)
  PROVE  EntryTrue(source, values, o \o w, e)
<1>1. Len(o) \in Nat /\ Len(w) \in Nat /\ Len(o \o w) = Len(o) + Len(w)
  BY ConcatProperties
<1>2. \A u \in e.updated : u.start \in 0..Len(o) /\ u.end \in u.start..Len(o)
  BY DEF EntryTrue
<1>3. ASSUME NEW u \in e.updated PROVE SliceOf(o \o w, u) = SliceOf(o, u)
  <2>1. u.start \in 0..Len(o) /\ u.end \in u.start..Len(o)
    BY <1>2
  <2>2. CASE u.start = u.end
    <3>1. u.start + 1 \in Int /\ u.end \in Int /\ u.end < u.start + 1
      BY <1>1, <2>1, <2>2
    <3> QED BY <3>1, SubSeqEmpty DEF SliceOf
  <2>3. CASE u.start # u.end
    <3>1. u.start + 1 \in 1..Len(o) /\ u.end \in 1..Len(o)
      BY <1>1, <2>1, <2>3
    <3> QED BY <3>1, SubSeqOfConcat1 DEF SliceOf
  <2> QED BY <2>2, <2>3
<1>4. Tells(source, o \o w, values, e)
  <2>1. Tells(source, o, values, e)
    BY DEF EntryTrue
  <2> SUFFICES ASSUME NEW u \in e.updated
               PROVE  CASE e.kind \in {"original", "moved"} -> \A a \in e.original : SliceOf(o \o w, u) = SliceOf(source, a)
                        [] OTHER -> \E x \in values[e.by].insertion : SliceOf(o \o w, u) = x.bytes
    BY DEF Tells
  <2>2. CASE e.kind \in {"original", "moved"}
    BY <1>3, <2>1, <2>2 DEF Tells
  <2>3. CASE e.kind \notin {"original", "moved"}
    BY <1>3, <2>1, <2>3 DEF Tells
  <2> QED BY <2>2, <2>3
<1>5. \A u \in e.updated : u.start \in 0..Len(o \o w) /\ u.end \in u.start..Len(o \o w)
  BY <1>1, <1>2
<1> QED BY <1>4, <1>5 DEF EntryTrue

\* An entry that accounts for what a step takes and makes keeps the account.
LEMMA EntryAdded ==
  ASSUME NEW B, NEW source \in Seq(B), NEW values, NEW s, AccountTrue(B, source, values, s),
         NEW e, NEW w \in Seq(B), NEW t,
         t.entries = Append(s.entries, e), t.output = s.output \o w, t.cursor \in s.cursor..Len(source),
         \A p \in Nat : TakesByte(e, p) <=> s.cursor <= p /\ p < t.cursor,
         \A p \in Nat : MakesByte(e, p) <=> Len(s.output) <= p /\ p < Len(s.output) + Len(w),
         EntryTrue(source, values, t.output, e)
  PROVE  AccountTrue(B, source, values, t)
<1> DEFINE es == s.entries
           fs == t.entries
           n == Len(es)
           c == s.cursor
           d == t.cursor
           size == Len(source)
<1>1. /\ s.output \in Seq(B) /\ c \in 0..size /\ size \in Nat /\ d \in c..size
      /\ \A p \in Nat : (p < c => TakenOnce(es, p)) /\ (p >= c => TakenNever(es, p))
      /\ \A p \in Nat : (p < Len(s.output) => MadeOnce(es, p)) /\ (p >= Len(s.output) => MadeNever(es, p))
      /\ \A k \in DOMAIN es : EntryTrue(source, values, s.output, es[k])
  BY DEF AccountTrue
<1>2. PICK S : es \in Seq(S)
  BY DEF AccountTrue
<1>3. fs \in Seq(S \cup {e}) /\ Len(fs) = n + 1 /\ n \in Nat /\ (\A i \in 1..n : fs[i] = es[i]) /\ fs[n + 1] = e
      /\ DOMAIN fs = 1..(n + 1) /\ DOMAIN es = 1..n
  <2>1. es \in Seq(S \cup {e}) /\ e \in S \cup {e}
    BY <1>2, SeqMonotonic
  <2>2. fs = Append(es, e)
    OBVIOUS
  <2> HIDE DEF fs, es
  <2>3. n \in Nat /\ DOMAIN es = 1..n
    BY <2>1, LenProperties
  <2>4. fs \in Seq(S \cup {e}) /\ Len(fs) = n + 1 /\ (\A i \in 1..n : fs[i] = es[i]) /\ fs[n + 1] = e
    BY <2>1, <2>2, AppendProperties
  <2>5. DOMAIN fs = 1..Len(fs)
    BY <2>4, LenProperties
  <2> QED BY <2>3, <2>4, <2>5
<1>4. Len(s.output) \in Nat /\ Len(w) \in Nat /\ t.output \in Seq(B) /\ Len(t.output) = Len(s.output) + Len(w)
  BY <1>1, ConcatProperties
<1> HIDE DEF es, fs, n, c, d, size
<1>5. /\ \A m \in 1..(n + 1) : m \in 1..n \/ m = n + 1
      /\ n + 1 \in 1..(n + 1) /\ \A m \in 1..n : m \in 1..(n + 1) /\ m # n + 1
  BY <1>3
<1>6. /\ \A p \in Nat : TakesByte(e, p) <=> c <= p /\ p < d
      /\ \A p \in Nat : MakesByte(e, p) <=> Len(s.output) <= p /\ p < Len(t.output)
  BY <1>4 DEF c, d
<1>7. ASSUME NEW p \in Nat
      PROVE  (p < d => TakenOnce(fs, p)) /\ (p >= d => TakenNever(fs, p))
  <2>1. c \in Nat /\ d \in Nat /\ c <= d
    BY <1>1
  <2>2. CASE p < c
    <3>1. PICK k \in DOMAIN es : \A m \in DOMAIN es : TakesByte(es[m], p) <=> m = k
      BY <1>1, <2>2 DEF TakenOnce
    <3>2. ~TakesByte(e, p)
      BY <1>6, <2>1, <2>2
    <3>3. k \in DOMAIN fs /\ \A m \in DOMAIN fs : TakesByte(fs[m], p) <=> m = k
      BY <1>3, <1>5, <3>1, <3>2
    <3> QED BY <2>1, <2>2, <3>3 DEF TakenOnce
  <2>3. CASE c <= p /\ p < d
    <3>1. TakenNever(es, p)
      BY <1>1, <2>1, <2>3
    <3>2. TakesByte(e, p)
      BY <1>6, <2>3
    <3>3. n + 1 \in DOMAIN fs /\ \A m \in DOMAIN fs : TakesByte(fs[m], p) <=> m = n + 1
      BY <1>3, <1>5, <3>1, <3>2 DEF TakenNever
    <3> QED BY <2>1, <2>3, <3>3 DEF TakenOnce
  <2>4. CASE p >= d
    <3>1. TakenNever(es, p)
      BY <1>1, <2>1, <2>4
    <3>2. ~TakesByte(e, p)
      BY <1>6, <2>1, <2>4
    <3>3. TakenNever(fs, p)
      BY <1>3, <1>5, <3>1, <3>2 DEF TakenNever
    <3> QED BY <2>1, <2>4, <3>3
  <2> QED BY <2>1, <2>2, <2>3, <2>4
<1>8. ASSUME NEW p \in Nat
      PROVE  (p < Len(t.output) => MadeOnce(fs, p)) /\ (p >= Len(t.output) => MadeNever(fs, p))
  <2> DEFINE a == Len(s.output)
             b == Len(t.output)
  <2>1. a \in Nat /\ b \in Nat /\ a <= b
    BY <1>4
  <2>5. (p < a => MadeOnce(es, p)) /\ (p >= a => MadeNever(es, p)) /\ (MakesByte(e, p) <=> a <= p /\ p < b)
    BY <1>1, <1>6
  <2> HIDE DEF a, b
  <2>2. CASE p < a
    <3>1. PICK k \in DOMAIN es : \A m \in DOMAIN es : MakesByte(es[m], p) <=> m = k
      BY <2>5, <2>2 DEF MadeOnce
    <3>2. ~MakesByte(e, p)
      BY <2>5, <2>1, <2>2
    <3>3. k \in DOMAIN fs /\ \A m \in DOMAIN fs : MakesByte(fs[m], p) <=> m = k
      BY <1>3, <1>5, <3>1, <3>2
    <3>4. MadeOnce(fs, p)
      BY <3>3 DEF MadeOnce
    <3> QED BY <2>1, <2>2, <3>4 DEF b
  <2>3. CASE a <= p /\ p < b
    <3>1. MadeNever(es, p)
      BY <2>5, <2>1, <2>3
    <3>2. MakesByte(e, p)
      BY <2>5, <2>3
    <3>3. n + 1 \in DOMAIN fs /\ \A m \in DOMAIN fs : MakesByte(fs[m], p) <=> m = n + 1
      BY <1>3, <1>5, <3>1, <3>2 DEF MadeNever
    <3>4. MadeOnce(fs, p)
      BY <3>3 DEF MadeOnce
    <3> QED BY <2>1, <2>3, <3>4 DEF b
  <2>4. CASE p >= b
    <3>1. MadeNever(es, p)
      BY <2>5, <2>1, <2>4
    <3>2. ~MakesByte(e, p)
      BY <2>5, <2>1, <2>4
    <3>3. MadeNever(fs, p)
      BY <1>3, <1>5, <3>1, <3>2 DEF MadeNever
    <3> QED BY <2>1, <2>4, <3>3 DEF b
  <2> QED BY <2>1, <2>2, <2>3, <2>4
<1>9. ASSUME NEW k \in DOMAIN fs PROVE EntryTrue(source, values, t.output, fs[k])
  <2>1. CASE k = n + 1
    BY <1>3, <2>1
  <2>2. CASE k \in 1..n
    <3>1. EntryTrue(source, values, s.output, es[k]) /\ fs[k] = es[k]
      BY <1>1, <1>3, <2>2
    <3>2. EntryTrue(source, values, s.output \o w, es[k])
      BY <1>1, <3>1, EntryStays
    <3> QED BY <3>1, <3>2
  <2> QED BY <1>3, <1>5, <2>1, <2>2
<1>10. \E T : fs \in Seq(T)
  BY <1>3
<1>11. d \in 0..size
  BY <1>1
<1> QED BY <1>4, <1>7, <1>8, <1>9, <1>10, <1>11 DEF AccountTrue, fs, d, size

\* What is added to an output stands at its end.
StandsAt(o, w, u) ==
  /\ Len(o) \in Nat /\ Len(w) \in Nat
  /\ SliceOf(o \o w, u) = w
  /\ \A p \in Nat : p \in u.start..u.end - 1 <=> Len(o) <= p /\ p < Len(o) + Len(w)
  /\ u.start \in 0..Len(o \o w) /\ u.end \in u.start..Len(o \o w)
LEMMA AddedStands ==
  ASSUME NEW B, NEW o \in Seq(B), NEW w \in Seq(B), NEW u, u.start = Len(o), u.end = Len(o) + Len(w)
  PROVE  StandsAt(o, w, u)
<1>1. Len(o) \in Nat /\ Len(w) \in Nat /\ Len(o \o w) = Len(o) + Len(w)
  BY ConcatProperties
<1>3. SubSeq(o \o w, Len(o) + 1, Len(o) + Len(w)) = w
  <2>1. CASE Len(w) = 0
    <3>1. w = <<>>
      BY <2>1, EmptySeq, SeqEqual
    <3>2. SubSeq(o \o w, Len(o) + 1, Len(o) + Len(w)) = <<>>
      <4>1. Len(o) + 1 \in Int /\ Len(o) + Len(w) \in Int /\ Len(o) + Len(w) < Len(o) + 1
        BY <1>1, <2>1
      <4> QED BY <4>1, SubSeqEmpty
    <3> QED BY <3>1, <3>2
  <2>2. CASE Len(w) # 0
    <3>1. Len(o) + 1 \in Len(o) + 1..Len(o) + Len(w) /\ Len(o) + Len(w) \in Len(o) + 1..Len(o) + Len(w)
      BY <1>1, <2>2
    <3>2. SubSeq(o \o w, Len(o) + 1, Len(o) + Len(w)) = SubSeq(w, (Len(o) + 1) - Len(o), (Len(o) + Len(w)) - Len(o))
      BY <3>1, SubSeqOfConcat2
    <3>3. (Len(o) + 1) - Len(o) = 1 /\ (Len(o) + Len(w)) - Len(o) = Len(w)
      BY <1>1
    <3>4. SubSeq(w, 1, Len(w)) = w
      BY SubSeqFull
    <3> QED BY <3>2, <3>3, <3>4
  <2> QED BY <2>1, <2>2
<1>4. SliceOf(o \o w, u) = w
  BY <1>3 DEF SliceOf
<1>5. \A p \in Nat : p \in Len(o)..(Len(o) + Len(w)) - 1 <=> Len(o) <= p /\ p < Len(o) + Len(w)
  BY <1>1
<1> QED BY <1>1, <1>4, <1>5 DEF StandsAt

\* Copying a stretch is accounted for.
LEMMA CopyAccounted ==
  ASSUME NEW B, NEW source \in Seq(B), NEW values, NEW s, IsBuilt(s), AccountTrue(B, source, values, s),
         NEW p \in s.cursor..Len(source)
  PROVE  AccountTrue(B, source, values, AppendOriginal(source, s, p))
<1> DEFINE c == s.cursor
           o == s.output
           w == SubSeq(source, c + 1, p)
           r == Span(c, p)
           t == AppendOriginal(source, s, p)
<1>1. c \in 0..Len(source) /\ Len(source) \in Nat /\ o \in Seq(B) /\ p \in Nat /\ c \in Nat /\ c <= p /\ p <= Len(source)
  BY DEF AccountTrue
<1>2. CASE p = c
  BY <1>1, <1>2 DEF AppendOriginal
<1>3. CASE p # c
  <2>1. ~(p <= s.cursor) /\ c < p
    BY <1>1, <1>3
  <2>2. r.start = c /\ r.end = p /\ SliceOf(source, r) = w
    BY DEF Span, SliceOf
  <2>3. w \in Seq(B) /\ Len(w) = p - c
    <3>1. c + 1 \in Int /\ p \in Int /\ (\A i \in (c + 1)..p : i \in 1..Len(source)) /\ c + 1 <= p /\ p - (c + 1) + 1 = p - c
      BY <1>1, <2>1
    <3>2. \A i \in (c + 1)..p : source[i] \in B
      BY <3>1, ElementOfSeq
    <3> QED BY <3>1, <3>2, SubSeqProperties
  <2> DEFINE u == Span(Len(o), Len(o) + Len(w))
             e == [kind |-> "original", original |-> {r}, updated |-> {u}, by |-> 0]
  <2>4. Len(s.output) + (p - s.cursor) = Len(o) + Len(w)
    BY <2>3
  <2>5. t = [s EXCEPT !.cursor = p, !.output = o \o w, !.entries = Append(s.entries, e)]
    <3>1. SliceOf(source, Span(s.cursor, p)) = w
      BY <2>2
    <3>2. ProvenanceEntry("original", {Span(s.cursor, p)}, {Span(Len(s.output), Len(s.output) + p - s.cursor)}, 0) = e
      <4>1. Span(Len(s.output), Len(s.output) + p - s.cursor) = u
        BY <2>4
      <4> HIDE DEF u
      <4> QED BY <4>1 DEF ProvenanceEntry
    <3>3. t = [s EXCEPT !.cursor = p, !.output = s.output \o SliceOf(source, Span(s.cursor, p)),
                 !.entries = Append(s.entries, ProvenanceEntry("original", {Span(s.cursor, p)},
                                                  {Span(Len(s.output), Len(s.output) + p - s.cursor)}, 0))]
      BY <2>1 DEF AppendOriginal
    <3> HIDE DEF t, e, w
    <3> QED BY <3>1, <3>2, <3>3
  <2> HIDE DEF t, w, r
  <2>6. t.cursor = p /\ t.output = o \o w /\ t.entries = Append(s.entries, e)
    <3> DEFINE y == o \o w
               z == Append(s.entries, e)
    <3> HIDE DEF y, z
    <3>1. t = [s EXCEPT !.cursor = p, !.output = y, !.entries = z]
      BY <2>5 DEF y, z
    <3>2. t = [cursor |-> p, output |-> y, entries |-> z]
      BY <3>1 DEF IsBuilt
    <3>3. t.cursor = p /\ t.output = y /\ t.entries = z
      BY <3>2
    <3> QED BY <3>3 DEF y, z
  <2>7. StandsAt(o, w, u)
    <3>1. u.start = Len(o) /\ u.end = Len(o) + Len(w)
      BY DEF Span
    <3> HIDE DEF u
    <3> QED BY <1>1, <2>3, <3>1, AddedStands
  <2> HIDE DEF u
  <2>8. e.kind = "original" /\ e.original = {r} /\ e.updated = {u}
    OBVIOUS
  <2> HIDE DEF e
  <2>9. \A q \in Nat : TakesByte(e, q) <=> c <= q /\ q < p
    <3> TAKE q \in Nat
    <3>1. TakesByte(e, q) <=> q \in c..p - 1
      BY <2>2, <2>8 DEF TakesByte
    <3> QED BY <1>1, <3>1
  <2>10. \A q \in Nat : MakesByte(e, q) <=> Len(o) <= q /\ q < Len(o) + Len(w)
    <3> TAKE q \in Nat
    <3>1. MakesByte(e, q) <=> q \in u.start..u.end - 1
      BY <2>8 DEF MakesByte
    <3> QED BY <2>7, <3>1 DEF StandsAt
  <2>11. EntryTrue(source, values, o \o w, e)
    <3>1. Traceable(source, values, e)
      <4>1. r.start \in 0..Len(source) /\ r.end \in r.start..Len(source)
        BY <1>1, <2>2
      <4> QED BY <2>8, <4>1 DEF Traceable
    <3> QED BY <2>2, <2>7, <2>8, <3>1 DEF EntryTrue, Tells, StandsAt
  <2>12. t.cursor \in s.cursor..Len(source)
    BY <2>6
  <2>13. AccountTrue(B, source, values, t)
    BY <2>3, <2>6, <2>9, <2>10, <2>11, <2>12, EntryAdded
  <2> QED BY <2>13 DEF t
<1> QED BY <1>1, <1>2, <1>3

\* An insertion is accounted for.
LEMMA InsertionAccounted ==
  ASSUME NEW B, NEW source \in Seq(B), NEW values, InsertsBytes(B, values), ToldTruly(source, values),
         NEW s, IsBuilt(s), AccountTrue(B, source, values, s), NEW i \in DOMAIN values, NEW x \in values[i].insertion
  PROVE  AccountTrue(B, source, values, AppendInsertion(s, x, i))
<1> DEFINE o == s.output
           w == x.bytes
           u == Span(Len(o), Len(o) + Len(w))
           e == [kind |-> x.origin, original |-> x.original, updated |-> {u}, by |-> i]
           t == AppendInsertion(s, x, i)
<1>1. s.cursor \in 0..Len(source) /\ Len(source) \in Nat /\ o \in Seq(B) /\ w \in Seq(B)
  BY DEF AccountTrue, InsertsBytes
<1>2. t = [s EXCEPT !.output = o \o w, !.entries = Append(s.entries, e)]
  BY DEF AppendInsertion, ProvenanceEntry
<1> HIDE DEF t
<1>3. t.cursor = s.cursor /\ t.output = o \o w /\ t.entries = Append(s.entries, e)
  <2> DEFINE y == o \o w
             z == Append(s.entries, e)
  <2> HIDE DEF y, z
  <2>1. t = [s EXCEPT !.output = y, !.entries = z]
    BY <1>2 DEF y, z
  <2>2. t = [cursor |-> s.cursor, output |-> y, entries |-> z]
    BY <2>1 DEF IsBuilt
  <2>3. t.cursor = s.cursor /\ t.output = y /\ t.entries = z
    BY <2>2
  <2> QED BY <2>3 DEF y, z
<1>4. StandsAt(o, w, u)
  <2>1. u.start = Len(o) /\ u.end = Len(o) + Len(w)
    BY DEF Span
  <2> HIDE DEF u
  <2> QED BY <1>1, <2>1, AddedStands
<1> HIDE DEF u
<1>5. e.kind = x.origin /\ e.original = x.original /\ e.updated = {u} /\ e.by = i
  OBVIOUS
<1> HIDE DEF e
<1>6. \A q \in Nat : TakesByte(e, q) <=> s.cursor <= q /\ q < t.cursor
  <2> TAKE q \in Nat
  <2>1. ~TakesByte(e, q)
    BY <1>5 DEF TakesByte, ToldTruly
  <2> QED BY <1>1, <1>3, <2>1
<1>7. \A q \in Nat : MakesByte(e, q) <=> Len(o) <= q /\ q < Len(o) + Len(w)
  <2> TAKE q \in Nat
  <2>1. MakesByte(e, q) <=> q \in u.start..u.end - 1
    BY <1>5 DEF MakesByte
  <2> QED BY <1>4, <2>1 DEF StandsAt
<1>8. EntryTrue(source, values, o \o w, e)
  <2>1. CASE x.origin = "moved"
    <3>1. PICK a : /\ x.original = {a} /\ SliceOf(source, a) = w
                   /\ a.start \in 0..Len(source) /\ a.end \in a.start..Len(source)
      BY <2>1 DEF ToldTruly
    <3>2. Traceable(source, values, e)
      BY <1>5, <2>1, <3>1 DEF Traceable
    <3> QED BY <1>4, <1>5, <2>1, <3>1, <3>2 DEF EntryTrue, Tells, StandsAt
  <2>2. CASE x.origin \in {"fragment", "generated"}
    <3>1. Traceable(source, values, e)
      BY <1>5, <2>2 DEF Traceable, ToldTruly
    <3> QED BY <1>4, <1>5, <2>2, <3>1 DEF EntryTrue, Tells, StandsAt
  <2> QED BY <2>1, <2>2 DEF ToldTruly
<1>9. t.cursor \in s.cursor..Len(source)
  BY <1>1, <1>3
<1>10. AccountTrue(B, source, values, t)
  BY <1>1, <1>3, <1>6, <1>7, <1>8, <1>9, EntryAdded
<1> QED BY <1>10 DEF t

\* A removal from the cursor on is accounted for.
LEMMA RemovalAccounted ==
  ASSUME NEW B, NEW source \in Seq(B), NEW values, NEW s, IsBuilt(s), AccountTrue(B, source, values, s),
         NEW i, NEW r, r.start = s.cursor, r.end \in s.cursor..Len(source)
  PROVE  AccountTrue(B, source, values, Skip(s, r, i))
<1> DEFINE c == s.cursor
           o == s.output
           e == [kind |-> "removed", original |-> {r}, updated |-> {}, by |-> i]
           t == Skip(s, r, i)
<1>1. c \in 0..Len(source) /\ Len(source) \in Nat /\ o \in Seq(B) /\ c \in Nat /\ r.end \in Nat /\ c <= r.end
  BY DEF AccountTrue
<1>2. Max({c, r.end}) = r.end
  <2>1. r.end \in {c, r.end} /\ \A y \in {c, r.end} : r.end >= y
    BY <1>1
  <2>2. \A m \in {c, r.end} : (\A y \in {c, r.end} : m >= y) => m = r.end
    BY <1>1
  <2> QED BY <2>1, <2>2 DEF Max
<1>3. t = [s EXCEPT !.cursor = r.end, !.entries = Append(s.entries, e)]
  BY <1>2 DEF Skip, ProvenanceEntry
<1> HIDE DEF t
<1>4. t.cursor = r.end /\ t.output = o /\ t.entries = Append(s.entries, e)
  <2> DEFINE z == Append(s.entries, e)
  <2> HIDE DEF z
  <2>1. t = [s EXCEPT !.cursor = r.end, !.entries = z]
    BY <1>3 DEF z
  <2>2. t = [cursor |-> r.end, output |-> s.output, entries |-> z]
    BY <2>1 DEF IsBuilt
  <2>3. t.cursor = r.end /\ t.output = o /\ t.entries = z
    BY <2>2
  <2> QED BY <2>3 DEF z
<1>5. e.kind = "removed" /\ e.original = {r} /\ e.updated = {}
  OBVIOUS
<1> HIDE DEF e
<1>6. \A q \in Nat : TakesByte(e, q) <=> c <= q /\ q < t.cursor
  <2> TAKE q \in Nat
  <2>1. TakesByte(e, q) <=> q \in c..r.end - 1
    BY <1>5 DEF TakesByte
  <2> QED BY <1>1, <1>4, <2>1
<1>7. <<>> \in Seq(B) /\ Len(<<>>) = 0 /\ o \o <<>> = o /\ Len(o) \in Nat
  BY <1>1, EmptySeq, ConcatEmptySeq
<1>8. \A q \in Nat : MakesByte(e, q) <=> Len(o) <= q /\ q < Len(o) + Len(<<>>)
  <2> TAKE q \in Nat
  <2>1. ~MakesByte(e, q)
    BY <1>5 DEF MakesByte
  <2> QED BY <1>7, <2>1
<1>9. EntryTrue(source, values, t.output, e)
  BY <1>5 DEF EntryTrue, Tells, Traceable
<1>10. t.cursor \in s.cursor..Len(source) /\ t.output = o \o <<>>
  BY <1>4, <1>7
<1>11. AccountTrue(B, source, values, t)
  BY <1>4, <1>6, <1>7, <1>8, <1>9, <1>10, EntryAdded
<1> QED BY <1>11 DEF t

\* One step of the building is accounted for.
LEMMA AccountStep ==
  ASSUME NEW B, NEW source \in Seq(B), NEW values, WellFormed(Len(source), values), InsertsBytes(B, values),
         ToldTruly(source, values), Disjoint(values), NEW ev, NEW n, Enumerates(Events(values), ev, n),
         NEW k \in Nat, k < n, NEW s, BuildTrue(source, values, ev, n, k, s), AccountTrue(B, source, values, s)
  PROVE  AccountTrue(B, source, values, At(values, AppendOriginal(source, s, ev[k + 1][1]), ev[k + 1]))
<1> DEFINE size == Len(source)
           e == ev[k + 1]
           p == ev[k + 1][1]
           a == AppendOriginal(source, s, p)
<1>1. /\ size \in Nat /\ n \in Nat /\ k \in 0..n /\ k + 1 \in 1..n /\ k + 1 \in (k + 1)..n
      /\ \A j \in (k + 1)..n : j = k + 1 \/ (j \in 1..n /\ k + 1 < j)
  BY DEF Enumerates
<1>2. /\ e \in Events(values) /\ p \in 0..size /\ p \in Nat /\ e[2] \in {0, 1} /\ e[3] \in DOMAIN values
      /\ e[2] = 0 => \E x \in values[e[3]].insertion : x.at = p
      /\ e[2] = 1 => \E r \in values[e[3]].removal : r.start = p
  <2>1. e \in Events(values)
    BY <1>1 DEF Enumerates
  <2> QED BY <1>1, <2>1, EventsAre
<1>3. \A j \in (k + 1)..n : p <= ev[j][1]
  <2> SUFFICES ASSUME NEW j \in (k + 1)..n PROVE p <= ev[j][1]
    OBVIOUS
  <2>1. CASE j = k + 1
    BY <1>2, <2>1
  <2>2. CASE j \in 1..n /\ k + 1 < j
    BY <1>1, <2>2, StepsApart
  <2> QED BY <1>1, <2>1, <2>2
<1>4. s.cursor <= p /\ s.cursor \in 0..size /\ IsBuilt(s)
  BY <1>1 DEF BuildTrue, Placed
<1>5. BuildTrue(source, values, ev, n, k, a) /\ a.cursor = p
  BY <1>1, <1>2, <1>3, <1>4, CopyStep
<1>6. AccountTrue(B, source, values, a)
  <2>1. p \in s.cursor..Len(source)
    BY <1>1, <1>2, <1>4
  <2> QED BY <1>4, <2>1, CopyAccounted
<1> HIDE DEF a
<1>7. IsBuilt(a)
  BY <1>5 DEF BuildTrue
<1>8. CASE e[2] = 0
  <2>1. PICK x \in values[e[3]].insertion : x = CHOOSE y \in values[e[3]].insertion : TRUE
    BY <1>2, <1>8
  <2>2. At(values, a, e) = AppendInsertion(a, x, e[3])
    BY <1>8, <2>1 DEF At
  <2>3. AccountTrue(B, source, values, AppendInsertion(a, x, e[3]))
    BY <1>2, <1>6, <1>7, <2>1, InsertionAccounted
  <2> QED BY <2>2, <2>3 DEF a
<1>9. CASE e[2] = 1
  <2>1. PICK r \in values[e[3]].removal : r = CHOOSE y \in values[e[3]].removal : TRUE
    BY <1>2, <1>9
  <2>2. r.start = p /\ r.end \in p..size
    BY <1>1, <1>2, <1>9, <2>1 DEF WellFormed
  <2>3. At(values, a, e) = Skip(a, r, e[3])
    BY <1>9, <2>1 DEF At
  <2>4. r.start = a.cursor /\ r.end \in a.cursor..Len(source)
    BY <1>5, <2>2
  <2>5. AccountTrue(B, source, values, Skip(a, r, e[3]))
    BY <1>6, <1>7, <2>4, RemovalAccounted
  <2> QED BY <2>3, <2>5 DEF a
<1> QED BY <1>2, <1>8, <1>9

\* So what is built is accounted for, up to the end of the source.
LEMMA BuiltAccounted ==
  ASSUME NEW B, NEW source \in Seq(B), NEW values, WellFormed(Len(source), values), InsertsBytes(B, values),
         ToldTruly(source, values), Disjoint(values)
  PROVE  AccountTrue(B, source, values, Build(source, values)) /\ Build(source, values).cursor = Len(source)
<1> DEFINE size == Len(source)
           ev == Swept(values)
           n == Len(ev)
           start == [cursor |-> 0, output |-> <<>>, entries |-> <<>>]
           after == Building(source, values)
           so(m) == BuildTrue(source, values, ev, n, m, after[m]) /\ AccountTrue(B, source, values, after[m])
           Odd == {m \in 0..n : ~so(m)}
<1>1. Enumerates(Events(values), ev, n) /\ size \in Nat
  BY EventsAre, SweptEnumerates DEF Enumerates
<1>2. n \in Nat
  BY <1>1 DEF Enumerates
<1>3. after = [i \in 0..n |-> IF i = 0 THEN start ELSE At(values, AppendOriginal(source, after[i - 1], ev[i][1]), ev[i])]
  <2>1. \E h : Constructs(h, source, values, ev, start, n)
    BY <1>2, BuildingExists
  <2> QED BY <2>1 DEF Building, Constructs
<1>4. \A j \in 1..n : ev[j] \in Events(values) /\ ev[j][1] \in 0..size
  BY <1>1, EventsAre DEF Enumerates
<1> HIDE DEF ev, n, after
<1>5. BuildTrue(source, values, ev, n, 0, start)
  <2>1. UpTo(source, values)[0] = <<>> /\ ~Inserted(ev, 0, 0)
    BY PrefixIs DEF Inserted
  <2>2. IsBuilt(start) /\ start.cursor = 0 /\ start.output = <<>>
    BY DEF IsBuilt
  <2>3. Made(source, values, ev, 0, 0) = <<>>
    <3>1. <<>> \o <<>> = <<>>
      BY EmptySeq, ConcatEmptySeq
    <3> QED BY <2>1, <3>1 DEF Made
  <2>4. Placed(size, values, ev, n, 0, 0)
    BY <1>1, <1>2, <1>4 DEF Placed
  <2> HIDE DEF start
  <2> QED BY <2>2, <2>3, <2>4 DEF BuildTrue
<1>6. AccountTrue(B, source, values, start)
  <2>1. start.cursor = 0 /\ start.output = <<>> /\ start.entries = <<>>
    OBVIOUS
  <2> HIDE DEF start
  <2>2. <<>> \in Seq(B) /\ Len(<<>>) = 0 /\ DOMAIN <<>> = {}
    BY EmptySeq
  <2> QED BY <1>1, <2>1, <2>2 DEF AccountTrue, TakenNever, MadeNever
<1> HIDE DEF start
<1>7. Odd = {}
  <2> SUFFICES ASSUME Odd # {} PROVE FALSE
    OBVIOUS
  <2>1. PICK m \in Odd : \A k \in Odd : m <= k
    <3>1. Odd \subseteq Nat
      OBVIOUS
    <3> QED BY <3>1, LeastNatural
  <2>2. m # 0
    BY <1>2, <1>3, <1>5, <1>6, <2>1
  <2>3. m - 1 \in Nat /\ m - 1 < n /\ m - 1 \in 0..n /\ so(m - 1)
    BY <1>2, <2>1, <2>2
  <2>4. (m - 1) + 1 = m /\ after[m] = At(values, AppendOriginal(source, after[m - 1], ev[m][1]), ev[m])
    <3>1. m \in 0..n /\ m \in Nat
      BY <1>2, <2>1
    <3>2. after[m] = IF m = 0 THEN start ELSE At(values, AppendOriginal(source, after[m - 1], ev[m][1]), ev[m])
      BY <1>3, <3>1
    <3> QED BY <2>2, <3>1, <3>2
  <2>5. BuildTrue(source, values, ev, n, (m - 1) + 1,
                  At(values, AppendOriginal(source, after[m - 1], ev[(m - 1) + 1][1]), ev[(m - 1) + 1]))
    BY <1>1, <2>3, BuildStep
  <2>6. AccountTrue(B, source, values, At(values, AppendOriginal(source, after[m - 1], ev[(m - 1) + 1][1]), ev[(m - 1) + 1]))
    BY <1>1, <2>3, AccountStep
  <2> QED BY <2>1, <2>4, <2>5, <2>6
<1>8. so(n)
  BY <1>2, <1>7
<1>9. after[n].cursor \in 0..size /\ IsBuilt(after[n])
  BY <1>8 DEF BuildTrue, Placed
<1> DEFINE b == AppendOriginal(source, after[n], size)
<1>10. b.cursor = size
  <2>1. /\ n \in 0..n /\ size \in 0..size /\ after[n].cursor <= size
        /\ \A j \in (n + 1)..n : size <= ev[j][1]
    BY <1>1, <1>2, <1>9
  <2> QED BY <1>1, <1>8, <2>1, CopyStep
<1>11. AccountTrue(B, source, values, b)
  <2>1. size \in after[n].cursor..Len(source)
    BY <1>1, <1>9
  <2> QED BY <1>8, <1>9, <2>1, CopyAccounted
<1>12. Build(source, values) = b
  BY DEF Build, after, n, ev
<1> QED BY <1>10, <1>11, <1>12

\* An account in which each offset is of one entry.
LEMMA AccountsAreWhole ==
  ASSUME NEW B, NEW source \in Seq(B), NEW values, NEW s, AccountTrue(B, source, values, s), s.cursor = Len(source)
  PROVE  Accounted(source, s.output, values, s.entries)
<1>1. ASSUME NEW p \in 0..(Len(source) - 1)
      PROVE  Cardinality({k \in DOMAIN s.entries : TakesByte(s.entries[k], p)}) = 1
  <2>1. p \in Nat /\ p < s.cursor
    OBVIOUS
  <2>2. PICK k \in DOMAIN s.entries : \A m \in DOMAIN s.entries : TakesByte(s.entries[m], p) <=> m = k
    BY <2>1 DEF AccountTrue, TakenOnce
  <2>3. {m \in DOMAIN s.entries : TakesByte(s.entries[m], p)} = {k}
    BY <2>2
  <2> QED BY <2>3, FS_Singleton
<1>2. ASSUME NEW p \in 0..(Len(s.output) - 1)
      PROVE  Cardinality({k \in DOMAIN s.entries : MakesByte(s.entries[k], p)}) = 1
  <2>1. p \in Nat /\ p < Len(s.output)
    BY DEF AccountTrue
  <2>2. PICK k \in DOMAIN s.entries : \A m \in DOMAIN s.entries : MakesByte(s.entries[m], p) <=> m = k
    BY <2>1 DEF AccountTrue, MadeOnce
  <2>3. {m \in DOMAIN s.entries : MakesByte(s.entries[m], p)} = {k}
    BY <2>2
  <2> QED BY <2>3, FS_Singleton
<1>3. \A k \in DOMAIN s.entries : Tells(source, s.output, values, s.entries[k])
  BY DEF AccountTrue, EntryTrue
<1> QED BY <1>1, <1>2, <1>3 DEF Accounted

\* What is told of a byte of the result is where it is from.
LEMMA OfTwo ==
  ASSUME NEW a \in Int, NEW b \in Int
  PROVE  /\ Min({a, b}) = IF a <= b THEN a ELSE b
         /\ Max({a, b}) = IF a >= b THEN a ELSE b
<1>1. \A m \in {a, b} : (\A y \in {a, b} : m <= y) => m = IF a <= b THEN a ELSE b
  OBVIOUS
<1>2. \A m \in {a, b} : (\A y \in {a, b} : m >= y) => m = IF a >= b THEN a ELSE b
  OBVIOUS
<1>3. \E m \in {a, b} : \A y \in {a, b} : m <= y
  OBVIOUS
<1>4. \E m \in {a, b} : \A y \in {a, b} : m >= y
  OBVIOUS
<1>5. Min({a, b}) = IF a <= b THEN a ELSE b
  BY <1>1, <1>3 DEF Min
<1>6. Max({a, b}) = IF a >= b THEN a ELSE b
  BY <1>2, <1>4 DEF Max
<1> QED BY <1>5, <1>6

IsPart(text, r) == r.start \in 0..Len(text) /\ r.end \in r.start..Len(text)

LEMMA PartIs ==
  ASSUME NEW B, NEW text \in Seq(B), NEW r, IsPart(text, r)
  PROVE  /\ Len(SliceOf(text, r)) = r.end - r.start
         /\ \A i \in 1..(r.end - r.start) : SliceOf(text, r)[i] = text[r.start + i]
<1>1. /\ r.start \in Nat /\ r.end \in Nat /\ r.start <= r.end /\ r.start + 1 \in Int
      /\ \A i \in (r.start + 1)..r.end : i \in 1..Len(text)
  BY DEF IsPart
<1>2. \A i \in (r.start + 1)..r.end : text[i] \in B
  BY <1>1, ElementOfSeq
<1>3. /\ Len(SubSeq(text, r.start + 1, r.end)) = IF r.start + 1 <= r.end THEN r.end - (r.start + 1) + 1 ELSE 0
      /\ \A i \in 1..(r.end - (r.start + 1) + 1) : SubSeq(text, r.start + 1, r.end)[i] = text[(r.start + 1) + i - 1]
  BY <1>1, <1>2, SubSeqProperties
<1>4. /\ (IF r.start + 1 <= r.end THEN r.end - (r.start + 1) + 1 ELSE 0) = r.end - r.start
      /\ r.end - (r.start + 1) + 1 = r.end - r.start
      /\ \A i \in 1..(r.end - r.start) : (r.start + 1) + i - 1 = r.start + i
  BY <1>1
<1> QED BY <1>3, <1>4 DEF SliceOf

\* Two parts that are the same have the same bytes.
LEMMA SameParts ==
  ASSUME NEW B, NEW text \in Seq(B), NEW output \in Seq(B), NEW o, NEW u, IsPart(text, o), IsPart(output, u),
         SliceOf(output, u) = SliceOf(text, o)
  PROVE  /\ o.end - o.start = u.end - u.start
         /\ \A i \in 1..(u.end - u.start) : text[o.start + i] = output[u.start + i]
<1>1. /\ Len(SliceOf(text, o)) = o.end - o.start
      /\ \A i \in 1..(o.end - o.start) : SliceOf(text, o)[i] = text[o.start + i]
  BY PartIs
<1>2. /\ Len(SliceOf(output, u)) = u.end - u.start
      /\ \A i \in 1..(u.end - u.start) : SliceOf(output, u)[i] = output[u.start + i]
  BY PartIs
<1> QED BY <1>1, <1>2

\* So a range of the one shows a diagnostic of the other, as far in.
LEMMA PartShows ==
  ASSUME NEW B, NEW text \in Seq(B), NEW output \in Seq(B), NEW o, NEW u, IsPart(text, o), IsPart(output, u),
         SliceOf(output, u) = SliceOf(text, o), NEW d, d.start \in Int, u.start <= d.start, d.start < u.end,
         NEW range, range.start = o.start + (d.start - u.start), range.end \in range.start..o.end
  PROVE  Shows(text, range, output, d)
<1> DEFINE size == Len(text)
           from == range.start
           to == range.end
           left == o.start
           right == o.end
           first == u.start
           last == u.end
           at == d.start
<1>1. left \in Nat /\ right \in Nat /\ first \in Nat /\ last \in Nat /\ right <= size /\ size \in Nat
  BY DEF IsPart
<1>2. right - left = last - first
  BY SameParts
<1>3. \A i \in 1..(last - first) : text[left + i] = output[first + i]
  BY SameParts
<1>4. at \in Int /\ first <= at /\ at < last /\ from = left + (at - first) /\ to \in from..right
  OBVIOUS
<1> SUFFICES /\ from \in 0..(size - 1) /\ to \in from..size
             /\ \A p \in {from} \cup from..(to - 1) : text[p + 1] = output[at + (p - from) + 1]
  BY DEF Shows
<1> HIDE DEF size, from, to, left, right, first, last, at
<1>5. from \in Int /\ to \in Int /\ from <= to /\ to <= right /\ left <= from /\ from < right
  BY <1>1, <1>2, <1>4
<1>6. from \in 0..(size - 1) /\ to \in from..size
  BY <1>1, <1>5
<1>7. ASSUME NEW p \in {from} \cup from..(to - 1)
      PROVE  text[p + 1] = output[at + (p - from) + 1]
  <2> DEFINE i == (p - left) + 1
  <2>1. p \in Int /\ from <= p /\ p < right
    <3>1. p = from \/ p \in from..(to - 1)
      BY <1>7
    <3>2. CASE p = from
      BY <1>5, <3>2
    <3>3. CASE p \in from..(to - 1)
      BY <1>1, <1>5, <3>3
    <3> QED BY <3>1, <3>2, <3>3
  <2>2. i \in 1..(last - first)
    BY <1>1, <1>2, <1>5, <2>1
  <2>3. left + i = p + 1 /\ first + i = at + (p - from) + 1
    BY <1>1, <1>4, <2>1
  <2> HIDE DEF i
  <2>4. text[left + i] = output[first + i]
    BY <1>3, <2>2
  <2> QED BY <2>3, <2>4
<1> QED BY <1>6, <1>7

\* How far into its entry a diagnostic begins, and how much of it lies in there.
GoesFar(first, last, at, end, left, right) ==
  LET offset == Min({at - first, right - left})
      length == Min({Max({0, end - at}), right - left - offset})
      start  == Max({0, at - first})
  IN  /\ offset = at - first /\ length \in 0..(right - left - offset)
      /\ start = at - first /\ Min({last - first, Max({start, end - first})}) \in start..(last - first)
LEMMA HowFar ==
  ASSUME NEW first \in Nat, NEW last \in Nat, NEW at \in Int, NEW end \in Int, first <= at, at < last,
         NEW left \in Nat, NEW right \in Nat, right - left = last - first
  PROVE  GoesFar(first, last, at, end, left, right)
<1> DEFINE far  == at - first
           all  == right - left
           wide == end - at
           to   == end - first
           zero == 0
<1>1. /\ far \in Int /\ all \in Int /\ wide \in Int /\ to \in Int /\ zero \in Int
      /\ 0 <= far /\ far <= all /\ zero = 0 /\ last - first = all
  OBVIOUS
<1> SUFFICES LET offset == Min({far, all})
                 length == Min({Max({zero, wide}), all - offset})
                 start  == Max({zero, far})
             IN  /\ offset = far /\ length \in 0..(all - offset)
                 /\ start = far /\ Min({all, Max({start, to})}) \in start..all
  BY <1>1 DEF GoesFar
<1> HIDE DEF far, all, wide, to, zero
<1> DEFINE most == Max({zero, wide})
           rest == all - far
           end2 == Max({far, to})
<1>2. Min({far, all}) = far /\ Max({zero, far}) = far
  <2>1. Min({far, all}) = IF far <= all THEN far ELSE all
    BY <1>1, OfTwo
  <2>2. Max({zero, far}) = IF zero >= far THEN zero ELSE far
    BY <1>1, OfTwo
  <2> QED BY <1>1, <2>1, <2>2
<1>3. most \in Nat /\ rest \in Nat
  <2>1. most = IF zero >= wide THEN zero ELSE wide
    BY <1>1, OfTwo
  <2> HIDE DEF most
  <2> QED BY <1>1, <2>1
<1>4. end2 \in Int /\ end2 >= far
  <2>1. end2 = IF far >= to THEN far ELSE to
    BY <1>1, OfTwo
  <2> HIDE DEF end2
  <2> QED BY <1>1, <2>1
<1> HIDE DEF most, rest, end2
<1>5. Min({most, rest}) \in 0..rest
  <2>1. Min({most, rest}) = IF most <= rest THEN most ELSE rest
    BY <1>3, OfTwo
  <2> QED BY <1>3, <2>1
<1>6. Min({all, end2}) \in far..all
  <2>1. Min({all, end2}) = IF all <= end2 THEN all ELSE end2
    BY <1>1, <1>4, OfTwo
  <2> QED BY <1>1, <1>4, <2>1
<1> QED BY <1>2, <1>5, <1>6 DEF most, rest, end2

\* A diagnostic is led back by the entry that tells of its first byte.
LEMMA EntryLeadsBack ==
  ASSUME NEW B, NEW source \in Seq(B), NEW output \in Seq(B), NEW values, InsertsBytes(B, values),
         NEW es, NEW k \in Nat, EntryTrue(source, values, output, es[k]),
         NEW d, d.start \in Int, d.end \in Int,
         {m \in DOMAIN es : \E u \in es[m].updated : u.start <= d.start /\ d.start < u.end} = {k}
  PROVE  LeadsBack(source, output, values, d, MapDiagnostic(d, es, values))
<1> DEFINE within == {m \in DOMAIN es : \E u \in es[m].updated : u.start <= d.start /\ d.start < u.end}
           e == es[k]
           told == MapDiagnostic(d, es, values)
<1>1. Min(within) = k
  <2>1. within \subseteq 0..k /\ within # {}
    OBVIOUS
  <2> QED BY <2>1, Extremes
<1>2. PICK u \in e.updated : u.start <= d.start /\ d.start < u.end
  OBVIOUS
<1>3. Tells(source, output, values, e) /\ Traceable(source, values, e) /\ IsPart(output, u)
  BY <1>2 DEF EntryTrue, IsPart
<1>4. (CHOOSE w \in e.updated : TRUE) = u
  BY <1>2, <1>3 DEF Traceable
<1> DEFINE o == CHOOSE o \in e.original : TRUE
           offset == Min({d.start - u.start, o.end - o.start})
           length == Min({Max({0, d.end - d.start}), o.end - o.start - offset})
           start == Max({0, d.start - u.start})
           end == Min({u.end - u.start, Max({start, d.end - u.start})})
           shown == Span(o.start + offset, o.start + offset + length)
           part == Span(start, end)
           v == values[e.by]
           kind == e.kind
           none == [kind |-> "none"]
           inSource == [kind |-> "original_source", range |-> shown]
           inFragment == [kind |-> "fragment", editId |-> v.editId, range |-> part]
           inTarget == [kind |-> "generated", editId |-> v.editId, target |-> v.targets[1]]
<1>5. told = IF within = {} THEN none
             ELSE CASE kind \in {"original", "moved"}             -> inSource
                    [] kind = "fragment"                          -> inFragment
                    [] kind = "generated" /\ v.targets # <<>>     -> inTarget
                    [] OTHER                                      -> none
  BY <1>1, <1>4 DEF MapDiagnostic
<1>6. within # {}
  OBVIOUS
<1>10. /\ inSource.kind = "original_source" /\ inSource.range = shown
       /\ inFragment.kind = "fragment" /\ inFragment.editId = v.editId /\ inFragment.range = part
       /\ inTarget.kind = "generated" /\ inTarget.editId = v.editId /\ inTarget.target = v.targets[1]
       /\ none.kind = "none"
  <2> HIDE DEF shown, part, v
  <2> QED OBVIOUS
<1> HIDE DEF none, inSource, inFragment, inTarget, kind, told, within
<1>11. kind \in {"original", "moved"} => told = inSource
  BY <1>5, <1>6
<1>13. kind = "fragment" => told = inFragment
  BY <1>5, <1>6
<1>12. kind = "generated" => told = IF v.targets # <<>> THEN inTarget ELSE none
  BY <1>5, <1>6
<1> HIDE DEF o, offset, length, start, end, shown, part, v
<1>7. u.start \in Nat /\ u.end \in Nat
  BY <1>3 DEF IsPart
<1>8. CASE e.kind \in {"original", "moved"}
  <2>1. PICK r : e.original = {r} /\ r.start \in 0..Len(source) /\ r.end \in r.start..Len(source)
    BY <1>2, <1>3, <1>8 DEF Traceable
  <2>2. o = r
    BY <2>1 DEF o
  <2>3. IsPart(source, o) /\ SliceOf(output, u) = SliceOf(source, o)
    BY <1>2, <1>3, <1>8, <2>1, <2>2 DEF Tells, IsPart
  <2>4. told = inSource
    BY <1>8, <1>11 DEF kind
  <2>5. o.start \in Nat /\ o.end \in Nat
    BY <2>3 DEF IsPart
  <2>6. o.end - o.start = u.end - u.start
    BY <1>3, <2>3, SameParts
  <2>7. offset = d.start - u.start /\ length \in 0..(o.end - o.start - offset)
    <3> DEFINE first == u.start
               last == u.end
               at == d.start
               till == d.end
               left == o.start
               right == o.end
    <3>1. /\ first \in Nat /\ last \in Nat /\ at \in Int /\ till \in Int /\ first <= at /\ at < last
          /\ left \in Nat /\ right \in Nat /\ right - left = last - first
      BY <1>2, <1>7, <2>5, <2>6
    <3> SUFFICES LET far  == Min({at - first, right - left})
                     wide == Min({Max({0, till - at}), right - left - far})
                 IN  far = at - first /\ wide \in 0..(right - left - far)
      BY DEF offset, length
    <3> HIDE DEF first, last, at, till, left, right
    <3>2. GoesFar(first, last, at, till, left, right)
      BY <3>1, HowFar
    <3> QED BY <3>2 DEF GoesFar
  <2>8. shown.start = o.start + (d.start - u.start) /\ shown.end \in shown.start..o.end
    <3> DEFINE left == o.start
               right == o.end
               far == d.start - u.start
    <3>1. left \in Nat /\ right \in Nat /\ far \in Int /\ offset = far /\ length \in 0..(right - left - offset)
      BY <1>7, <2>5, <2>7
    <3>2. shown.start = left + offset /\ shown.end = left + offset + length
      BY DEF shown, Span
    <3> HIDE DEF left, right, far
    <3>3. left + offset + length \in (left + offset)..right
      BY <3>1
    <3>4. shown.start = left + far /\ shown.end \in shown.start..right
      BY <3>1, <3>2, <3>3
    <3> QED BY <3>4 DEF left, right, far
  <2>9. Shows(source, shown, output, d)
    BY <1>2, <1>3, <2>3, <2>8, PartShows
  <2>10. told.kind = "original_source" /\ told.range = shown
    BY <1>10, <2>4
  <2> QED BY <2>9, <2>10 DEF LeadsBack, told
<1>9. CASE e.kind \in {"fragment", "generated"}
  <2>1. e.by \in DOMAIN values /\ \A x \in v.insertion : x.origin = e.kind
    BY <1>2, <1>3, <1>9 DEF Traceable, v
  <2>2. PICK x \in v.insertion : SliceOf(output, u) = x.bytes
    BY <1>2, <1>3, <1>9 DEF Tells, v
  <2> DEFINE all == Span(0, Len(x.bytes))
  <2>3. x.bytes \in Seq(B) /\ Len(x.bytes) \in Nat /\ DOMAIN x.bytes = 1..Len(x.bytes)
    <3>1. x.bytes \in Seq(B)
      BY <2>1, <2>2 DEF InsertsBytes, v
    <3> QED BY <3>1, LenProperties
  <2>4. IsPart(x.bytes, all) /\ SliceOf(x.bytes, all) = x.bytes /\ all.start = 0 /\ all.end = Len(x.bytes)
    <3>1. SubSeq(x.bytes, 1, Len(x.bytes)) = x.bytes
      BY <2>3, SubSeqFull
    <3>2. all.start = 0 /\ all.end = Len(x.bytes) /\ 0 + 1 = 1
      BY DEF Span
    <3> HIDE DEF all
    <3> QED BY <2>3, <3>1, <3>2 DEF IsPart, SliceOf
  <2> HIDE DEF all
  <2>5. all.end - all.start = u.end - u.start /\ \A i \in 1..(u.end - u.start) : x.bytes[all.start + i] = output[u.start + i]
    BY <1>3, <2>2, <2>3, <2>4, SameParts
  <2>6. x.origin = e.kind
    BY <2>1, <2>2
  <2>7. CASE e.kind = "fragment"
    <3>1. told = inFragment
      BY <1>13, <2>7 DEF kind
    <3>2. start = d.start - u.start /\ end \in start..(u.end - u.start)
      <4>1. all.start \in Nat /\ all.end \in Nat
        BY <2>3, <2>4
      <4> QED BY <1>2, <1>7, <2>5, <4>1, HowFar DEF start, end, GoesFar
    <3>3. part.start = all.start + (d.start - u.start) /\ part.end \in part.start..all.end
      <4> DEFINE far == d.start - u.start
                 width == u.end - u.start
      <4>1. far \in Int /\ width \in Int /\ start = far /\ end \in start..width /\ all.start = 0 /\ all.end - all.start = width
        BY <1>7, <2>4, <2>5, <3>2
      <4>2. part.start = start /\ part.end = end
        BY DEF part, Span
      <4> HIDE DEF far, width
      <4>3. all.end = width
        BY <2>3, <2>4, <4>1
      <4>4. part.start = all.start + far /\ part.end \in part.start..all.end
        BY <4>1, <4>2, <4>3
      <4> QED BY <4>4 DEF far
    <3>4. Shows(x.bytes, part, output, d)
      BY <1>2, <1>3, <2>2, <2>3, <2>4, <3>3, PartShows
    <3>5. told.kind = "fragment" /\ told.editId = v.editId /\ told.range = part
      BY <1>10, <3>1
    <3>6. ToldOfEdit(output, v, d, told)
      BY <2>2, <2>6, <2>7, <3>4, <3>5 DEF ToldOfEdit
    <3> QED BY <2>1, <3>5, <3>6 DEF LeadsBack, told, v
  <2>8. CASE e.kind = "generated" /\ v.targets # <<>>
    <3>1. told = inTarget
      BY <1>12, <2>8 DEF kind
    <3>2. told.kind = "generated" /\ told.editId = v.editId /\ told.target = v.targets[1]
      BY <1>10, <3>1
    <3> DEFINE first == u.start
               last == u.end
               at == d.start
               i == (at - first) + 1
    <3>3. /\ first \in Nat /\ last \in Nat /\ at \in Int /\ first <= at /\ at < last
          /\ \A j \in 1..(last - first) : x.bytes[all.start + j] = output[first + j]
          /\ all.start = 0 /\ DOMAIN x.bytes = 1..Len(x.bytes) /\ all.end = Len(x.bytes) /\ all.end - all.start = last - first
      BY <1>2, <1>7, <2>3, <2>4, <2>5
    <3> HIDE DEF first, last, at
    <3>4. i \in 1..(last - first) /\ first + i = at + 1 /\ 0 + i = i
      BY <3>3
    <3>5. DOMAIN x.bytes = 1..(last - first)
      BY <2>3, <3>3
    <3> HIDE DEF i
    <3>6. i \in DOMAIN x.bytes /\ x.bytes[i] = output[at + 1]
      BY <3>3, <3>4, <3>5
    <3>7. ToldOfEdit(output, v, d, told)
      BY <2>2, <2>6, <2>8, <3>2, <3>6 DEF ToldOfEdit, at
    <3> QED BY <2>1, <3>2, <3>7 DEF LeadsBack, told, v
  <2>9. CASE e.kind = "generated" /\ v.targets = <<>>
    <3>1. told = none
      BY <1>12, <2>9 DEF kind
    <3>2. told.kind = "none"
      BY <1>10, <3>1
    <3>3. ToldOfEdit(output, v, d, told)
      BY <2>9, <3>2 DEF ToldOfEdit
    <3> QED BY <2>1, <3>2, <3>3 DEF LeadsBack, told, v
  <2> QED BY <1>9, <2>7, <2>8, <2>9
<1> QED BY <1>2, <1>3, <1>8, <1>9 DEF Traceable

\* So every diagnostic of the result is, since each byte is of one entry.
LEMMA AccountsLeadBack ==
  ASSUME NEW B, NEW source \in Seq(B), NEW values, InsertsBytes(B, values), NEW s, AccountTrue(B, source, values, s)
  PROVE  MappedBack(source, s.output, values, s.entries)
<1> SUFFICES ASSUME NEW start \in 0..(Len(s.output) - 1), NEW end \in 0..Len(s.output)
             PROVE  LET d == [start |-> start, end |-> end]
                    IN  LeadsBack(source, s.output, values, d, MapDiagnostic(d, s.entries, values))
  BY DEF MappedBack
<1> DEFINE d == [start |-> start, end |-> end]
<1>1. d.start = start /\ d.end = end
  OBVIOUS
<1> HIDE DEF d
<1>2. s.output \in Seq(B) /\ start \in Nat /\ start < Len(s.output) /\ d.start \in Int /\ d.end \in Int
  BY <1>1 DEF AccountTrue
<1>3. PICK k \in DOMAIN s.entries : \A m \in DOMAIN s.entries : MakesByte(s.entries[m], start) <=> m = k
  BY <1>2 DEF AccountTrue, MadeOnce
<1>4. k \in Nat
  <2>1. PICK S : s.entries \in Seq(S)
    BY DEF AccountTrue
  <2> QED BY <2>1, LenProperties
<1>5. EntryTrue(source, values, s.output, s.entries[k])
  BY DEF AccountTrue
<1>6. {m \in DOMAIN s.entries : \E u \in s.entries[m].updated : u.start <= d.start /\ d.start < u.end} = {k}
  <2>1. ASSUME NEW m \in DOMAIN s.entries
        PROVE  (\E u \in s.entries[m].updated : u.start <= d.start /\ d.start < u.end) <=> m = k
    <3>1. \A u \in s.entries[m].updated : u.start \in Nat /\ u.end \in Nat
      <4>1. EntryTrue(source, values, s.output, s.entries[m]) /\ Len(s.output) \in Nat
        BY <1>2 DEF AccountTrue
      <4> QED BY <4>1 DEF EntryTrue
    <3>2. \A u \in s.entries[m].updated : u.start <= d.start /\ d.start < u.end <=> start \in u.start..u.end - 1
      BY <1>1, <1>2, <3>1
    <3> QED BY <1>3, <3>2 DEF MakesByte
  <2> QED BY <2>1
<1>7. LeadsBack(source, s.output, values, d, MapDiagnostic(d, s.entries, values))
  BY <1>2, <1>4, <1>5, <1>6, EntryLeadsBack
<1> QED BY <1>7 DEF d

\* What edits insert is not told to be of the source, except what they move.
LEMMA NormalIsTold ==
  ASSUME NEW B, NEW source \in Seq(B), NEW batch, IsBatch(B, source, batch), \A i \in DOMAIN batch : Valid(source, batch[i])
  PROVE  ToldTruly(source, [i \in DOMAIN batch |-> Normalize(source, batch[i])])
<1> DEFINE Told(set, x) == /\ x.origin \in {"moved", "fragment", "generated"} /\ \A y \in set : y = x
                           /\ x.origin = "moved" => \E o : /\ x.original = {o} /\ SliceOf(source, o) = x.bytes
                                                          /\ o.start \in 0..Len(source) /\ o.end \in o.start..Len(source)
<1> SUFFICES ASSUME NEW i \in DOMAIN batch, NEW x \in Insertion(source, batch[i])
             PROVE  Told(Insertion(source, batch[i]), x)
  BY DEF ToldTruly, Normalize
<1> DEFINE t == batch[i]
<1>1. IsTransformation(B, source, t) /\ Valid(source, t)
  BY DEF IsBatch
<1> HIDE DEF t
<1>2. CASE t.kind \in {"insert", "replace"}
  <2>1. t.content.origin \in {"fragment", "generated"}
    BY <1>1, <1>2 DEF IsTransformation
  <2>2. \E p : Insertion(source, t) = {[at |-> p, bytes |-> t.content.bytes, origin |-> t.content.origin, original |-> {}]}
    BY <1>2 DEF Insertion
  <2>3. x.origin = t.content.origin /\ \A y \in Insertion(source, t) : y = x
    BY <2>2 DEF t
  <2> QED BY <2>1, <2>3 DEF t
<1>3. CASE t.kind = "delete"
  BY <1>3 DEF Insertion, t
<1>4. CASE t.kind = "move"
  <2> DEFINE r == Moved(source, t)
             m == [at |-> t.destination, bytes |-> SliceOf(source, r), origin |-> "moved", original |-> {r}]
  <2>1. Insertion(source, t) = {m}
    BY <1>4 DEF Insertion
  <2>2. Normalize(source, t).removal = {r}
    BY <1>4 DEF Normalize, Removal
  <2> HIDE DEF r
  <2>3. m.bytes = SliceOf(source, r) /\ m.origin = "moved" /\ m.original = {r}
    OBVIOUS
  <2> HIDE DEF m
  <2>4. x = m /\ \A y \in Insertion(source, t) : y = x
    BY <2>1 DEF t
  <2>5. IsNormal(B, Len(source), Normalize(source, t))
    BY <1>1, ValidIsNormal
  <2>6. r.start \in 0..Len(source) /\ r.end \in r.start..Len(source)
    <3>1. r.start \in Nat /\ r.end \in 0..Len(source) /\ r.start < r.end
      BY <2>2, <2>5 DEF IsNormal
    <3> QED BY <3>1
  <2> QED BY <2>3, <2>4, <2>6 DEF t
<1>5. t.kind \in {"insert", "replace", "delete", "move"}
  BY <1>1 DEF IsTransformation
<1> QED BY <1>2, <1>3, <1>4, <1>5

\* The provenance of any accepted batch (source-transform.ts) is total and true: of
\* each byte of any source one entry tells that it is kept or removed, and of each
\* byte of the result one entry tells what it is, and of what is kept or moved
\* where in the source it was.  So a diagnostic of the result is told to the author
\* of the edits where its first byte is from (mapDiagnostic), and as much of it as
\* is from there.
THEOREM ProvenanceIsTotal ==
  ASSUME NEW B, problem.kind = "transforms" => problem.source \in Seq(B) /\ IsBatch(B, problem.source, problem.batch)
  PROVE  ProvenanceAccounts
<1> SUFFICES ASSUME NEW source \in Seq(B), NEW batch, NEW limits, IsBatch(B, source, batch)
             PROVE  AccountsForBytes(source, batch, limits)
  BY DEF ProvenanceAccounts
<1> DEFINE values == [i \in DOMAIN batch |-> Normalize(source, batch[i])]
           valid == \A i \in DOMAIN batch : Valid(source, batch[i])
           result == ApplySourceTransformations(source, batch, limits, <<>>)
<1>1. Answers(source, batch, limits, result)
  BY AnswersAre
<1> HIDE DEF result
<1> SUFFICES ASSUME result.status = "accepted"
             PROVE  IsTold(source, result.source, values, result.provenance)
  BY DEF AccountsForBytes, result
<1>2. /\ valid /\ FirstConflict(values) = {}
      /\ result.source = Build(source, values).output /\ result.provenance = Build(source, values).entries
  BY <1>1 DEF Answers
<1>3. WellFormed(Len(source), values) /\ InsertsBytes(B, values)
  BY <1>2, ValidBatchIsNormal
<1>4. ToldTruly(source, values)
  BY <1>2, NormalIsTold
<1> HIDE DEF values
<1>5. Disjoint(values)
  <2>1. Len(source) \in Nat
    OBVIOUS
  <2> QED BY <1>2, <1>3, <2>1, ConflictsFound
<1>6. AccountTrue(B, source, values, Build(source, values)) /\ Build(source, values).cursor = Len(source)
  BY <1>3, <1>4, <1>5, BuiltAccounted
<1>7. Accounted(source, Build(source, values).output, values, Build(source, values).entries)
  BY <1>6, AccountsAreWhole
<1>8. MappedBack(source, Build(source, values).output, values, Build(source, values).entries)
  BY <1>3, <1>6, AccountsLeadBack
<1> QED BY <1>2, <1>7, <1>8 DEF IsTold
=============================================================================

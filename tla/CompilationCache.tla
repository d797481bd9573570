-------------------------- MODULE CompilationCache --------------------------
(***************************************************************************)
(* The compilation cache of one bridge                                     *)
(* (packages/engine/src/compilation-cache.ts): a least-recently-used cache *)
(* bounded by entries and by weight, with one shared promise per key while *)
(* that key is being compiled.  A load runs in three turns of the event    *)
(* loop - the caller's, the one that stores the value, and the one that    *)
(* gives up the promise - and clear() may come between any two.            *)
(***************************************************************************)
EXTENDS Integers, SequencesExt, Sums

CONSTANTS
  Keys,        \* compilation keys
  Weights,     \* weights a compilation may have
  NoWeight,    \* weightOf gave undefined: the value is not to be kept
  MaxEntries,  \* limits.maxEntries
  MaxWeight,   \* limits.maxWeight
  MaxLoads,    \* bound: loads the model lets start
  MaxClears    \* bound: times clear() is called

ASSUME CacheAssumption ==
  /\ MaxEntries \in Nat /\ MaxWeight \in Nat
  /\ MaxLoads \in Nat /\ MaxClears \in Nat
  /\ Weights \subseteq Nat /\ NoWeight \notin Weights

VARIABLES
  entries,     \* the map, oldest first
  weight,      \* the weight kept
  generation,  \* clears so far
  pending,     \* the load of each key whose promise is shared, 0 when none is
  loads        \* every load started, with how far it has come

vars == <<entries, weight, generation, pending, loads>>

Entry == [key : Keys, weight : Weights, load : 1..MaxLoads]
Load  == [key : Keys, generation : 0..MaxClears, phase : {"loading", "settled", "done"}]

TypeOK ==
  /\ entries \in Seq(Entry)
  /\ weight \in Nat
  /\ generation \in 0..MaxClears
  /\ pending \in [Keys -> 0..MaxLoads]
  /\ loads \in Seq(Load) /\ Len(loads) <= MaxLoads

Init ==
  /\ entries = <<>> /\ weight = 0
  /\ generation = 0
  /\ pending = [k \in Keys |-> 0]
  /\ loads = <<>>

----------------------------------------------------------------------------
Total(kept) == SumOf([i \in DOMAIN kept |-> kept[i].weight])

Cached(k) == \E i \in DOMAIN entries : entries[i].key = k

\* The map holds a key once.
Without(kept, k) ==
  IF \E i \in DOMAIN kept : kept[i].key = k
  THEN RemoveAt(kept, CHOOSE i \in DOMAIN kept : kept[i].key = k)
  ELSE kept

Exceeds(kept) == Len(kept) > MaxEntries \/ Total(kept) > MaxWeight

\* Mutant: the loop looks at the number of entries only.
EvictedByCount(kept, total) ==
  LET drop == IF Len(kept) > MaxEntries THEN Len(kept) - MaxEntries ELSE 0
  IN  /\ entries' = SubSeq(kept, drop + 1, Len(kept))
      /\ weight' = total - Total(SubSeq(kept, 1, drop))

\* The eviction loop of store(): the oldest entries go, each with its weight,
\* until the counters are within the limits or nothing is left.
Evicted(kept, total) ==
  LET remains(n) == total - Total(SubSeq(kept, 1, n))
      enough(n)  == \/ Len(kept) - n <= MaxEntries /\ remains(n) <= MaxWeight
                    \/ n = Len(kept)
  IN  \E drop \in 0..Len(kept) :
        /\ enough(drop) /\ \A n \in 0..(drop - 1) : ~enough(n)
        /\ entries' = SubSeq(kept, drop + 1, Len(kept))
        /\ weight' = remains(drop)

\* store(): nothing is kept of a value that alone is over the limit.
Store(entry) ==
  LET previous == Total(entries) - Total(Without(entries, entry.key))
  IN  IF MaxEntries = 0 \/ MaxWeight = 0 \/ entry.weight > MaxWeight
      THEN UNCHANGED <<entries, weight>>
      ELSE Evicted(Append(Without(entries, entry.key), entry),
                   weight - previous + entry.weight)

\* getOrLoad: a cached key becomes the most recent, a key that is being loaded
\* shares that promise, any other starts a load.
GetOrLoad(k) ==
  \/ /\ \E i \in DOMAIN entries : /\ entries[i].key = k
                                   /\ entries' = Append(Without(entries, k), entries[i])
     /\ UNCHANGED <<weight, generation, pending, loads>>
  \/ /\ ~Cached(k) /\ pending[k] # 0
     /\ UNCHANGED vars
  \/ /\ ~Cached(k) /\ pending[k] = 0
     /\ Len(loads) < MaxLoads
     /\ loads' = Append(loads, [key |-> k, generation |-> generation, phase |-> "loading"])
     /\ pending' = [pending EXCEPT ![k] = Len(loads')]
     /\ UNCHANGED <<entries, weight, generation>>

\* Mutant: the generation is not compared.
LoadGivesStale(l, w) ==
  /\ loads[l].phase = "loading"
  /\ loads' = [loads EXCEPT ![l].phase = "settled"]
  /\ IF w # NoWeight THEN Store([key |-> loads[l].key, weight |-> w, load |-> l])
                      ELSE UNCHANGED <<entries, weight>>
  /\ UNCHANGED <<generation, pending>>

\* The load gives a value of weight w; a clear() since it began makes it stale.
LoadGives(l, w) ==
  /\ loads[l].phase = "loading"
  /\ loads' = [loads EXCEPT ![l].phase = "settled"]
  /\ IF loads[l].generation = generation /\ w # NoWeight
     THEN Store([key |-> loads[l].key, weight |-> w, load |-> l])
     ELSE UNCHANGED <<entries, weight>>
  /\ UNCHANGED <<generation, pending>>

\* The load, or weightOf, throws: nothing is stored.
LoadThrows(l) ==
  /\ loads[l].phase = "loading"
  /\ loads' = [loads EXCEPT ![l].phase = "settled"]
  /\ UNCHANGED <<entries, weight, generation, pending>>

\* Mutant: whoever has the key loses its promise.
GiveUpAnyPromise(l) ==
  /\ loads[l].phase = "settled"
  /\ loads' = [loads EXCEPT ![l].phase = "done"]
  /\ pending' = [pending EXCEPT ![loads[l].key] = 0]
  /\ UNCHANGED <<entries, weight, generation>>

\* finally: the promise is given up unless a later one has its key.
GiveUpPromise(l) ==
  /\ loads[l].phase = "settled"
  /\ loads' = [loads EXCEPT ![l].phase = "done"]
  /\ pending' = IF pending[loads[l].key] = l
                THEN [pending EXCEPT ![loads[l].key] = 0]
                ELSE pending
  /\ UNCHANGED <<entries, weight, generation>>

Clear ==
  /\ generation < MaxClears
  /\ generation' = generation + 1
  /\ entries' = <<>> /\ weight' = 0
  /\ pending' = [k \in Keys |-> 0]
  /\ UNCHANGED loads

Next ==
  \/ \E k \in Keys : GetOrLoad(k)
  \/ \E l \in DOMAIN loads :
       \/ \E w \in Weights \cup {NoWeight} : LoadGives(l, w)
       \/ LoadThrows(l)
       \/ GiveUpPromise(l)
  \/ Clear

Spec == Init /\ [][Next]_vars

----------------------------------------------------------------------------
\* The weight counter is the weight of what is kept, every key is kept once, and
\* what is kept is within both limits.
WithinLimits ==
  /\ weight = Total(entries)
  /\ ~Exceeds(entries)
  /\ \A i, j \in DOMAIN entries : entries[i].key = entries[j].key => i = j

\* Callers that ask for a key while it is compiled share one compilation, also
\* when a load that a clear() made stale ends in the meantime.
OneLoadPerKey ==
  \A l, m \in DOMAIN loads :
    /\ l # m /\ loads[l].key = loads[m].key /\ loads[l].generation = loads[m].generation
    /\ loads[l].phase # "done"
    => loads[m].phase = "done"

\* Nothing that was cached or being compiled before a clear() is ever kept after.
NothingOutlivesClear ==
  \A i \in DOMAIN entries : loads[entries[i].load].generation = generation

=============================================================================

---------------------------- MODULE CompilingBridge ----------------------------
(***************************************************************************)
(* The compiling methods of one direct bridge over its compilation cache   *)
(* (checkCompile, engine/src/bridge.ts): each request that is not refused  *)
(* outright looks its key up, waits for the load that is running for it or *)
(* starts one, and its answer is made of what it is given there.           *)
(***************************************************************************)
EXTENDS CompilationCache, CheckPipeline

CONSTANT Requests    \* what hosts may ask

VARIABLE results     \* what each load gives, when it does not throw

bridgeVars == <<vars, results>>

NoCache == [k \in {} |-> {}]
Bare(request)  == [request EXCEPT !.cachedArtifact = {}]
Alone == [r \in Requests |-> Answer(Bare(r), NoCache)]

RequestFields ==
  {"method", "source", "registry", "slotId", "limits", "includeArtifact", "cachedArtifact", "views", "edits", "editLimits"}

Admitted == {r \in Requests : Refusal(r) = ""}

\* What a host may have kept: the artifact of a request, whole or damaged in a
\* field that is compared or digested.
Genuine ==
  {SerializeArtifact(q, Compile(q, q.source).compiled) :
     q \in {q \in Admitted : Compile(q, q.source).status = "accepted"}}
Damaged(a, b) ==
  \E field \in {"compiler", "contractDigest", "slotId", "irDigest", "program"} : a = [b EXCEPT ![field] = a[field]]

WeightOf(result) ==
  IF result.status = "accepted" THEN result.compiled.usage.sourceBytes + result.compiled.syntaxNodes * 64 ELSE NoWeight

\* A digest is of one registry, edits keep the module of a source, and views of
\* an edit request have been validated.
ASSUME RequestsAssumption ==
  /\ \A r \in Requests :
       /\ DOMAIN r = RequestFields
       /\ CompilationCacheKey(r) \in Keys
       /\ \A a \in r.cachedArtifact : \E b \in Genuine : Damaged(a, b)
       /\ r.method \in {"check", "inspect", "edit"}
       /\ r.method = "edit" => ViewsValid(r.views)
       /\ Transform(r.edits, r.source).ok => Transform(r.edits, r.source).source.module = r.source.module
  /\ \A r \in Admitted : WeightOf(Compile(r, r.source)) \in Weights \cup {NoWeight}
  /\ \A q, r \in Requests : q.registry.digest = r.registry.digest => q.registry = r.registry

BridgeInit == Init /\ results = <<>>

\* checkCompile(): a refused request does not reach the cache.
Ask(request) ==
  /\ GetOrLoad(CompilationCacheKey(request))
  /\ results' = IF Len(loads') > Len(loads) THEN Append(results, LoadCompilation(request)) ELSE results

Turn ==
  /\ \/ \E l \in DOMAIN loads : LoadGives(l, WeightOf(results[l])) \/ LoadThrows(l) \/ GiveUpPromise(l)
     \/ Clear
  /\ UNCHANGED results

BridgeNext == Turn \/ \E r \in Admitted : Ask(r)
BridgeSpec == BridgeInit /\ [][BridgeNext]_bridgeVars

-----------------------------------------------------------------------------
\* What a request that asks now is given for its key, from the cache or by the
\* promise it shares.
LoadOf(k) == IF Cached(k) THEN entries[CHOOSE i \in DOMAIN entries : entries[i].key = k].load ELSE pending[k]
Shared    == [k \in {k \in Keys : Cached(k) \/ pending[k] # 0} |-> results[LoadOf(k)]]

\* Whatever was asked, cached, evicted or is being compiled before, and whatever
\* artifact a host has kept, the answer to a request is that of a new bridge to
\* it alone.
CacheTransparent ==
  LET given == Shared IN \A r \in Requests : Answer(r, given) = Alone[r]

\* The source an edit request returns stands on its own: checked again under the
\* same limits, by the same bridge with whatever it has cached, it is accepted with
\* the answer and the views that came with it.
Again(r, answer) == [r EXCEPT !.source = answer.source, !.method = "inspect"]
StandsAgain(r, answer, given) ==
  answer.status = "accepted" =>
    Answer(Again(r, answer), given) = [status |-> "accepted", check |-> answer.check, views |-> answer.views]
EditedSourceStands ==
  LET given == Shared IN \A r \in {r \in Requests : r.method = "edit"} : StandsAgain(r, Answer(r, given), given)
=============================================================================

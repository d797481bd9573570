----------------------------- MODULE CheckPipeline -----------------------------
(***************************************************************************)
(* The methods of the direct bridge that compile (engine/src/bridge.ts):   *)
(* check, inspect and applySemanticEdits, over one compilation cache and   *)
(* artifacts a host may have kept (engine/src/artifact.ts).                *)
(*                                                                         *)
(* What the parser, the compiler and the graph builder find in a source is *)
(* the record Facts[text]; hashes and digests are the values they identify *)
(* and bytes of an artifact the record in them.  The edit kernel is        *)
(* Transform: a candidate source or a reason.                              *)
(***************************************************************************)
EXTENDS Integers, Sequences, FiniteSets

CONSTANTS
  Facts,                                   \* what the compiler finds in each text
  Modules,                                 \* well-formed module names
  StandardCompileLimits, StandardGraphLimits, StandardCapabilityLimits,
  MaxCost, MaxArtifact,
  Compiler,                                \* COMPILER_BUILD and LANGUAGE_PROFILE
  Transform(_, _)

-----------------------------------------------------------------------------
(* Contracts and limits. *)
RegistryValid(registry, slotId) ==
  /\ slotId \in DOMAIN registry.slots
  /\ {registry.slots[slotId].input, registry.slots[slotId].output} \subseteq registry.types
  /\ \A op \in registry.operations : {op.input, op.output, op.error} \subseteq registry.types /\ op.effectCost \in 0 .. MaxCost

CompileLimitsValid(limits, ceiling) ==
  /\ DOMAIN limits = DOMAIN StandardCompileLimits /\ DOMAIN ceiling = DOMAIN StandardCompileLimits
  /\ limits.includeDiagnostics => ceiling.includeDiagnostics
  /\ \A key \in DOMAIN limits \ {"includeDiagnostics"} :
       /\ limits[key] \in 0 .. ceiling[key]
       /\ limits[key] <= StandardCompileLimits[key]

ViewValid(view) ==
  LET standard == IF view.kind = "semantic_graph" THEN StandardGraphLimits ELSE StandardCapabilityLimits
  IN DOMAIN view.limits = DOMAIN standard /\ \A key \in DOMAIN standard : view.limits[key] \in 0 .. standard[key]
ViewsValid(views) ==
  /\ \A i \in DOMAIN views : ViewValid(views[i])
  /\ \A i, j \in DOMAIN views : views[i].kind = views[j].kind => i = j

-----------------------------------------------------------------------------
(* Compilations and artifacts of them. *)
Usage(source, syntaxNodes) == [sourceBytes |-> Facts[source.text].bytes, syntaxNodes |-> syntaxNodes]
VerifyProgram(program, registry, slotId) ==
  /\ program.operations \subseteq {op.id : op \in registry.operations}
  /\ program.input = registry.slots[slotId].input /\ program.result = registry.slots[slotId].output
Program(source, registry, slotId) ==
  [text |-> source.text, operations |-> Facts[source.text].operations, input |-> registry.slots[slotId].input, result |-> registry.slots[slotId].output]
Compiled(program, source, syntaxNodes) == [program |-> program, syntaxNodes |-> syntaxNodes, usage |-> Usage(source, syntaxNodes)]

ArtifactKey(request) ==
  [compiler |-> Compiler, contractDigest |-> request.registry.digest, slotId |-> request.slotId, source |-> request.source, limits |-> request.limits]
SerializeArtifact(request, compiled) ==
  [compiler |-> Compiler, contractDigest |-> request.registry.digest, slotId |-> request.slotId, artifactKey |-> ArtifactKey(request),
   irDigest |-> compiled.program, syntaxNodes |-> compiled.syntaxNodes, program |-> compiled.program]
ArtifactFits(compiled) == Facts[compiled.program.text].artifactBytes <= MaxArtifact
VerifyArtifact(a, request) ==
  /\ a.compiler = Compiler /\ a.contractDigest = request.registry.digest /\ a.slotId = request.slotId
  /\ a.artifactKey = ArtifactKey(request)
  /\ VerifyProgram(a.program, request.registry, request.slotId) /\ a.irDigest = a.program

-----------------------------------------------------------------------------
(* check: tests that need no compiler, then the cache, a kept artifact or  *)
(* the compiler.                                                           *)
BridgeError(phase, code) == [status |-> "bridge_error", phase |-> phase, code |-> code]
Reject(request, code, usage) ==
  [status |-> "rejected", diagnostics |-> IF request.limits.includeDiagnostics THEN <<code>> ELSE <<>>, usage |-> usage]
Accept(compiled) == [status |-> "accepted", compiled |-> compiled]

OverMeasure(source, limits) ==
  Facts[source.text].typeDepth > limits.typeDepth \/ Facts[source.text].derivedTemplateBytes > limits.derivedTemplateBytes
OverLimit(source, limits) ==
  \E key \in {"imports", "declarations", "syntaxNodes", "syntaxDepth"} : Facts[source.text][key] > limits[key]

CompilationCacheKeyUnlimited(request) ==
  [compiler |-> Compiler, registry |-> request.registry, slotId |-> request.slotId, source |-> request.source]
CompilationCacheKey(request) ==
  [compiler |-> Compiler, registry |-> request.registry, slotId |-> request.slotId, source |-> request.source, limits |-> request.limits]

\* What the source is refused for before it is compiled; "" if for nothing.
Refusal(request) ==
  LET source == request.source
      limits == request.limits
  IN CASE ~RegistryValid(request.registry, request.slotId) -> "SS_CONTRACT_INVALID"
       [] ~CompileLimitsValid(limits, request.registry.slots[request.slotId].compileLimits) -> "SS_COMPILER_LIMIT"
       [] source.module \notin Modules -> "SS_MODULE_SHAPE"
       [] Facts[source.text].bytes > limits.sourceBytes -> "SS_COMPILER_LIMIT"
       [] ~Facts[source.text].utf8 -> "SS_SOURCE_ENCODING"
       [] OverMeasure(source, limits) -> "SS_COMPILER_LIMIT"
       [] OTHER -> ""

Compile(request, source) ==
  LET nodes   == Facts[source.text].syntaxNodes
      program == Program(source, request.registry, request.slotId)
  IN CASE OverLimit(source, request.limits) -> Reject(request, "SS_COMPILER_LIMIT", Usage(source, nodes))
       [] ~Facts[source.text].compiles -> Reject(request, "SS_TYPE_ERROR", Usage(source, nodes))
       [] ~VerifyProgram(program, request.registry, request.slotId) -> Reject(request, "SS_INTERNAL_IR_INVALID", Usage(source, nodes))
       [] OTHER -> Accept(Compiled(program, source, nodes))
LoadCompilation(request) ==
  LET kept == {a \in request.cachedArtifact : VerifyArtifact(a, request) /\ a.syntaxNodes <= request.limits.syntaxNodes}
  IN IF kept = {} THEN Compile(request, request.source)
     ELSE LET a == CHOOSE a \in kept : TRUE IN Accept(Compiled(a.program, request.source, a.syntaxNodes))

\* cache is what the compilation cache gives for each key it has.
CheckCompile(request, cache) ==
  LET key == CompilationCacheKey(request)
  IN IF Refusal(request) # "" THEN Reject(request, Refusal(request), Usage(request.source, 0))
     ELSE IF key \in DOMAIN cache THEN cache[key] ELSE LoadCompilation(request)

ProjectAcceptedCheck(request, compiled) ==
  IF request.includeArtifact /\ ~ArtifactFits(compiled) THEN Reject(request, "SS_COMPILER_LIMIT", compiled.usage)
  ELSE [status |-> "accepted", summary |-> compiled.program.operations, usage |-> compiled.usage,
        artifact |-> IF request.includeArtifact THEN {SerializeArtifact(request, compiled)} ELSE {}]
Check(request, cache) ==
  LET result == CheckCompile(request, cache)
  IN IF result.status = "accepted" THEN ProjectAcceptedCheck(request, result.compiled) ELSE result

-----------------------------------------------------------------------------
(* inspect: views of the compilation, each with limits of its own. *)
Builds(graph, limits) == graph.nodes <= limits.nodes /\ graph.edges <= limits.edges
View(compiled, view) ==
  LET facts  == Facts[compiled.program.text]
      within == IF view.kind = "semantic_graph" THEN facts.graph ELSE facts.capabilities
      over   == {key \in DOMAIN view.limits : within[key] > view.limits[key]}
  IN [kind |-> view.kind, status |-> IF over = {} THEN "accepted" ELSE "rejected", bytes |-> IF over = {} THEN {within} ELSE {}]

\* A view of the capabilities takes the graph of the view before it, or builds
\* one under the standard limits of capabilities, which may fail.
GraphMissing(compiled, views, i) ==
  /\ views[i].kind = "semantic_edit_capabilities"
  /\ \A j \in 1 .. i - 1 : View(compiled, views[j]).status = "rejected" \/ views[j].kind # "semantic_graph"
  /\ ~Builds(Facts[compiled.program.text].graph,
             [nodes |-> StandardCapabilityLimits.targets, edges |-> StandardCapabilityLimits.capabilities])
ViewsFail(compiled, views) == \E i \in DOMAIN views : GraphMissing(compiled, views, i)
DeriveViews(compiled, views) == [i \in DOMAIN views |-> View(compiled, views[i])]

Inspect(request, cache) ==
  LET result == CheckCompile(request, cache)
      check  == ProjectAcceptedCheck(request, result.compiled)
  IN CASE ~ViewsValid(request.views)           -> BridgeError("inspect", "invalid_request")
       [] result.status # "accepted"           -> result
       [] check.status # "accepted"            -> check
       [] ViewsFail(result.compiled, request.views) -> BridgeError("inspect", "adapter_failure")
       [] OTHER -> [status |-> "accepted", check |-> check, views |-> DeriveViews(result.compiled, request.views)]

-----------------------------------------------------------------------------
(* applySemanticEdits: the source as it is, the edited one, its diff. *)
EditsRejected(reason, diagnostics) == [status |-> "rejected", reason |-> reason, diagnostics |-> diagnostics]
CheckRequestWithSource(request, source) == [request EXCEPT !.source = source, !.cachedArtifact = {}]
CompileEditCandidateUnmeasured(request, source) == Compile(request, source)
CompileEditCandidate(request, source) ==
  CASE ~Facts[source.text].utf8 -> Reject(request, "SS_SOURCE_ENCODING", Usage(source, 0))
    [] Facts[source.text].bytes > request.limits.sourceBytes -> Reject(request, "SS_COMPILER_LIMIT", Usage(source, 0))
    [] OverMeasure(source, request.limits) -> Reject(request, "SS_COMPILER_LIMIT", Usage(source, 0))
    [] OTHER -> Compile(request, source)

ApplySemanticEdits(request, cache) ==
  LET checked   == CheckCompile(request, cache)
      work      == [nodes |-> request.editLimits.work, edges |-> request.editLimits.work]
      edited    == Transform(request.edits, request.source)
      candidate == CompileEditCandidate(request, edited.source)
      updated   == CheckRequestWithSource(request, edited.source)
      final     == ProjectAcceptedCheck(updated, candidate.compiled)
      diffBytes == Facts[request.source.text].graph.bytes + Facts[edited.source.text].graph.bytes
  IN CASE checked.status = "rejected" -> EditsRejected("source_rejected", checked.diagnostics)
       [] ~Builds(Facts[request.source.text].graph, work) -> EditsRejected("edit_limit_exceeded", <<>>)
       [] ~edited.ok -> EditsRejected(edited.reason, <<>>)
       [] candidate.status = "rejected" -> EditsRejected("transformed_source_rejected", candidate.diagnostics)
       [] final.status = "rejected" -> EditsRejected("source_rejected", final.diagnostics)
       [] ~Builds(Facts[edited.source.text].graph, work) -> EditsRejected("edit_limit_exceeded", <<>>)
       [] diffBytes > request.editLimits.diffBytes -> EditsRejected("edit_limit_exceeded", <<>>)
       [] ViewsFail(candidate.compiled, request.views) -> EditsRejected("edit_limit_exceeded", <<>>)
       [] OTHER -> [status |-> "accepted", source |-> edited.source, check |-> final, views |-> DeriveViews(candidate.compiled, request.views)]

Answer(request, cache) ==
  CASE request.method = "check"   -> Check(request, cache)
    [] request.method = "inspect" -> Inspect(request, cache)
    [] request.method = "edit"    -> ApplySemanticEdits(request, cache)
=============================================================================

-------------------------- MODULE MCCompilingBridge --------------------------
(***************************************************************************)
(* Requests to the compiling methods of one bridge whose cache holds two   *)
(* programs, or less by their weight: texts by what the compiler finds in  *)
(* them, one over each limit, contracts and limits that differ in little.  *)
(***************************************************************************)
EXTENDS CompilingBridge

Found(nodes, templates, operations) ==
  [bytes |-> nodes, utf8 |-> TRUE, typeDepth |-> 1, derivedTemplateBytes |-> templates, imports |-> 1, declarations |-> 1, syntaxNodes |-> nodes,
   syntaxDepth |-> 2, compiles |-> TRUE, operations |-> operations, graph |-> [nodes |-> 3, edges |-> 3, bytes |-> 2],
   capabilities |-> [targets |-> 3, capabilities |-> 4, bytes |-> 5], artifactBytes |-> nodes]
MCFacts ==
  [good |-> Found(4, 1, {"read"}), writing |-> Found(5, 1, {"read", "write"}), templates |-> Found(4, 10, {"read"}),
   busy |-> [Found(8, 1, {"read"}) EXCEPT !.declarations = 2], crowded |-> [Found(5, 1, {"read"}) EXCEPT !.declarations = 10], broken |-> [Found(4, 1, {}) EXCEPT !.compiles = FALSE],
   garbled |-> [Found(4, 1, {}) EXCEPT !.utf8 = FALSE], branching |-> [Found(5, 1, {}) EXCEPT !.graph.nodes = 4]]
MCCompileLimits ==
  [sourceBytes |-> 9, imports |-> 9, declarations |-> 9, syntaxNodes |-> 9, syntaxDepth |-> 9, typeDepth |-> 9, derivedTemplateBytes |-> 9,
   includeDiagnostics |-> TRUE]
MCGraphLimits == [nodes |-> 4, edges |-> 9, bytes |-> 9]
MCCapabilityLimits == [targets |-> 9, capabilities |-> 9, bytes |-> 9]
MCTransform(edits, source) ==
  IF edits \in DOMAIN Facts THEN [ok |-> TRUE, source |-> [source EXCEPT !.text = edits]] ELSE [ok |-> FALSE, reason |-> edits]

-----------------------------------------------------------------------------
Operation(id, cost) == [id |-> id, input |-> "in", output |-> "out", error |-> "error", effectCost |-> cost]
SlotOf(input, ceiling) == [input |-> input, output |-> "out", compileLimits |-> ceiling]
Registry(digest, operations, ceiling) ==
  [digest |-> digest, types |-> {"in", "out", "error"}, operations |-> operations,
   slots |-> [main |-> SlotOf("in", ceiling), other |-> SlotOf("out", ceiling), adrift |-> SlotOf("elsewhere", ceiling)]]
Full  == Registry("full", {Operation("read", 1), Operation("write", 2)}, StandardCompileLimits)
Less  == Registry("less", {Operation("read", 1)}, StandardCompileLimits)
Tight == [StandardCompileLimits EXCEPT !.declarations = 1, !.includeDiagnostics = FALSE]

CheckRequest(text, registry, slotId, limits, artifact) ==
  [method |-> "check", source |-> [module |-> "module", text |-> text], registry |-> registry, slotId |-> slotId, limits |-> limits,
   includeArtifact |-> artifact, cachedArtifact |-> {}, views |-> <<>>, edits |-> "none", editLimits |-> [work |-> 0, diffBytes |-> 0]]
Usual == CheckRequest("good", Full, "main", StandardCompileLimits, FALSE)

Refused ==
  {CheckRequest("good", Full, s, StandardCompileLimits, FALSE) : s \in {"adrift", "unknown"}}
  \cup {[Usual EXCEPT !.source.module = "Module!"], [Usual EXCEPT !.source.text = "garbled"], [Usual EXCEPT !.source.text = "templates"]}
Checks ==
  {CheckRequest("good", Full, "main", StandardCompileLimits, TRUE), CheckRequest("good", Less, "main", StandardCompileLimits, FALSE),
   CheckRequest("busy", Full, "main", StandardCompileLimits, TRUE), CheckRequest("busy", Full, "main", Tight, TRUE)}

GraphView(nodes) == [kind |-> "semantic_graph", limits |-> [StandardGraphLimits EXCEPT !.nodes = nodes]]
EditsView == [kind |-> "semantic_edit_capabilities", limits |-> StandardCapabilityLimits]
ViewLists == {<<EditsView>>, <<GraphView(4), EditsView>>, <<EditsView, GraphView(2)>>, <<GraphView(2), GraphView(4)>>}
Inspects == {[Usual EXCEPT !.method = "inspect", !.views = v] : v \in ViewLists}
EditRequest(text, edits, work, diffBytes) ==
  [CheckRequest(text, Full, "main", StandardCompileLimits, TRUE) EXCEPT
     !.method = "edit", !.edits = edits, !.editLimits = [work |-> work, diffBytes |-> diffBytes], !.views = <<EditsView>>]
EditRequests ==
  {EditRequest("good", e, 9, 9) : e \in {"writing", "crowded", "templates", "broken", "stale_revision"}}
  \cup {EditRequest("good", "writing", w[1], w[2]) : w \in {<<2, 9>>, <<9, 2>>}}
  \cup {EditRequest("busy", "branching", 9, 9)}

\* An artifact a host kept, for the request it is of and for others, and spoilt.
Artifact == SerializeArtifact(Usual, Compile(Usual, Usual.source).compiled)
Spoilt   == {Artifact, [Artifact EXCEPT !.compiler = "older"], [Artifact EXCEPT !.irDigest.operations = {}],
             [Artifact EXCEPT !.program.operations = {}]}
Keeping  == {[Usual EXCEPT !.cachedArtifact = {a}] : a \in Spoilt} \cup {[CheckRequest("busy", Full, "main", Tight, TRUE) EXCEPT !.cachedArtifact = {Artifact}]}

MCRequests == {Usual} \cup Refused \cup Checks \cup Inspects \cup EditRequests \cup Keeping
MCKeys     == {CompilationCacheKey(r) : r \in MCRequests}
=============================================================================

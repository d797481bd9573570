----------------------------- MODULE SemanticEdits -----------------------------
(***************************************************************************)
(* Semantic edits on one source (engine/src/semantic-primitives.ts and the *)
(* kernel of semantic-gestures.ts): each edit names nodes of the semantic  *)
(* graph, is planned as transformations of the source, and the plans of    *)
(* all edits are applied as one batch.                                     *)
(*                                                                         *)
(* A graph is [semanticRevision, nodes, edges, anchors]: nodes a function  *)
(* from ids to records with a set "editable" of at most one span, edges a  *)
(* sequence of [kind, from, to, index].  Where the code scans the text of  *)
(* an empty container for its brackets the node has the place, "inside".   *)
(* Printed fragments are what printSourceFragment makes of them, a set of  *)
(* at most one byte sequence.  A gesture carries, as "lowered", the        *)
(* primitive edits it is normalised to, a set of at most one sequence.     *)
(***************************************************************************)
EXTENDS SourceTransform

CONSTANT None

-----------------------------------------------------------------------------
(* The graph. *)
Edges(graph, kind) == SelectSeq(graph.edges, LAMBDA e : e.kind = kind)
Parents(graph, id) == {e.from : e \in {e \in ToSet(Edges(graph, "contains")) : e.to = id}}
Children(graph, id) ==
  LET held == SelectSeq(Edges(graph, "contains"), LAMBDA e : e.from = id)
      sorted == SortSeq(held, LAMBDA a, b : a.index < b.index)
  IN [i \in DOMAIN sorted |-> sorted[i].to]
ReferencesMade(graph, id) ==
  LET held == SelectSeq(Edges(graph, "references"), LAMBDA e : e.from = id) IN [i \in DOMAIN held |-> held[i].to]
References(graph, id) ==
  LET held == SelectSeq(Edges(graph, "references"), LAMBDA e : e.to = id) IN [i \in DOMAIN held |-> held[i].from]

\* All nodes at or below one, by growing the set to its closure.
Below(graph, id) ==
  LET nodes == DOMAIN graph.nodes
      within[k \in 0 .. Cardinality(nodes)] ==
        IF k = 0 THEN {id} ELSE within[k - 1] \cup UNION {ToSet(Children(graph, n)) : n \in within[k - 1]}
  IN within[Cardinality(nodes)]
DescendantSymbols(graph, id) == {graph.nodes[n].symbolId : n \in Below(graph, id)} \ {None}

ByKind(kind) ==
  CASE kind = "module" -> {"declaration_list"} [] kind = "declaration" -> {"declaration"}
    [] kind \in {"statement", "branch"} -> {"statement", "statement_list"} [] kind = "case" -> {"switch_case"}
    [] kind \in {"expression", "constant", "action"} -> {"expression"} [] kind \in {"type", "input", "output"} -> {"type"}
    [] OTHER -> {}
ReplacementCategories(node) ==
  CASE node.semanticKind = "parameter" -> {"parameter"} [] node.semanticKind \in {"object-member", "type-member"} -> {"object_member"}
    [] node.semanticKind = "array-element" -> {"array_element"} [] node.semanticKind = "import-specifier" -> {"import_specifier"}
    [] node.semanticKind = "switch-case" -> {"switch_case"} [] node.semanticKind = "return-value" -> {"expression"}
    [] node.semanticKind \in {"binding-pattern", "symbol"} -> {"binding_pattern"} [] OTHER -> ByKind(node.kind)
InsertionCategories(container) ==
  CASE container = "module-container" -> {"declaration", "declaration_list"} [] container = "declaration-container" -> {"declaration"}
    [] container = "statement-container" -> {"statement", "statement_list"} [] container = "argument-container" -> {"argument"}
    [] container = "parameter-container" -> {"parameter"} [] container = "element-container" -> {"array_element"}
    [] container \in {"member-container", "type-member-container"} -> {"object_member"} [] container = "case-container" -> {"switch_case"}
    [] container = "import-container" -> {"import_specifier"} [] container = "type-parameter-container" -> {"type"}
    [] container \in {"initializer-container", "increment-container", "template-container"} -> {"expression"} [] OTHER -> {}
LineContainers == {"module-container", "statement-container", "case-container"}
ListContainers ==
  {"argument-container", "parameter-container", "type-parameter-container", "declaration-container", "element-container",
   "member-container", "type-member-container", "import-container"}
StructuralLineNode(node) == node.kind \in {"statement", "declaration", "branch", "case"}

\* The fields of a node that conditions compare with an old value.
Compared ==
  [target_kind |-> "kind", target_semantic_kind |-> "semanticKind", old_name |-> "label", old_literal |-> "constant",
   old_operator |-> "operator", old_operation |-> "operationId", expected_type |-> "type"]
OwnsComments(source, r) == OwnedRange(source, r) # r
PreconditionMatches(source, graph, id, condition, anchors) ==
  LET node == graph.nodes[id]
  IN CASE condition.kind \in DOMAIN Compared    -> node[Compared[condition.kind]] = condition.value
       [] condition.kind = "expected_parent"    -> Parents(graph, id) = {condition.value}
       [] condition.kind = "expected_anchor"    -> condition.value \in anchors
       [] condition.kind \in {"expected_bindings", "expected_captures"} -> DescendantSymbols(graph, id) = condition.value
       [] condition.kind = "owned_comments"     -> \E r \in node.editable : OwnsComments(source, r) = condition.value
       [] OTHER                                 -> FALSE
Met(source, graph, id, edit, anchors) ==
  \A c \in edit.preconditions : PreconditionMatches(source, graph, id, c, anchors)

-----------------------------------------------------------------------------
(* Where an anchor is: beside a sibling, or inside an empty container. *)
Near(graph, id) == IF id = None THEN {} ELSE graph.nodes[id].editable
AnchorPosition(source, graph, anchor) ==
  LET container == graph.nodes[anchor.container]
      byLine    == container.semanticKind \in LineContainers
      before    == Near(graph, anchor.before)
      after     == Near(graph, anchor.after)
  IN CASE anchor \notin graph.anchors -> {}
       [] before # {}  -> {IF byLine THEN LineStart(source, r.start) ELSE r.start : r \in before}
       [] after # {}   -> {IF byLine THEN LineEnd(source, r.end) ELSE r.end : r \in after}
       [] container.semanticKind = "module-container" -> {r.end : r \in container.editable}
       [] OTHER        -> IF container.editable = {} THEN {} ELSE container.inside

Indentation(source, p) ==
  LET line == LineStart(source, p)
      last == Max({line} \cup {q \in line .. p : Consists(source, line, q, {"s"})})
  IN SliceOf(source, Span(line, last))

\* A fragment in a line container takes a line of its own, in a list a comma.
Inserted(source, graph, anchor, at, printed) ==
  LET container == graph.nodes[anchor.container].semanticKind
      empty     == anchor.before = None /\ anchor.after = None
      beside    == Near(graph, IF anchor.before # None THEN anchor.before ELSE anchor.after)
      from      == IF beside = {} THEN at ELSE (CHOOSE r \in beside : TRUE).start
      margin    == Indentation(source, from) \o (IF empty /\ container # "module-container" THEN <<"s", "s">> ELSE <<>>)
      lead      == IF empty /\ at > 0 /\ source[at] \notin {"n", "m"} THEN <<"n">> ELSE <<>>
  IN CASE container = "template-container" -> <<"${">> \o printed \o <<"}">>
       [] container = "type-parameter-container" /\ empty -> <<"<">> \o printed \o <<">">>
       [] container \in ListContainers /\ anchor.before # None -> printed \o <<",", "s">>
       [] container \in ListContainers /\ anchor.before = None /\ anchor.after # None -> <<",", "s">> \o printed
       [] container \in LineContainers -> lead \o margin \o printed \o <<"n">>
       [] OTHER -> printed

-----------------------------------------------------------------------------
(* The plan of one primitive edit. *)
Unmeasured(source) == [NoEditUsage EXCEPT !.sourceBytes = Len(source)]
Refused(reason, targets) == [ok |-> FALSE, reason |-> reason, targets |-> targets, usage |-> NoEditUsage]
Unmet(source, id) == [Refused("precondition_failed", {id}) EXCEPT !.usage = Unmeasured(source)]
Planned(ts) == [ok |-> TRUE, transformations |-> ts]
One(edit, fields) == Planned(<<fields @@ [editId |-> edit.editId]>>)
Lines(source, node, r) == IF StructuralLineNode(node) THEN LineRange(source, r) ELSE r

RenameAll(graph, edit, id, places) ==
  LET fixed == SelectSeq(places, LAMBDA n : graph.nodes[n].editable = {})
  IN IF fixed # <<>> THEN Refused("target_kind_mismatch", {fixed[1]})
     ELSE Planned([i \in DOMAIN places |->
            [kind |-> "replace", editId |-> edit.editId, targets |-> <<places[i]>>, range |-> CHOOSE r \in graph.nodes[places[i]].editable : TRUE,
             content |-> [bytes |-> edit.newName, origin |-> "generated"]]])
PlanRename(graph, edit, id) ==
  LET bound(edges)    == [i \in DOMAIN edges |-> edges[i].to]
      named(bindings) == IF bindings = <<>> \/ (bindings # <<>> /\ graph.nodes[bindings[1]].label = None) THEN Refused("target_kind_mismatch", {id})
                         ELSE RenameAll(graph, edit, id, <<bindings[1]>> \o References(graph, bindings[1]))
  IN named(IF graph.nodes[id].semanticKind = "symbol" THEN <<id>>
           ELSE bound(SelectSeq(Edges(graph, "binds"), LAMBDA e : e.from = id)))

PlanReplace(graph, edit, id) ==
  LET node == graph.nodes[id]
  IN IF node.editable = {} \/ edit.replacement.category \notin ReplacementCategories(node) \/ edit.replacement.printed = {}
     THEN Refused("fragment_rejected", {id})
     ELSE One(edit, [kind |-> "replace", targets |-> <<id>>, range |-> CHOOSE r \in node.editable : TRUE,
                     content |-> [bytes |-> CHOOSE b \in edit.replacement.printed : TRUE, origin |-> "fragment"]])

InsertFragment(source, graph, edit, container, at) ==
  IF \/ edit.fragment.category \notin InsertionCategories(graph.nodes[container].semanticKind)
     \/ edit.fragment.printed = {} THEN Refused("fragment_rejected", {container})
  ELSE One(edit, [kind |-> "insert", targets |-> <<>>, at |-> at,
                  content |-> [bytes |-> Inserted(source, graph, edit.anchor, at, CHOOSE b \in edit.fragment.printed : TRUE),
                               origin |-> "fragment"]])
PlanInsert(source, graph, edit) ==
  LET beside(places) == IF places = {} THEN Refused("target_not_found", {edit.anchor.container})
                        ELSE InsertFragment(source, graph, edit, edit.anchor.container, CHOOSE p \in places : TRUE)
  IN beside(AnchorPosition(source, graph, edit.anchor))

PlanDelete(source, graph, edit, id) ==
  LET node == graph.nodes[id]
  IN IF node.editable = {} THEN Refused("target_kind_mismatch", {id})
     ELSE One(edit, [kind |-> "delete", targets |-> <<id>>, range |-> Lines(source, node, CHOOSE r \in node.editable : TRUE),
                     commentPolicy |-> edit.commentPolicy])

MoveTo(source, node, edit, id, to) ==
  IF node.editable = {} \/ to = {} THEN Refused("target_not_found", {id})
  ELSE One(edit, [kind |-> "move", targets |-> <<id>>, range |-> Lines(source, node, CHOOSE r \in node.editable : TRUE),
                  destination |-> CHOOSE p \in to : TRUE])
PlanMove(source, graph, edit, id) ==
  MoveTo(source, graph.nodes[id], edit, id, AnchorPosition(source, graph, edit.destination))

\* The slices of the children change places, what is between them stays.
ReorderRange(source, node) ==
  {IF StructuralLineNode(node) THEN LineRange(source, OwnedRange(source, r)) ELSE r : r \in node.editable}
Arrange(source, edit, id, current, places) ==
  LET n       == Len(current)
      range   == [i \in 1 .. n |-> CHOOSE r \in places[i] : TRUE]
      slice(i) == SliceOf(source, range[CHOOSE k \in 1 .. n : current[k] = edit.children[i]])
      gap(i)  == IF i = n THEN <<>> ELSE SliceOf(source, Span(range[i].end, range[i + 1].start))
  IN CASE n # Len(edit.children) \/ ToSet(current) # ToSet(edit.children) -> Refused("precondition_failed", {id})
       [] current = edit.children -> Planned(<<>>)
       [] \E i \in 1 .. n : places[i] = {} -> Refused("target_kind_mismatch", {id})
       [] OTHER -> One(edit, [kind |-> "replace", targets |-> edit.children, range |-> Span(range[1].start, range[n].end),
                              content |-> [bytes |-> FlattenSeq([i \in 1 .. n |-> slice(i) \o gap(i)]), origin |-> "generated"]])
PlanReorder(source, graph, edit, id) ==
  LET arranged(current) == Arrange(source, edit, id, current, [i \in DOMAIN current |-> ReorderRange(source, graph.nodes[current[i]])])
  IN arranged(Children(graph, id))

Primitives == {"rename_symbol", "replace_target", "insert_at_anchor", "delete_target", "move_target", "reorder_children"}
EditTarget(edit) ==
  CASE edit.kind = "insert_at_anchor" -> edit.anchor.container [] edit.kind = "reorder_children" -> edit.container [] OTHER -> edit.target
EditAnchors(edit) ==
  CASE edit.kind = "insert_at_anchor" -> {edit.anchor} [] edit.kind = "move_target" -> {edit.destination} [] OTHER -> {}
PlanEdit(source, graph, edit) ==
  LET id == EditTarget(edit)
  IN CASE id \notin DOMAIN graph.nodes -> Refused("target_not_found", {id})
       [] ~Met(source, graph, id, edit, EditAnchors(edit)) -> Unmet(source, id)
       [] edit.kind = "rename_symbol"    -> PlanRename(graph, edit, id)
       [] edit.kind = "replace_target"   -> PlanReplace(graph, edit, id)
       [] edit.kind = "insert_at_anchor" -> PlanInsert(source, graph, edit)
       [] edit.kind = "delete_target"    -> PlanDelete(source, graph, edit, id)
       [] edit.kind = "move_target"      -> PlanMove(source, graph, edit, id)
       [] edit.kind = "reorder_children" -> PlanReorder(source, graph, edit, id)

-----------------------------------------------------------------------------
(* The batch. *)
EditsRejected(reason, editIds, targets, usage) ==
  [status |-> "rejected", reason |-> reason, editIds |-> editIds, targets |-> targets, usage |-> usage]
Reason(transformed) ==
  CASE transformed = "conflicting_transformations" -> "conflicting_edits" [] transformed = "candidate_rejected" -> "transformed_source_rejected"
    [] transformed = "limit_exceeded" -> "edit_limit_exceeded" [] OTHER -> "target_kind_mismatch"

\* The first edit a conflict names, the first of all without one.
Blamed(edits, result) ==
  LET named == IF result.reason # "conflicting_transformations" THEN <<>>
               ELSE SelectSeq(edits, LAMBDA e : e.editId \in result.detail.editIds)
  IN Head(named \o edits).editId
Outcome(id, ts, regions) ==
  [editId |-> id, targets |-> UNION {ToSet(ts[i].targets) : i \in {i \in DOMAIN ts : ts[i].editId = id}},
   changedRegions |-> {i \in DOMAIN regions : id \in regions[i].editIds}]

Refusal(edits, plans) ==
  LET first == CHOOSE i \in DOMAIN edits : ~plans[i].ok /\ \A j \in 1 .. i - 1 : plans[j].ok
  IN EditsRejected(plans[first].reason, {edits[first].editId}, plans[first].targets, plans[first].usage)
Answer(edits, ts, result) ==
  IF result.status = "rejected"
  THEN EditsRejected(Reason(result.reason), {Blamed(edits, result)},
                     IF result.reason = "conflicting_transformations" THEN result.detail.targets ELSE {}, result.usage)
  ELSE result @@ [outcomes |-> [i \in DOMAIN edits |-> Outcome(edits[i].editId, ts, result.changedRegions)]]

ApplyPrimitives(source, graph, base, edits, limits, found) ==
  LET applied(ts)   == Answer(edits, ts, ApplySourceTransformations(source, ts, limits, found))
      judged(plans) == IF \E i \in DOMAIN plans : ~plans[i].ok THEN Refusal(edits, plans)
                       ELSE applied(FlattenSeq([i \in DOMAIN edits |-> plans[i].transformations]))
  IN CASE base # graph.semanticRevision -> EditsRejected("stale_revision", {}, {}, Unmeasured(source))
       [] \E i \in DOMAIN edits : edits[i].kind \notin Primitives -> EditsRejected("target_kind_mismatch", {}, {}, Unmeasured(source))
       [] OTHER -> judged([i \in DOMAIN edits |-> PlanEdit(source, graph, edits[i])])

\* Gestures are judged on the graph of the base before any is lowered.
GestureFault(source, graph, edit) ==
  CASE edit.kind \in Primitives -> "none"
    [] edit.target \notin DOMAIN graph.nodes -> "target_not_found"
    [] ~Met(source, graph, edit.target, edit, edit.anchors) -> "precondition_failed"
    [] OTHER -> "none"
Lowered(edit) == IF edit.kind \in Primitives THEN {<<edit>>} ELSE edit.lowered
Merged(outcomes, id) ==
  LET own == {o \in ToSet(outcomes) : o.editId = id}
  IN [editId |-> id, targets |-> UNION {o.targets : o \in own}, changedRegions |-> UNION {o.changedRegions : o \in own}]

MergeOutcomes(edits, result) ==
  IF result.status = "rejected" THEN result
  ELSE [result EXCEPT !.outcomes = [i \in DOMAIN edits |-> Merged(@, edits[i].editId)]]
ApplySemanticEditKernel(source, graph, base, edits, limits, found) ==
  LET faults == [i \in DOMAIN edits |-> GestureFault(source, graph, edits[i])]
      normal == FlattenSeq([i \in DOMAIN edits |-> CHOOSE l \in Lowered(edits[i]) : TRUE])
      judged(i) == EditsRejected(faults[i], {edits[i].editId}, {edits[i].target}, Unmeasured(source))
      faulty == {i \in DOMAIN edits : faults[i] # "none"}
  IN CASE base # graph.semanticRevision -> EditsRejected("stale_revision", {edits[1].editId}, {}, Unmeasured(source))
       [] faulty # {} -> judged(Min(faulty))
       [] \E i \in DOMAIN edits : Lowered(edits[i]) = {} ->
            EditsRejected("target_kind_mismatch", {edits[1].editId}, {EditTarget(edits[1])}, Unmeasured(source))
       [] OTHER -> MergeOutcomes(edits, ApplyPrimitives(source, graph, base, normal, limits, found))
=============================================================================

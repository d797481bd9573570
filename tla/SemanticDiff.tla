------------------------------ MODULE SemanticDiff ------------------------------
(***************************************************************************)
(* Which nodes of the graph before a batch of edits became which nodes of  *)
(* the graph after it (engine/src/semantic-diff.ts): by their identity,    *)
(* then by the changed regions they lie in and their shape.                *)
(*                                                                         *)
(* A graph is a function from ids to [shape, editable], "editable" a set   *)
(* of at most one span; a region is [original, updated, editIds].          *)
(*                                                                         *)
(* At the end, what edits owe their author, as properties of a problem: of *)
(* a diff, and of a batch of transformations (module SourceTransform).     *)
(***************************************************************************)
EXTENDS SourceTransform

\* A problem of a run: a diff, or a batch of transformations of a source.
VARIABLE problem

Contained(node, spans) == \E e \in node.editable, r \in spans : r.start <= e.start /\ e.end <= r.end
NodesIn(graph, spans) == {id \in DOMAIN graph : Contained(graph[id], spans)}

RelationKind(editIds, kinds) ==
  LET kind == {kinds[id] : id \in editIds \cap DOMAIN kinds}
  IN CASE "rename_symbol" \in kind -> "renamed"
       [] kind \cap {"move_target", "move_statement_range", "reorder_children"} # {} -> "moved"
       [] OTHER -> "updated"
DiffEntry(kind, before, after, editIds) == [kind |-> kind, before |-> before, after |-> after, editIds |-> editIds]

GroupAgain(before, after, s, region, shape) ==
  [old |-> {id \in NodesIn(before, region.original) \ s.before : before[id].shape = shape},
   new |-> {id \in NodesIn(after, region.updated) : after[id].shape = shape}]
\* Nodes of one shape not yet related, on both sides of a region, belong together.
Group(before, after, s, region, shape) ==
  [old |-> {id \in NodesIn(before, region.original) \ s.before : before[id].shape = shape},
   new |-> {id \in NodesIn(after, region.updated) \ s.after : after[id].shape = shape}]
Relation(g, kind) ==
  CASE Cardinality(g.old) = 1 /\ Cardinality(g.new) > 1 -> "split" [] Cardinality(g.old) > 1 /\ Cardinality(g.new) = 1 -> "merged"
    [] OTHER -> kind
Related(before, after, kinds, s, region) ==
  LET shapes == {before[id].shape : id \in NodesIn(before, region.original)} \cup {after[id].shape : id \in NodesIn(after, region.updated)}
      groups == {g \in {Group(before, after, s, region, shape) : shape \in shapes} : g.old # {} /\ g.new # {}}
  IN [before |-> s.before \cup UNION {g.old : g \in groups}, after |-> s.after \cup UNION {g.new : g \in groups},
      entries |-> s.entries \cup {DiffEntry(Relation(g, RelationKind(region.editIds, kinds)), g.old, g.new, region.editIds) : g \in groups}]

\* The regions one by one, each with what the ones before it left unrelated.
AfterRegions(before, after, kinds, regions) ==
  LET same == DOMAIN before \cap DOMAIN after
      related[i \in 0 .. Len(regions)] ==
        IF i = 0 THEN [before |-> same, after |-> same, entries |-> {}]
        ELSE Related(before, after, kinds, related[i - 1], regions[i])
  IN related
BuildSemanticDiff(before, after, kinds, regions) ==
  LET done == AfterRegions(before, after, kinds, regions)[Len(regions)]
  IN done.entries
     \cup {DiffEntry("preserved", {id}, {id}, {}) : id \in DOMAIN before \cap DOMAIN after}
     \cup {DiffEntry("removed", {id}, {}, DOMAIN kinds) : id \in DOMAIN before \ done.before}
     \cup {DiffEntry("added", {}, {id}, DOMAIN kinds) : id \in DOMAIN after \ done.after}

--------------------------------------------------------------------------------
\* A diff relates every node of the old graph and every node of the new one, and
\* each in one entry; it tells of a split or a merge exactly where one node
\* became several or several became one.
EntriesOf(p) == BuildSemanticDiff(p.before, p.after, p.kinds, p.regions)
DiffAccountsForNodes ==
  problem.kind = "diff" =>
    /\ \A id \in DOMAIN problem.before : Cardinality({e \in EntriesOf(problem) : id \in e.before}) = 1
    /\ \A id \in DOMAIN problem.after : Cardinality({e \in EntriesOf(problem) : id \in e.after}) = 1
    /\ \A e \in EntriesOf(problem) :
         e.kind \in {"split", "merged"} <=>
           Cardinality(e.before) * Cardinality(e.after) > 1 /\ 1 \in {Cardinality(e.before), Cardinality(e.after)}

\* A batch of transformations is one step: each is applied where it lies in the
\* original, in no order, and a batch is refused for a conflict exactly when two
\* of it meet.
SimultaneousBatch == problem.kind = "transforms" => AppliesAtOnce(problem.source, problem.batch, problem.limits)

\* The provenance of an edited source leaves nothing out: each byte of the
\* original is kept or removed by one entry, each byte of the result comes from
\* one, whose bytes they are, and a diagnostic of the result is told where it is
\* in the original or in what an edit inserted.
ProvenanceAccounts == problem.kind = "transforms" => AccountsForBytes(problem.source, problem.batch, problem.limits)
================================================================================

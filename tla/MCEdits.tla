------------------------------- MODULE MCEdits -------------------------------
(***************************************************************************)
(* Sources of three statements, the edits of them and what each edit is    *)
(* meant to do; and batches of raw transformations of a short source.      *)
(***************************************************************************)
EXTENDS SemanticEdits

Words == [A |-> <<"A", "x">>, B |-> <<"B", "x">>, C |-> <<"C", "+", "(", "p", ",", "s", "q", ")">>]
Order == <<"A", "B", "C">>

\* A source from the bytes before and after each statement, with its graph.
Start(layout, k) == Len(layout[k].before) + FoldSet(LAMBDA j, n : n + Len(layout[j].before \o Words[Order[j]] \o layout[j].after), 0, 1 .. k - 1)
Source(layout) == FlattenSeq([k \in 1 .. 3 |-> layout[k].before \o Words[Order[k]] \o layout[k].after])
Node(kind, semanticKind, label, symbolId, range) ==
  [kind |-> kind, semanticKind |-> semanticKind, label |-> label, symbolId |-> symbolId, constant |-> None, operator |-> None,
   operationId |-> None, type |-> None, editable |-> {range}, inside |-> {}]
Beside(container, before, after) == [container |-> container, before |-> before, after |-> after]
Gaps == <<Beside("body", "A", None), Beside("body", "B", "A"), Beside("body", "C", "B"), Beside("body", None, "C")>>
ArgumentGaps == <<Beside("args", "p", None), Beside("args", "q", "p"), Beside("args", None, "q")>>
Edge(kind, from, to, index) == [kind |-> kind, from |-> from, to |-> to, index |-> index]
Graph(layout) ==
  LET at(k, from, to) == Span(Start(layout, k) + from, Start(layout, k) + to)
      statement(k) == Node("statement", "expression-statement", None, None, at(k, 0, Len(Words[Order[k]])))
      expression(k, n) == Node("expression", "name", None, None, at(k, n, n + 1))
  IN [semanticRevision |-> "current",
      nodes |-> [body |-> Node("container", "statement-container", None, None, Span(0, Len(Source(layout)))),
                 A |-> statement(1), B |-> statement(2), C |-> statement(3),
                 x |-> Node("binding", "symbol", "x", "#x", at(1, 1, 2)), use |-> expression(2, 1),
                 args |-> Node("container", "argument-container", None, None, at(3, 2, 8)), p |-> expression(3, 3), q |-> expression(3, 6)],
      edges |-> <<Edge("contains", "body", "B", 2), Edge("contains", "body", "A", 1), Edge("contains", "body", "C", 3),
                  Edge("contains", "A", "x", 1), Edge("contains", "B", "use", 1), Edge("contains", "C", "args", 1),
                  Edge("contains", "args", "p", 1), Edge("contains", "args", "q", 2),
                  Edge("binds", "A", "x", 1), Edge("references", "use", "x", 1)>>,
      anchors |-> ToSet(Gaps) \cup ToSet(ArgumentGaps)]

-----------------------------------------------------------------------------
(* An edit with its meaning: statements taken out, statements put in the   *)
(* gaps between them, statements with other words.                         *)
Nothing == [g \in 1 .. 4 |-> <<>>]
Case(edit, gone, puts, words) ==
  [edit |-> [preconditions |-> {}] @@ edit, gone |-> gone, puts |-> puts @@ Nothing, words |-> words]
Fragment(category, bytes) == [category |-> category, printed |-> {bytes}]
Unchanged == [s \in {} |-> <<>>]
Renamed == [A |-> <<"A", "y">>, B |-> <<"B", "y">>]
InC(words) == [C |-> <<"C", "+", "(">> \o words \o <<")">>]

Rename(target) == Case([kind |-> "rename_symbol", target |-> target, newName |-> <<"y">>], {}, Nothing, Renamed)
Delete(s, policy) == Case([kind |-> "delete_target", target |-> s, commentPolicy |-> policy], {s}, Nothing, Unchanged)
Move(s, g) == Case([kind |-> "move_target", target |-> s, destination |-> Gaps[g]], {s}, g :> <<s>>, Unchanged)
Insert(g) == Case([kind |-> "insert_at_anchor", anchor |-> Gaps[g], fragment |-> Fragment("statement", <<"D">>)], {}, g :> <<"D">>, Unchanged)
Reorder(order) ==
  Case([kind |-> "reorder_children", container |-> "body", children |-> order],
       IF order = Order THEN {} ELSE ToSet(Order), IF order = Order THEN Nothing ELSE 1 :> order, Unchanged)
Argument(g, words) ==
  Case([kind |-> "insert_at_anchor", anchor |-> ArgumentGaps[g], fragment |-> Fragment("argument", <<"r">>)], {}, Nothing, InC(words))
Replace(target, category, bytes, words) ==
  Case([kind |-> "replace_target", target |-> target, replacement |-> Fragment(category, bytes)], {}, Nothing, words)
Swap == Case([kind |-> "reorder_children", container |-> "args", children |-> <<"q", "p">>], {}, Nothing, InC(<<"q", ",", "p">>))
Both == LET rename == Rename("x").edit
            new == [kind |-> "replace_target", target |-> "p", replacement |-> Fragment("expression", <<"y">>), preconditions |-> {}]
        IN Case([kind |-> "extract_local", target |-> "x", anchors |-> {}, lowered |-> {<<rename, new>>}], {}, Nothing,
                Renamed @@ InC(<<"y", ",", "q">>))
Expecting(c, condition) == [c EXCEPT !.edit.preconditions = {condition}]

Orders == {o \in [1 .. 3 -> ToSet(Order)] : \A i, j \in 1 .. 3 : o[i] = o[j] => i = j}
Cases ==
  {Rename("x"), Rename("A"), Swap, Both, Argument(1, <<"r", ",", "p", ",", "q">>), Argument(2, <<"p", ",", "r", ",", "q">>),
   Argument(3, <<"p", ",", "q", ",", "r">>), Replace("p", "expression", <<"r">>, InC(<<"r", ",", "q">>)),
   Replace("B", "statement", <<"E">>, [B |-> <<"E">>])}
  \cup {Delete(s, policy) : s \in ToSet(Order), policy \in {"delete_owned_comments", "preserve_owned_comments"}}
  \cup {Move(s, g) : s \in ToSet(Order), g \in 1 .. 4} \cup {Insert(g) : g \in 1 .. 4} \cup {Reorder(o) : o \in Orders}
Misfits ==
  {Rename("B"), Replace("B", "expression", <<"E">>, Unchanged), Expecting(Rename("x"), [kind |-> "old_name", value |-> "y"]),
   Expecting(Insert(1), [kind |-> "expected_anchor", value |-> Gaps[2]]), Expecting(Delete("A", "preserve_owned_comments"), [kind |-> "expected_bindings", value |-> {}])}
Guarded ==
  {Expecting(Rename("x"), [kind |-> "old_name", value |-> "x"]), Expecting(Insert(1), [kind |-> "expected_anchor", value |-> Gaps[1]]),
   Expecting(Move("A", 3), [kind |-> "expected_bindings", value |-> {"#x"}]), Expecting(Delete("B", "preserve_owned_comments"), [kind |-> "expected_parent", value |-> "body"]),
   Expecting(Delete("A", "delete_owned_comments"), [kind |-> "owned_comments", value |-> FALSE])}

Line(before, after) == [before |-> before, after |-> after]
Plain ==
  {<<Line(<<>>, <<"n">>), Line(b, <<"n">>), Line(c, d)>> :
     b \in {<<>>, <<"s">>, <<"n", "c", "n", "n">>}, c \in {<<"n", "s">>}, d \in {<<>>, <<"n">>}}
Annotated == {<<Line(<<>>, a \o <<"n">>), Line(b, <<"n">>), Line(<<>>, <<"n">>)>> : a \in {<<>>, <<"s", "c">>}, b \in {<<>>, <<"c", "n">>}}

Numbered(batch) == [i \in DOMAIN batch |-> [editId |-> i] @@ batch[i].edit]
OfEdit(edit, i) ==
  IF edit.kind \in Primitives THEN edit ELSE [edit EXCEPT !.lowered = {[k \in DOMAIN l |-> [editId |-> i] @@ l[k]] : l \in @}]
Requested(batch) == LET edits == Numbered(batch) IN [i \in DOMAIN edits |-> OfEdit(edits[i], i)]

Ample == [NoEditUsage EXCEPT !.operations = 9, !.fragmentBytes = 99, !.transformedRegions = 9, !.work = 199, !.provenanceEntries = 19,
                         !.diffBytes = 99, !.sourceBytes = 99]
Apply(layout, batch) ==
  ApplySemanticEditKernel(Source(layout), Graph(layout), "current", Requested(batch), Ample, <<>>)

\* What a batch means, statement by statement.
Meant(batch) ==
  LET cases == ToSet(batch)
      words(s) == LET new == {i \in DOMAIN batch : s \in DOMAIN batch[i].words}
                  IN IF s = "D" THEN <<"D">> ELSE IF new = {} THEN Words[s] ELSE batch[Min(new)].words[s]
      put(g)   == FlattenSeq([i \in DOMAIN batch |-> batch[i].puts[g]])
      stays(g) == IF g = 4 \/ (\E c \in cases : g < 4 /\ Order[g] \in c.gone) THEN <<>> ELSE <<Order[g]>>
      all      == FlattenSeq([g \in 1 .. 4 |-> put(g) \o stays(g)])
  IN FlattenSeq([i \in DOMAIN all |-> words(all[i])])

\* The code of a source: what is neither blank nor behind a line comment.
Behind(source, i) == \E j \in 1 .. i : source[j] = "c" /\ Consists(source, j, i, ToSet(source) \ {"n"})
Code(source) == FlattenSeq([i \in DOMAIN source |-> IF source[i] \in {"n", "s"} \/ Behind(source, i) THEN <<>> ELSE <<source[i]>>])

Stays(batch) == Len(batch) = 1 /\ batch[1].edit.kind = "move_target" /\ Code(Meant(batch)) = Code(Meant(<<>>))
KeepsCode(result, batch) == result.status = "accepted" => Code(result.source) = Code(Meant(batch))
Means(batch, result) ==
  /\ KeepsCode(result, batch)
  /\ result.status = "accepted" =>
       /\ [i \in DOMAIN batch |-> result.outcomes[i].editId] = [i \in DOMAIN batch |-> i]
       /\ UNION {o.changedRegions : o \in ToSet(result.outcomes)} = DOMAIN result.changedRegions
  /\ Len(batch) = 1 => (result.status = "accepted") = (batch[1] \notin Misfits) \/ Stays(batch)
DoesWhatItMeans(layout, batch) == Means(batch, Apply(layout, batch))

Singles == {<<c>> : c \in Cases \cup Guarded \cup Misfits}
Pairs   == {b \in Cases \X Cases : DOMAIN b[1].words \cap DOMAIN b[2].words = {}}
Moving  == {<<c>> : c \in {Move(s, g) : s \in ToSet(Order), g \in 1 .. 4} \cup {Reorder(o) : o \in Orders}}

-----------------------------------------------------------------------------
(* Raw transformations of a source with a character of two bytes, a        *)
(* comment and two lines.                                                  *)
Short == <<"a", "+", "n", "c", "n", "b">>
Content(origin) == [bytes |-> <<origin, "z">>, origin |-> origin]
Spans == {Span(s, e) : s, e \in 0 .. 6}
T(fields) == [targets |-> <<fields.kind>>] @@ fields
Inserts  == {T([kind |-> "insert", at |-> p, content |-> Content("fragment")]) : p \in 0 .. 6}
Replaces == {T([kind |-> "replace", range |-> r, content |-> Content("generated")]) : r \in {r \in Spans : r.end - r.start \in {0, 1, 3}}}
Deletes  == {T([kind |-> "delete", range |-> r, commentPolicy |-> c]) :
               r \in {r \in Spans : r.end - r.start \in {1, 2}}, c \in {"delete_owned_comments", "preserve_owned_comments"}}
Moves    == {T([kind |-> "move", range |-> r, destination |-> p]) : r \in {r \in Spans : r.end - r.start \in {1, 2}}, p \in {0, 2, 3, 6}}
Few      == {t \in Inserts : t.at \in {0, 2, 3}} \cup {t \in Replaces : t.range \in {Span(2, 3), Span(3, 6)}}
            \cup {t \in Deletes : t.range \in {Span(0, 2), Span(2, 3), Span(2, 4)}} \cup {t \in Moves : t.range = Span(2, 3)}
Identified(ts) == [i \in DOMAIN ts |-> [editId |-> i] @@ ts[i]]
Tight == {[Ample EXCEPT ![name] = n] : name \in DOMAIN Ample, n \in {1, 4, 9}}

All      == Inserts \cup Replaces \cup Deletes \cup Moves
Batches  == {<<a>> : a \in All} \cup Few \X All \cup Few \X Few \X Few
=============================================================================

------------------------------- MODULE MCValues -------------------------------
(***************************************************************************)
(* The pure parts of the system over bounded inputs: a state is a problem, *)
(* the properties say what the operators answer for it.                    *)
(***************************************************************************)
EXTENDS Interpreter, SemanticDiff

-----------------------------------------------------------------------------
(* Programs: an action in every position of a statement and an expression. *)
Lit(v)      == [tag |-> "literal", kind |-> "int64", value |-> v]
Var(n)      == [tag |-> "name", name |-> n]
Mem(e, n)   == [tag |-> "member", value |-> e, name |-> n, optional |-> FALSE]
Bin(op, l, r) == [tag |-> "binary", operator |-> op, left |-> l, right |-> r]
Arr(items)  == [tag |-> "array", items |-> items]
Fn(ps, b)   == [tag |-> "function", parameters |-> ps, body |-> b]
Apply1(f, args) == [tag |-> "call", callee |-> f, arguments |-> args]
True == [tag |-> "literal", kind |-> "boolean", value |-> Bool(TRUE)]
Expr(e)     == [tag |-> "expression", expression |-> e]
Let(n, e)   == [tag |-> "variable", name |-> n, mutable |-> TRUE, value |-> e]
Set(n, op, e) == [tag |-> "assign", name |-> n, operator |-> op, value |-> e]
Break       == [tag |-> "break"]
Loop(i, c, n, b, after) ==
  [tag |-> "loop", initializer |-> i, condition |-> c, increment |-> n, body |-> b, checkAfter |-> after]
Action(op) ==
  [tag |-> "action", operationId |-> op, actionSiteId |-> "site", inputType |-> Ref("input"),
   resultType |-> ResultSchema(Ref("output"), Ref("error")), input |-> Lit(IntV(0))]
Value(op) == Mem(Action(op), "value")

ExpressionsWith(h) ==
  {h, Arr(<<h, [spread |-> Arr(<<h>>)]>>),
   Mem([tag |-> "object", fields |-> <<[name |-> "f", value |-> h]>>], "f"),
   [tag |-> "template", parts |-> <<h>>],
   [tag |-> "index", value |-> Arr(<<Lit(IntV(1)), Lit(IntV(2))>>), index |-> h, optional |-> FALSE],
   [tag |-> "unary", operator |-> "negate", value |-> h],
   Bin("less", h, Lit(IntV(2))), Bin("and", Bin("equal", Lit(IntV(1)), h), True),
   [tag |-> "conditional", condition |-> True, whenTrue |-> h, whenFalse |-> h],
   [tag |-> "result", variant |-> "ok", value |-> h],
   Apply1(Mem(Var("console"), "log"), <<h>>),
   Apply1(Mem(Arr(<<Lit(IntV(2)), Lit(IntV(1))>>), "map"), <<Fn(<<"x">>, <<[tag |-> "return", value |-> h]>>)>>),
   Apply1(Mem(Arr(<<Lit(IntV(2)), Lit(IntV(1))>>), "toSorted"),
          <<Fn(<<"x", "y">>, <<[tag |-> "return", value |-> Bin("subtract", Var("x"), h)]>>)>>),
   Apply1(Var("helper"), <<h>>)}

\* An item or a field that is an expression and a spread at once, as no compiler
\* writes it: the spread is requested and evaluated, the expression verified.
MixedWith(h) ==
  {Arr(<<Lit(IntV(1)) @@ [spread |-> Arr(<<h>>)]>>),
   [tag |-> "object", fields |-> <<[name |-> "f", value |-> Lit(IntV(1)),
      spread |-> [tag |-> "object", fields |-> <<[name |-> "f", value |-> h]>>]]>>]}

Below2(n) == Bin("less", Var(n), Lit(IntV(2)))
StatementsWith(h) ==
  {<<Let("v", h)>>, <<Let("v", Lit(IntV(1))), Set("v", "add", h)>>, <<Expr(h)>>,
   <<[tag |-> "destructure", pattern |-> [tag |-> "array", items |-> <<[tag |-> "name", name |-> "v"]>>],
      mutable |-> FALSE, value |-> Arr(<<h, h>>)]>>,
   <<[tag |-> "if", condition |-> True, whenTrue |-> <<Expr(h)>>, whenFalse |-> <<>>]>>,
   <<[tag |-> "for-of", name |-> "i", mutable |-> FALSE, values |-> Arr(<<h, Lit(IntV(2))>>),
      body |-> <<Expr(h), [tag |-> "continue"]>>]>>,
   <<[tag |-> "for-in", name |-> "i", mutable |-> FALSE, value |-> Arr(<<h>>), body |-> <<Break>>]>>,
   <<Loop(<<Let("i", Lit(IntV(0)))>>, Below2("i"), <<Set("i", "add", h)>>, <<>>, FALSE)>>,
   <<Loop(<<Let("i", h)>>, Below2("i"), <<Set("i", "add", Lit(IntV(1)))>>, <<Expr(h)>>, TRUE)>>,
   <<[tag |-> "switch", value |-> Action("read"), cases |-> <<[value |-> "ok", body |-> <<Expr(h), Break>>]>>]>>}

Program(body, operations) ==
  [version |-> <<1, 1>>, inputType |-> Ref("input"), resultType |-> Ref("output"), handler |-> "handle",
   functions |-> <<[name |-> "handle", parameters |-> <<"event", "context">>,
                    body |-> body \o <<[tag |-> "return", value |-> Lit(IntV(1))]>>],
                   [name |-> "helper", parameters |-> <<"x">>, body |-> <<[tag |-> "return", value |-> Var("x")]>>]>>,
   summary |-> operations]
ProgramsWith(expressions) ==
  {Program(body, ops) : body \in UNION {StatementsWith(e) : e \in expressions},
                        ops \in {{}, {"read"}, {"write"}, {"read", "write"}, {"forbidden"}, {"unknown"}}}
Declared == ProgramsWith(UNION {ExpressionsWith(Value(op)) : op \in {"write", "forbidden", "unknown"}})
Mixed    == ProgramsWith(UNION {MixedWith(Value(op)) : op \in {"write", "forbidden", "unknown"}})

MCTypes == [input |-> [kind |-> "int64"], output |-> [kind |-> "int64"], error |-> [kind |-> "string"]]
MCOperations ==
  [op \in {"read", "write", "forbidden"} |-> [input |-> "input", output |-> "output", error |-> "error", effectCost |-> 1]]
MCSlot == [input |-> "input", output |-> "output", operations |-> {"read", "write"}]
MCHost(operation, input) == ResultOf("ok", IntV(1))
MCPlatform(name, a) == CASE name = "template" -> Str(<<"text">>) [] OTHER -> Absent

Generous == [fuel |-> 1000, allocations |-> 100, allocatedBytes |-> 1000, collectionItems |-> 5, callDepth |-> 3, hostCalls |-> 9,
             traceBytes |-> 100, outputBytes |-> 10, maxDepth |-> 4, maxNodes |-> 9, maxBytes |-> 20]
Request(limits, cancelAt, answered) ==
  [limits |-> limits, tracing |-> TRUE, cancelAt |-> cancelAt, answeredFirst |-> answered, seeded |-> FALSE, instant |-> Absent]

Tighter == {[Generous EXCEPT !.fuel = n] : n \in {0, 5, 9, 12, 15, 20, 30}}
  \cup {[Generous EXCEPT !.allocations = 1], [Generous EXCEPT !.hostCalls = 1], [Generous EXCEPT !.traceBytes = 3], [Generous EXCEPT !.allocatedBytes = 3]}
Requested == {Request(l, 0, FALSE) : l \in Tighter} \cup {Request(Generous, 1, a) : a \in BOOLEAN}

-----------------------------------------------------------------------------
(* Values and bytes, under an alphabet of its own: texts are bytes. *)
MCJsonTags == [null |-> <<1>>, object |-> <<2>>, boolean |-> <<3, 1>>, number |-> <<3, 2>>, string |-> <<3, 3>>, array |-> <<3>>]
Codec == INSTANCE CanonicalCodec WITH Chars <- 1 .. 3, JsonTags <- MCJsonTags

Narrow == [maxDepth |-> 2, maxNodes |-> 4, maxBytes |-> 7]
Wide   == [maxDepth |-> 9, maxNodes |-> 20, maxBytes |-> 30]
Kind(k) == [kind |-> k]
Entry   == [kind |-> "tuple", items |-> <<Kind("string"), Ref("json")>>]
MCJson ==
  [kind |-> "variant", variants |-> <<[tag |-> MCJsonTags["null"], schema |-> Kind("unit")],
                                      [tag |-> MCJsonTags["array"], schema |-> [kind |-> "list", item |-> Ref("json")]],
                                      [tag |-> MCJsonTags["object"], schema |-> [kind |-> "list", item |-> Entry]]>>]
Named == [json |-> MCJson, small |-> [kind |-> "int64", minimum |-> -3, maximum |-> 40], loop |-> Ref("loop"),
          chain |-> [kind |-> "variant", variants |-> <<[tag |-> <<1>>, schema |-> Kind("unit")], [tag |-> <<2>>, schema |-> Ref("chain")]>>]]
Plain ==
  {Kind("unit"), Kind("boolean"), Kind("int64"), Kind("float64"), Kind("string"), Ref("chain"), Ref("json"),
   [kind |-> "brand", type |-> "small", base |-> Kind("int64")], [kind |-> "list", item |-> Kind("int64")],
   [kind |-> "list", item |-> [kind |-> "list", item |-> Kind("unit")]], [kind |-> "tuple", items |-> <<Kind("int64"), Kind("string")>>],
   [kind |-> "record", fields |-> <<[name |-> "b", schema |-> Kind("boolean")], [name |-> "a", schema |-> Kind("int64")]>>]}
Bounded ==
  {Kind("bytes"), Kind("instant"), Ref("small"), Ref("loop"), Ref("missing"), [kind |-> "string", maxBytes |-> 1],
   [kind |-> "bytes", maxBytes |-> 1], [kind |-> "float64", minimum |-> 2], [kind |-> "list", item |-> Kind("int64"), maxItems |-> 1]}

\* Heads of every major type at the edges of their widths, texts and floats; JSON objects with two names.
Octets == {0, 1, 2, 3, 6, 7, 8, 10, 17, 20, 21, 30, 31, 41, 42, 70, 72, 73, 78, 79}
Object(a, b) == <<42, 31, 2, 42, 42, 31, a, 42, 31, 1, 72, 42, 31, b, 42, 31, 1, 72>>
ByteStrings == {<<a>> : a \in Octets} \cup {<<a, b>> : a, b \in Octets} \cup {<<a, b, c>> : a, b, c \in Octets}
  \cup {<<42, a, b, c>> : a \in {1, 31}, b, c \in Octets} \cup {Object(a, b) : a, b \in 1 .. 3}

\* Sequences, since values of different types are in no set together.
Of(Make(_), all) == FoldSet(LAMBDA v, made : Append(made, Make(v)), <<>>, all)
Pairs(seq, Make(_, _)) == FlattenSeq([i \in DOMAIN seq |-> [j \in DOMAIN seq |-> Make(seq[i], seq[j])]])
Scalars == <<Null, Bool(TRUE), Str(<<>>), Str(<<1>>), IntV(7), Float(0), Float(NegativeZero)>>
Leaves  == Of(IntV, {-91, -90, -81, -80, -8, -7, -4, -3, 0, 6, 40, 79, 80, 89, 90}) \o Of(Float, {1, 2, 77, NotFinite})
  \o Of(Str, {<<2>>, <<3, 1>>, <<1, 9>>} \cup {[i \in 1 .. n |-> 1] : n \in 6 .. 7})
Lists   == Pairs(Scalars, LAMBDA a, b : List(<<a, b>>)) \o [i \in DOMAIN Scalars |-> List(<<Scalars[i]>>)]
  \o [n \in 1 .. 8 |-> List([i \in 1 .. n |-> IntV(1)])] \o [n \in 1 .. 6 |-> List([i \in 1 .. n |-> Float(1)])]
  \o Of(LAMBDA x : List(<<Float(x)>>), {79, 80, NotFinite}) \o <<List(<<>>), List(<<List(<<>>), List(<<Null>>)>>), List(<<List(<<Null, Null>>), List(<<>>)>>)>>
Records == Pairs(Scalars, LAMBDA a, b : Rec(<< <<"a", a>>, <<"b", b>> >>))
  \o Of(LAMBDA p : Rec(<< <<"epochSeconds", IntV(p[1])>>, <<"nanoseconds", Float(p[2])>> >>), {-11, -10, 0, 10} \X {0, 3, 4, NegativeZero})
  \o Of(LAMBDA t : Tagged(t, Null), {<<1>>, <<2>>, <<3>>}) \o <<Tagged(<<2>>, Tagged(<<2>>, Tagged(<<1>>, Null)))>>
Inputs  == <<Null, List(<<Null>>), List(<<Null, List(<<>>)>>)>>
  \o Of(LAMBDA p : Rec(<< <<p[1], Null>>, <<p[2], List(<<Null>>)>> >>), {<<1>>, <<2, 1>>} \X {<<>>, <<2>>, <<1, 1>>})
Candidates == Scalars \o Leaves \o Lists \o Records \o [i \in DOMAIN Inputs |-> Codec!JsonOf(Inputs[i])]

\* Registries of three types that refer to each other.
Refs == {Ref(t) : t \in {"a", "b", "c"}}
Alternatives(ss) == [kind |-> "variant", variants |-> [i \in DOMAIN ss |-> [tag |-> <<i>>, schema |-> ss[i]]]]
Fields(ss) == [kind |-> "record", fields |-> [i \in DOMAIN ss |-> [name |-> i, schema |-> ss[i]]]]
Shapes == {Kind("unit"), Alternatives(<<>>)} \cup Refs \cup {[kind |-> "list", item |-> r] : r \in Refs}
  \cup {Alternatives(<<r>>) : r \in Refs} \cup {Alternatives(<<r, Fields(<<q>>)>>) : r, q \in Refs} \cup {Fields(<<r, q>>) : r, q \in Refs}
Registries == [{"a", "b", "c"} -> Shapes]

-----------------------------------------------------------------------------
(* Messages of the worker protocol: texts have a byte each but those named. *)
WireKeys ==
  <<"id", "to", "end", "tag", "base", "body", "call", "code", "diff", "from", "fuel", "item", "kind", "last", "name", "path", "role",
    "type", "work", "after", "build", "bytes", "check", "edges", "edits", "error", "facts", "first", "index", "input", "items", "limit",
    "major", "minor", "nodes", "phase", "range", "scope", "slots", "start", "trace", "types", "usage", "value", "views", "action",
    "actual", "anchor", "before", "branch", "callee", "detail", "digest", "fields", "limits", "module", "output", "reason", "repair",
    "result", "schema", "source", "status", "symbol", "target", "actions", "binding", "control", "edit_id", "entries", "failure",
    "imports", "maximum", "message", "minimum", "outcome", "outputs", "pattern", "payload", "program", "records", "related", "request",
    "schemas", "slot_id", "summary", "targets", "updated", "variant", "version", "argument", "artifact", "category", "children",
    "compiler", "edit_ids", "fragment", "function", "iterable", "location", "new_name", "operator", "optional", "original", "outcomes",
    "registry", "reply_to", "severity", "variants", "condition", "container", "increment", "ir_digest", "max_bytes", "max_depth",
    "max_items", "max_nodes", "operation", "parameter", "truncated", "call_depth", "diff_bytes", "execute_id", "host_calls", "mutability",
    "operations", "parameters", "provenance", "references", "request_id", "type_depth", "allocations", "contract_id", "declaration",
    "definitions", "destination", "diagnostics", "edit_limits", "edit_schema", "effect_cost", "fingerprint", "initializer", "nanoseconds",
    "preparation", "random_seed", "replacement", "source_hash", "trace_bytes", "capabilities", "declarations", "effect_state",
    "graph_schema", "operation_id", "output_bytes", "program_hash", "source_bytes", "syntax_depth", "syntax_nodes", "base_revision",
    "compile_usage", "epoch_seconds", "fixed_instant", "invocation_id", "preconditions", "action_site_id", "comment_policy",
    "compile_limits", "field_mappings", "fragment_bytes", "allocated_bytes", "cached_artifact", "changed_regions", "peak_call_depth",
    "replace_targets", "required_inputs", "collection_items", "edit_diagnostics", "execution_limits", "include_artifact",
    "peak_value_bytes", "peak_value_depth", "peak_value_nodes", "semantic_revision", "provenance_entries", "remove_declaration",
    "retained_container", "include_diagnostics", "parameter_arguments", "retained_containers", "transformed_regions",
    "peak_collection_items", "derived_template_bytes">>
WireNames == [n \in ToSet(WireKeys) |-> IF \E i \in 1 .. Len(n) : SubSeq(n, i, i) = "_" THEN "domain " \o n ELSE n]
WireTexts ==
  ("" :> 0) @@ ("8 bytes" :> 8) @@ ("9 bytes" :> 9) @@ ("10 bytes" :> 10) @@ ("11 bytes" :> 11)
  @@ ("20 bytes" :> 20) @@ ("21 bytes" :> 21) @@ ("30 bytes" :> 30) @@ ("31 bytes" :> 31)
WireSteps == <<24, 100, 200, 200>>
Wire == INSTANCE MCProtocol WITH
  MaxUint <- 1000, MaxInt <- 500, MaxSafe <- 400, NegativeZero <- -600, NotFinite <- -700, HeadSteps <- WireSteps, TextBytes <- WireTexts,
  BadTexts <- {"lone"}, KeyOrder <- WireKeys, DomainName <- WireNames, MaxText <- 20, MaxDetail <- 8, MaxDigest <- 10, MaxLiteral <- 30,
  MaxBytes <- 8, MaxFragment <- 6, MaxItems <- 7, MaxEntries <- 6, MaxRegions <- 5, MaxList <- 4, MaxSteps <- 3, SchemaNesting <- 1

Payloads == Wire!Payloads
Shared(kind) == IF kind = "bridge.check.request" THEN {} ELSE {"registry"}
Sampled  == [kind \in DOMAIN Payloads |-> Wire!Samples(Payloads[kind], Shared(kind))]
Messages == [Sampled EXCEPT !["bridge.check.request"] = @ \o [n \in 1 .. 2 |-> Wire!WithNesting(@[1], n)]]
Roomy    == [maxDepth |-> 200, maxNodes |-> 90000, maxBytes |-> 90000]
Confined == {Roomy, [Roomy EXCEPT !.maxDepth = 2], [Roomy EXCEPT !.maxNodes = 16], [Roomy EXCEPT !.maxBytes = 40]}
Spoiled  == [kind \in {"action.outcome", "action.request", "protocol.error", "session.close.result"} |->
               LET damages(sent) == FlattenSeq([i \in DOMAIN sent |-> Wire!Damaged(sent, i)])
               IN damages(Wire!EncodeBridgePayload(Payloads[kind], Messages[kind][1], Roomy).value)]

-----------------------------------------------------------------------------
\* Nodes of a graph before and after edits of two places.
Place(k) == [start |-> 10 * k, end |-> 10 * k + 5]
DiffNodes == {[shape |-> s, editable |-> {[start |-> 10 * k + 1, end |-> 10 * k + 2]}] : s \in {"call", "name"}, k \in 1 .. 2}
Graphs(ids) == UNION {[some -> DiffNodes] : some \in SUBSET ids}
Region(from, to, id) == [original |-> {Place(k) : k \in from}, updated |-> {Place(k) : k \in to}, editIds |-> {id}]
Regions == {<<Region({1}, {1}, "e")>>, <<Region({1}, {2}, "e"), Region({2}, {1}, "f")>>, <<Region({1}, {}, "e"), Region({}, {2}, "e")>>,
            <<Region({1}, {1}, "e"), Region({1}, {2}, "f")>>}
EditKinds == [e |-> "replace_target", f |-> "move_target"]
Edits == INSTANCE MCEdits WITH None <- "none"

-----------------------------------------------------------------------------
\* A topic each, so that several workers take part.
Init == problem \in {[kind |-> "none", topic |-> t] : t \in {"data", "messages", "edits"}}
Next ==
  /\ problem.kind = "none"
  /\ \/ /\ problem.topic = "data"
        /\ \/ \E p \in Declared \cup Mixed :
                /\ VerifyProgram(p)
                /\ \E r \in Requested :
                     problem' = [kind |-> "run", program |-> p, declared |-> p \in Declared, request |-> r]
           \/ \E s \in Plain \cup Bounded, l \in {Narrow, Wide}, b \in ByteStrings :
                problem' = [kind |-> "bytes", schema |-> s, options |-> [types |-> Named, limits |-> l], bytes |-> b]
           \/ \E s \in Plain \cup Bounded, l \in {Narrow, Wide}, i \in DOMAIN Candidates :
                problem' = [kind |-> "value", schema |-> s, options |-> [types |-> Named, limits |-> l], value |-> Candidates[i]]
           \/ \E i \in DOMAIN Inputs : problem' = [kind |-> "json", value |-> Inputs[i]]
           \/ \E types \in Registries : problem' = [kind |-> "registry", types |-> types]
     \/ /\ problem.topic = "messages"
        /\ \/ \E k \in DOMAIN Payloads : \E i \in DOMAIN Messages[k] :
                \E l \in IF i = 1 THEN Confined ELSE {Roomy} : problem' = [kind |-> "message", message |-> k, value |-> Messages[k][i], limits |-> l]
           \/ \E k \in DOMAIN Spoiled : \E i \in DOMAIN Spoiled[k] : problem' = [kind |-> "spoiled", message |-> k, bytes |-> Spoiled[k][i]]
     \/ /\ problem.topic = "edits"
        /\ \/ \E l \in Edits!Plain, b \in Edits!Singles \cup Edits!Pairs : problem' = [kind |-> "edits", layout |-> l, batch |-> b]
           \/ \E l \in Edits!Annotated, b \in Edits!Moving : problem' = [kind |-> "annotated", layout |-> l, batch |-> b]
           \/ \E b \in Edits!Batches : problem' = [kind |-> "transforms", source |-> Edits!Short, batch |-> Edits!Identified(b), limits |-> Edits!Ample]
           \/ \E t \in Edits!Few, l \in Edits!Tight : problem' = [kind |-> "transforms", source |-> Edits!Short, batch |-> Edits!Identified(<<t>>), limits |-> l]
           \/ \E b \in Graphs({1, 2}), a \in Graphs({2, 3, 4}), r \in Regions :
                problem' = [kind |-> "diff", before |-> b, after |-> a, kinds |-> EditKinds, regions |-> r]
Spec == Init /\ [][Next]_problem

-----------------------------------------------------------------------------
\* Every action a verified program can request, in whatever position of an
\* expression or a statement it stands, is an operation of the registry that its
\* summary lists: what a host is shown before it runs a program is all it can ask
\* for.  Of a program as the source declares it, the slot grants them all.
UnlimitedRun(p) == Run(p, IntV(0), Request(Generous, 0, FALSE))
RequestsDeclared ==
  problem.kind = "run" =>
    LET requested == ToSet(UnlimitedRun(problem.program).requests)
    IN /\ requested \subseteq problem.program.summary \cap DOMAIN Operations
       /\ problem.declared => requested \subseteq Slot.operations

\* A limit or a cancellation only cuts a run short: what was requested and
\* traced until then is a beginning of the unlimited run's, every request was
\* paid for, no meter passes its limit, and a run that completes under tighter
\* limits completes with the same usage.
LimitCodes == {"resource_exhausted", "cancelled", "value_limit"}
WithinLimits(s) ==
  /\ \A k \in {"fuel", "allocations", "allocatedBytes", "hostCalls", "traceBytes"} : s.usage[k] <= s.limits[k]
  /\ s.usage.peakCallDepth <= s.limits.callDepth /\ s.usage.hostCalls = Len(s.requests)
Truncates(cut, full) ==
  /\ WithinLimits(full) /\ WithinLimits(cut)
  /\ IsPrefix(cut.requests, full.requests) /\ IsPrefix(cut.trace, full.trace)
  /\ cut.code \in LimitCodes \/ (cut.code = full.code /\ cut.usage.fuel = full.usage.fuel /\ cut.requests = full.requests)
  /\ cut.cancelled => Len(cut.requests) = problem.request.cancelAt
LimitsOnlyTruncate ==
  problem.kind = "run" =>
    Truncates(Run(problem.program, IntV(0), problem.request), UnlimitedRun(problem.program))

MeterAgrees(schema, value, limits, encoded) ==
  LET m    == Metrics(value)
      free == Codec!Encode(schema, value, [types |-> Named, limits |-> [maxDepth |-> 99, maxNodes |-> 99, maxBytes |-> 999]])
  IN free.code = "" =>
       /\ (encoded.code = "") = (m.depth <= limits.maxDepth /\ m.nodes <= limits.maxNodes /\ m.bytes <= limits.maxBytes)
       /\ m.bytes = Len(free.bytes) /\ m.nodes = free.nodes

\* There is one encoding of a value and no second spelling of it: bytes the
\* decoder accepts are those the encoder writes for what was decoded, counted
\* as the same nodes, and what the encoder writes is decoded to the value.
\* canonicalJson makes values the codec accepts.  The meter, which counts a value
\* without its schema and without encoding it, counts the same bytes and nodes and
\* admits the same values (bytes and instants it counts otherwise).
CanonicalBytes ==
  /\ problem.kind = "bytes" =>
       LET d == Codec!Decode(problem.schema, problem.bytes, problem.options)
           e == Codec!Encode(problem.schema, d.value, problem.options)
       IN d.code = "" => e.code = "" /\ e.bytes = problem.bytes /\ e.nodes = d.nodes
  /\ problem.kind = "value" =>
       LET e == Codec!Encode(problem.schema, problem.value, problem.options)
           d == Codec!Decode(problem.schema, e.bytes, problem.options)
       IN /\ e.code = "" => d.code = "" /\ SameData(d.value, problem.value) /\ d.nodes = e.nodes
          /\ problem.schema \in Plain => MeterAgrees(problem.schema, problem.value, problem.options.limits, e)
  /\ problem.kind = "json" =>
       Codec!Encode(Ref("json"), Codec!JsonOf(problem.value), [types |-> Named, limits |-> Wide]).code = ""

\* A registry is accepted exactly when each of its types has a finite value,
\* through any recursion: when the types that can be built from the ground up,
\* the least set closed under Makes, are all of them.
Makes(s, having) ==
  CASE s.kind = "ref"     -> s.type \in having
    [] s.kind = "record"  -> \A i \in DOMAIN s.fields : s.fields[i].schema.type \in having
    [] s.kind = "variant" -> \E i \in DOMAIN s.variants :
         LET part == s.variants[i].schema IN IF part.kind = "ref" THEN part.type \in having ELSE part.fields[1].schema.type \in having
    [] OTHER              -> TRUE
RegistryInhabited ==
  problem.kind = "registry" =>
    LET types == problem.types
        closed(having) == \A t \in DOMAIN types : Makes(types[t], having) => t \in having
    IN RegistryAccepted(types) = \A having \in SUBSET DOMAIN types : closed(having) => having = DOMAIN types

\* Under limits that hold it a message is sent exactly when it has a place on the
\* wire: every alternative, with or without each optional field, up to each bound
\* and no further - but for a number in a schema path, which is refused as well.
\* Under any limits what is sent arrives as it was.  A message has one spelling:
\* damaged bytes that are accepted all the same are those the encoder writes for
\* what was read from them.
MessagesSurvive ==
  /\ problem.kind = "message" =>
       LET schema == Payloads[problem.message]
           passes(sent) == /\ problem.limits = Roomy => sent.ok = Wire!Belongs(schema, problem.value, FALSE)
                           /\ Wire!Survives(schema, problem.value, sent, problem.limits)
       IN passes(Wire!Sent(problem.message, schema, problem.value, problem.limits))
  /\ problem.kind = "spoiled" => Wire!OneSpelling(Payloads[problem.message], problem.bytes, Roomy)

\* A batch of semantic edits of statements on lines of their own does what its
\* edits mean and nothing else: no statement is lost, repeated or changed by an
\* edit of another, and the outcomes name every changed region.
EditsKeepStatements == problem.kind = "edits" => Edits!DoesWhatItMeans(problem.layout, problem.batch)

\* docs/semantic-editing.md:200: "structural reorder and movement carry owned
\* source slices".  An accepted move or reorder among commented statements leaves
\* each statement once, in the order asked for.
MovesCarryStatements == problem.kind = "annotated" => Edits!KeepsCode(Edits!Apply(problem.layout, problem.batch), problem.batch)
=============================================================================

------------------------------ MODULE Interpreter ------------------------------
(***************************************************************************)
(* interpretStructured (packages/engine/src/structured-interpreter.ts) and *)
(* the part of DirectBridge.run (bridge.ts) that runs it: evaluate,        *)
(* executeStatements, calls, and the intrinsics that call back.            *)
(***************************************************************************)
EXTENDS Intrinsics

RECURSIVE Evaluate(_, _, _), Execute(_, _, _), While(_, _, _, _), Call(_, _, _), Insert(_, _, _, _, _)

\* The values of several expressions, each passed through Keep, as one sequence.
EvaluateEach(s, es, env, Keep(_, _)) ==
  FoldLeft(LAMBDA a, i : Go(a, LAMBDA b : Go(Evaluate(b, es[i], env), LAMBDA r :
                                  Go(Keep(r, i), LAMBDA k : Give(k, b.value \o k.value)))),
           Give(s, <<>>), [i \in DOMAIN es |-> i])
One(s, i) == Give(s, <<s.value>>)

-----------------------------------------------------------------------------
(* Statements. *)
Continued(s) == IF s.code = "continue" THEN Fault(s, "") ELSE s
Broken(s)    == IF s.code = "break" THEN Fault(s, "") ELSE s
Inner(s, env, body) == Execute(Scope(s, env), body, Newest(s) + 1)

Bind(s, env, pattern, v, mutable) ==
  LET RECURSIVE bind(_, _, _)
      bind(a, p, w) ==
        CASE p.tag = "hole"  -> a
          [] p.tag = "name"  -> Define(a, env, p.name, w, mutable)
          [] p.tag = "array" -> IF w.t # "list" THEN Invalid(a)
               ELSE FoldLeft(LAMBDA b, i : Go(b, LAMBDA r : bind(r, p.items[i], IF i \in DOMAIN w.v THEN w.v[i] ELSE None)),
                             a, [i \in DOMAIN p.items |-> i])
          [] OTHER -> IF ~IsRecord(w) THEN Invalid(a)
               ELSE FoldLeft(LAMBDA b, f : Go(b, LAMBDA r : bind(r, f.pattern, FieldOr(w, f.name, None))), a, p.fields)
  IN bind(s, pattern, v)

\* for-of and for-in: a scope for every turn.
ForEach(s, values, st, env) ==
  Broken(FoldLeft(LAMBDA a, v : Go(a, LAMBDA b : Go(Charge(b, 1), LAMBDA c :
                    LET turn == Define(Scope(c, env), Newest(c) + 1, st.name, v, st.mutable)
                    IN Continued(Execute(turn, st.body, Newest(turn))))),
                  Collection(s, Len(values)), values))

While(s, st, env, first) ==
  Go(Truth(IF st.checkAfter /\ first THEN Give(s, Bool(TRUE)) ELSE Evaluate(s, st.condition, env)), LAMBDA c :
     IF ~c.value.v THEN c
     ELSE Go(Charge(c, 1), LAMBDA d :
          LET next(ran) == IF ran.code = "break" THEN Broken(ran)
                           ELSE Go(Continued(ran), LAMBDA r : Go(Execute(r, st.increment, env), LAMBDA n : While(n, st, env, FALSE)))
          IN next(Inner(d, env, st.body))))

\* The expression a statement begins with, if it begins with one.
Leading(st) ==
  CASE st.tag \in {"variable", "destructure", "assign", "for-in", "return", "switch"} -> <<st.value>>
    [] st.tag = "expression" -> <<st.expression>>
    [] st.tag = "if"         -> <<st.condition>>
    [] st.tag = "for-of"     -> <<st.values>>
    [] OTHER                 -> <<>>
\* The rest of a statement, for the value of its leading expression.
Statement(r, st, env) ==
  LET v == r.value
  IN CASE st.tag = "variable"    -> Define(r, env, st.name, v, st.mutable)
       [] st.tag = "destructure" -> Bind(r, env, st.pattern, v, st.mutable)
       [] st.tag = "assign"      ->
            IF st.operator = "set" THEN Assign(r, env, st.name, v)
            ELSE Go(Go(Lookup(r, env, st.name), LAMBDA l : Apply(l, st.operator, l.value, v)),
                    LAMBDA n : Assign(n, env, st.name, n.value))
       [] st.tag = "expression"  -> r
       [] st.tag = "if"          -> Go(Truth(r), LAMBDA b : Inner(b, env, IF v.v THEN st.whenTrue ELSE st.whenFalse))
       [] st.tag = "for-of"      -> IF v.t # "list" THEN Invalid(r) ELSE ForEach(r, v.v, st, env)
       [] st.tag = "for-in"      ->
            IF v.t # "list" /\ ~IsRecord(v) THEN Invalid(r)
            ELSE ForEach(r, [i \in DOMAIN v.v |-> IF v.t = "list" THEN Str(<<i - 1>>) ELSE Name(v.v[i][1])], st, env)
       [] st.tag = "loop"        ->
            Go(Execute(Scope(r, env), st.initializer, Newest(r) + 1), LAMBDA i : While(i, st, Newest(r) + 1, TRUE))
       [] st.tag \in {"break", "continue", "return"} -> Fault(r, st.tag)
       [] st.tag = "switch"      ->
            LET tag == IF v.t = "record" THEN FieldOr(v, "tag", Absent) ELSE v
                chosen == SelectSeq(st.cases, LAMBDA c : Is(tag, c.value))
            IN IF (v.t = "record" /\ ~IsRecord(v)) \/ v.t \in {"closure", "builtin"} \/ chosen = <<>> THEN Invalid(r)
               ELSE Broken(Inner(r, env, chosen[1].body))

Polls(s) == IF s.cancelled THEN Fault(s, "cancelled") ELSE s
Execute(s, body, env) ==
  FoldLeft(LAMBDA a, st : Go(a, LAMBDA b : Go(Charge(b, 1), LAMBDA c : Go(Polls(Trace(c, st.tag)),
                                 LAMBDA r :
                           Go(IF Leading(st) = <<>> THEN r ELSE Evaluate(r, Leading(st)[1], env), LAMBDA l : Statement(l, st, env))))), s, body)

-----------------------------------------------------------------------------
(* Calls. *)
\* The depth is given back however the body ends; a break leaves the function.
Call(s, closure, arguments) ==
  Go(Go(EnterCall(s), LAMBDA c : Charge(c, 1)), LAMBDA c :
     IF Len(arguments) < Len(closure.parameters) THEN Invalid(c)
     ELSE LET env == Newest(c) + 1
              bound == FoldLeft(LAMBDA a, i : Go(a, LAMBDA b : Define(b, env, closure.parameters[i], arguments[i], FALSE)),
                                Scope(c, closure.env), [i \in DOMAIN closure.parameters |-> i])
              returned(ran) == IF ran.code = "return" THEN Fault(ran, "") ELSE IF ran.code = "" THEN Invalid(ran) ELSE ran
          IN LeaveCall(returned(Go(bound, LAMBDA b : Execute(b, closure.body, env)))))

\* toSorted: value moves left past the items the comparator puts after it.
Insert(s, items, value, position, comparator) ==
  IF position = 0 THEN Give(s, <<value>> \o items)
  ELSE Go(Charge(s, 1), LAMBDA c :
       LET prior == items[position]
       IN Go(IF comparator.t = "closure" THEN Call(c, comparator, <<prior, value>>)
             ELSE Give(c, Platform("localeCompare", <<prior, value>>)),
             LAMBDA r : IF r.value.t \notin {"int", "float"} \/ r.value.v > 0
                        THEN Insert(r, items, value, position - 1, comparator)
                        ELSE Give(r, SubSeq(items, 1, position) \o <<value>> \o SubSeq(items, position + 1, Len(items)))))
Sorted(s, items, comparator) ==
  Go(FoldLeft(LAMBDA a, v : Go(a, LAMBDA b : Insert(b, b.value, v, Len(b.value), comparator)), Give(s, <<>>), items),
     LAMBDA r : Created(r, List(r.value)))

Callbacks == {"map", "filter", "flatMap", "find", "some", "every", "reduce", "toSorted"}
\* What one answer of the callback adds to the items produced; find, some and
\* every stop at the first that decides, which is marked by answered.
Collects(s, name, item, produced) ==
  LET v == s.value
  IN CASE name = "map"     -> Go(Data(s), LAMBDA r : Give(r, Append(produced, v)))
       [] name = "flatMap" -> IF v.t = "list" THEN Give(s, produced \o v.v) ELSE Invalid(s)
       [] name = "filter"  -> Go(Truth(s), LAMBDA r : Give(r, IF v.v THEN Append(produced, item) ELSE produced))
       [] name = "find"    -> Go(Truth(s), LAMBDA r : IF v.v THEN Fault(Give(r, item), "answered") ELSE Give(r, produced))
       [] name = "some"    -> Go(Truth(s), LAMBDA r : IF v.v THEN Fault(Give(r, v), "answered") ELSE Give(r, produced))
       [] name = "every"   -> Go(Truth(s), LAMBDA r : IF v.v THEN Give(r, produced) ELSE Fault(Give(r, v), "answered"))
Iterated(s, name, items, callback) ==
  LET answer(all) ==
        IF all.code = "answered" THEN Fault(all, "")
        ELSE Go(all, LAMBDA r : CASE name = "find"  -> Give(r, None)
                                  [] name = "some"  -> Give(r, Bool(FALSE))
                                  [] name = "every" -> Give(r, Bool(TRUE))
                                  [] OTHER          -> Created(r, List(r.value)))
  IN answer(FoldLeft(LAMBDA a, i : Go(a, LAMBDA b : Go(Go(Charge(b, 1), LAMBDA c :
                         Call(c, callback, <<items[i], IntV(i - 1), List(items)>>)),
                         LAMBDA r : Collects(r, name, items[i], b.value))),
                     Give(s, <<>>), [i \in DOMAIN items |-> i]))
Reduced(s, items, a) ==
  FoldLeft(LAMBDA b, i : Go(b, LAMBDA r : Go(Charge(r, 1), LAMBDA c :
                  Call(c, a[1], <<r.value, items[i], IntV(i - 1), List(items)>>))),
           Give(s, a[2]), [i \in DOMAIN items |-> i])

Invoke(s, b, a) ==
  LET name == b.name[Len(b.name)]
      items == b.receiver.v
      callback == Arg(a, 1)
  IN IF Len(b.name) = 1 /\ b.receiver.t = "list" /\ name \in Callbacks
     THEN Go(Collection(s, Len(items)), LAMBDA r :
             IF name = "toSorted" THEN Sorted(r, items, callback)
             ELSE IF callback.t # "closure" \/ (name = "reduce" /\ Len(a) < 2) THEN Invalid(r)
             ELSE IF name = "reduce" THEN Reduced(r, items, a)
             ELSE Iterated(r, name, items, callback))
     ELSE PureIntrinsic(s, b, a)

-----------------------------------------------------------------------------
(* Expressions. *)
ItemOf(s, spread) ==
  IF spread THEN IF s.value.t = "list" THEN Give(s, s.value.v) ELSE Invalid(s) ELSE One(Data(s), 0)
\* Object.fromEntries: a later field of a name replaces the value of the earlier.
WithField(fields, f) ==
  IF \E i \in DOMAIN fields : fields[i][1] = f[1]
  THEN [i \in DOMAIN fields |-> IF fields[i][1] = f[1] THEN f ELSE fields[i]] ELSE Append(fields, f)
FieldOf(s, field) ==
  IF ~Spread(field) THEN Go(Data(s), LAMBDA r : Give(r, << <<field.name, r.value>> >>))
  ELSE IF ~IsRecord(s.value) THEN Invalid(s)
  ELSE IF AllData(FieldValues(s.value)) THEN Give(s, s.value.v) ELSE Fault(s, "invalid_output")

Combine(s, e, left, env) ==
  LET combined(right) ==
        CASE e.operator = "and"     -> Go(Truth(s), LAMBDA r : IF left.v THEN right ELSE r)
          [] e.operator = "or"      -> Go(Truth(s), LAMBDA r : IF left.v THEN r ELSE right)
          [] e.operator = "nullish" -> IF left = Null \/ IsNone(left) THEN right ELSE s
          [] e.operator \in {"equal", "not-equal"} ->
               Go(right, LAMBDA r : Go(Equal(r, left, r.value),
                                       LAMBDA q : Give(q, Bool(q.value.v = (e.operator = "equal")))))
          [] e.operator \in Orderings -> Go(right, LAMBDA r : Order(r, e.operator, left, r.value))
          [] e.operator = "in"        -> Go(right, LAMBDA r : IF ~IsRecord(r.value) THEN Invalid(r)
                                               ELSE Give(r, Bool(\E n \in Names(r.value) : Is(left, n))))
          [] OTHER                    -> Go(right, LAMBDA r : Apply(r, e.operator, left, r.value))
  IN combined(Evaluate(s, e.right, env))

Evaluate(s0, e, env) ==
  LET s == Charge(s0, 1)
      operand(i) == Evaluate(s, Operands(e)[i], env)
      all(Keep(_, _)) == EvaluateEach(s, Operands(e), env, Keep)
  IN IF s.code # "" THEN s ELSE
     CASE e.tag = "literal"  -> Give(s, e.value)
       [] e.tag = "name"     -> Lookup(s, env, e.name)
       [] e.tag = "member"   -> Go(operand(1), LAMBDA r : Member(r, e))
       [] e.tag = "index"    -> Go(all(One), LAMBDA r : Index(r, r.value[1], r.value[2], e.optional))
       [] e.tag = "array"    -> Go(all(LAMBDA r, i : ItemOf(r, Spread(e.items[i]))), LAMBDA r :
                                   Go(Collection(r, Len(r.value)), LAMBDA c : Created(c, List(r.value))))
       [] e.tag = "object"   -> Go(all(LAMBDA r, i : FieldOf(r, e.fields[i])),
                                   LAMBDA r : Created(r, Rec(FoldLeft(WithField, <<>>, r.value))))
       [] e.tag = "template" -> Go(all(One), LAMBDA r : Created(r, Platform("template", <<List(r.value)>>)))
       [] e.tag = "unary"    -> Go(operand(1), LAMBDA r : UnaryOf(r, e.operator))
       [] e.tag = "binary"   -> Go(operand(1), LAMBDA r : Combine(r, e, r.value, env))
       [] e.tag = "conditional" -> Go(Truth(operand(1)), LAMBDA r :
                                      Evaluate(r, IF r.value.v THEN e.whenTrue ELSE e.whenFalse, env))
       [] e.tag = "result"   -> Go(Data(operand(1)), LAMBDA r : Created(r, ResultOf(e.variant, r.value)))
       [] e.tag = "action"   -> Go(Data(operand(1)), LAMBDA r : Act(r, e))
       [] e.tag = "function" -> Give(s, Closure(e.parameters, e.body, env))
       [] e.tag = "call"     -> Go(all(One), LAMBDA r :
            LET callee == r.value[1]
            IN CASE callee.t = "closure" -> Call(r, callee, Tail(r.value))
                 [] callee.t = "builtin" -> Invoke(r, callee, Tail(r.value))
                 [] OTHER                -> Invalid(r))

-----------------------------------------------------------------------------
(* Runs. *)
Globals == {"Object", "Array", "Math", "JSON", "Bytes", "Temporal", "console", "parseInt64", "parseFloat64"}
Root(functions) ==
  [n \in Globals |-> [v |-> Builtin(<<n>>, Absent), mutable |-> FALSE]]
  @@ ("undefined" :> [v |-> None, mutable |-> FALSE])
  @@ [n \in {functions[i].name : i \in DOMAIN functions} |->
        LET fn == functions[CHOOSE i \in DOMAIN functions : functions[i].name = n]
        IN [v |-> Closure(fn.parameters, fn.body, 1), mutable |-> FALSE]]

\* What a request brings: its limits, and whether it has a seed, a fixed
\* instant, a trace and a cancellation, which meets the cancelAt-th action.
Started(request) ==
  [limits |-> request.limits, usage |-> NoUsage, code |-> "", value |-> Null, scopes |-> <<>>,
   requests |-> <<>>, trace |-> <<>>, truncated |-> FALSE, tracing |-> request.tracing,
   cancelled |-> FALSE, cancelAt |-> request.cancelAt, answeredFirst |-> request.answeredFirst,
   seeded |-> request.seeded, instant |-> request.instant]

\* What the input counts, before anything is interpreted.
Enter(request, input, size) == Observe(Started(request), [Metrics(input) EXCEPT !.bytes = size])

\* A function may not be named as a global is: the second definition faults.
Interpret(started, program, input) ==
  LET fns     == program.functions
      entered == Go(Charge(Trace(started, "invocation_started"), 1), LAMBDA s : Trace(s, "structured"))
      handler == fns[CHOOSE i \in DOMAIN fns : fns[i].name = program.handler]
      clash(fn) == fn.name \in Globals \cup {"undefined"}
  IN Data(Go(entered, LAMBDA s : IF \E i \in DOMAIN fns : clash(fns[i]) THEN Invalid(s)
                                ELSE Call([s EXCEPT !.scopes = <<[parent |-> 0, cells |-> Root(fns)]>>],
                                          Closure(handler.parameters, handler.body, 1), <<input, Rec(<<>>)>>)))

\* DirectBridge.run from the decoded input on.  What the input counts is outside
\* the try: a fault of it is no result, the promise of the call rejects.  At the
\* end the output is encoded, measured and paid for.
Ended(ran, resultType) ==
  LET paid(s, output, size) ==
        IF output.code # "" THEN Fault(s, "invalid_output")
        ELSE IF size > s.limits.outputBytes THEN Exhausted(s)
        ELSE Go(Observe(s, [Metrics(s.value) EXCEPT !.bytes = size]), LAMBDA r : Charge(r, 1 + ByteFuel(size)))
      measured(s, output) == paid(s, output, Len(output.bytes))
  IN IF ran.code \in {"break", "continue"} THEN Fault(ran, "interpreter_fault")
     ELSE Go(ran, LAMBDA s : measured(s, EncodedAs(resultType, s.value, s)))
Run(program, input, request) ==
  LET fresh   == Started(request)
      started == Enter(request, input, Len(EncodedAs(program.inputType, input, fresh).bytes))
  IN IF started.code # "" THEN Fault(started, "rejected")
     ELSE Ended(Interpret(started, program, input), program.resultType)
=============================================================================

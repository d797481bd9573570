------------------------------ MODULE Intrinsics ------------------------------
(***************************************************************************)
(* The values and scopes of a run and what its operators, members,         *)
(* actions and intrinsics do to it (packages/engine/src/                   *)
(* structured-interpreter.ts, and ActionDispatcher of bridge.ts), each an  *)
(* operator from the state of a run to the state after it.  A text is a    *)
(* sequence of symbols; the name of a field is one symbol.                 *)
(*                                                                         *)
(* Platform is the JavaScript engine: floating point, bitwise and Math     *)
(* functions, text conversions, JSON and dates.  Host answers actions.     *)
(***************************************************************************)
EXTENDS ExecutionMeter, StructuredIR, TLC

CONSTANTS
  Platform(_, _),  \* what a function of the platform returns for some arguments, or Absent
  Host(_, _)       \* what an operation returns for an input, or Absent when it fails

Absent  == [t |-> "absent"]
Closure(parameters, body, env) == [t |-> "closure", parameters |-> parameters, body |-> body, env |-> env]
Builtin(name, receiver)        == [t |-> "builtin", name |-> name, receiver |-> receiver]

Name(n) == Str(<<n>>)
None    == Rec(<< <<"tag", Name("none")>>, <<"value", Null>> >>)
ResultOf(variant, v) == Rec(<< <<"tag", Name(variant)>>, <<"value", v>> >>)
ErrorCode(code)      == ResultOf("error", Rec(<< <<"code", Name(code)>> >>))

\* A record with a field named kind is not taken for a record, whatever it holds.
IsRecord(v)  == v.t = "record" /\ "kind" \notin Names(v)
Is(v, name)  == v.t = "text" /\ v.v = <<name>>
IsNone(v)    == v.t = "record" /\ "tag" \in Names(v) /\ Is(Field(v, "tag"), "none")
Canonical(v) == /\ v.t \notin {"closure", "builtin"}
                /\ v.t = "record" /\ "kind" \in Names(v) => ~Is(Field(v, "kind"), "closure") /\ ~Is(Field(v, "kind"), "builtin")
FieldOr(v, name, default) == IF name \in Names(v) THEN Field(v, name) ELSE default

Invalid(s) == Fault(s, "invalid_ir")
Truth(s) == Go(s, LAMBDA r : IF r.value.t = "bool" THEN r ELSE Invalid(r))
Data(s)  == Go(s, LAMBDA r : IF Canonical(r.value) THEN r ELSE Fault(r, "invalid_output"))

RECURSIVE SameData(_, _)
SameData(a, b) ==
  /\ a.t = b.t
  /\ CASE a.t \in {"null", "absent"} -> TRUE
       [] a.t = "float"  -> Number(a.v) = Number(b.v)
       [] a.t = "list"   -> Len(a.v) = Len(b.v) /\ \A i \in DOMAIN a.v : SameData(a.v[i], b.v[i])
       [] a.t = "record" -> Names(a) = Names(b) /\ \A n \in Names(a) : SameData(Field(a, n), Field(b, n))
       [] OTHER          -> a.v = b.v

-----------------------------------------------------------------------------
(* Environment: the scopes of a run, each a map of cells under a parent. *)
Scope(s, parent) == [s EXCEPT !.scopes = Append(@, [parent |-> parent, cells |-> <<>>])]
Newest(s) == Len(s.scopes)

RECURSIVE Holder(_, _, _)
Holder(s, env, name) ==
  IF env = 0 \/ name \in DOMAIN s.scopes[env].cells THEN env ELSE Holder(s, s.scopes[env].parent, name)

Define(s, env, name, v, mutable) ==
  IF name \in DOMAIN s.scopes[env].cells THEN Invalid(s)
  ELSE [s EXCEPT !.scopes[env].cells = (name :> [v |-> v, mutable |-> mutable]) @@ @]
Lookup(s, env, name) ==
  LET home == Holder(s, env, name)
  IN IF home = 0 THEN Invalid(s) ELSE Give(s, s.scopes[home].cells[name].v)
Assign(s, env, name, v) ==
  LET home == Holder(s, env, name)
  IN IF home = 0 THEN Invalid(s)
     ELSE IF ~s.scopes[home].cells[name].mutable THEN Invalid(s)
     ELSE [s EXCEPT !.scopes[home].cells[name].v = v]

-----------------------------------------------------------------------------
(* arithmetic and ordered. *)
Magnitude(n) == IF n < 0 THEN -n ELSE n
Quotient(l, r) == IF (l < 0) = (r < 0) THEN Magnitude(l) \div Magnitude(r) ELSE -(Magnitude(l) \div Magnitude(r))
RECURSIVE Power2(_)
Power2(n) == IF n = 0 THEN 1 ELSE 2 * Power2(n - 1)

OnIntegers(operator, l, r) ==
  CASE operator = "add"         -> l + r
    [] operator = "subtract"    -> l - r
    [] operator = "multiply"    -> l * r
    [] operator = "divide"      -> Quotient(l, r)
    [] operator = "remainder"   -> l - r * Quotient(l, r)
    [] operator = "shift-left"  -> l * Power2(r)
    [] operator = "shift-right" -> l \div Power2(r)
    [] OTHER                    -> Platform(operator, <<IntV(l), IntV(r)>>).v

Numeric(v) == v.t \in {"int", "float"}
Divides(operator) == operator \in {"divide", "remainder"}
ShiftWidth == 63
Apply(s, operator, l, r) ==
  IF l.t = "int" /\ r.t = "int" THEN
    IF Divides(operator) /\ r.v = 0 THEN Fault(s, "invalid_arithmetic")
    ELSE IF operator \in {"shift-left", "shift-right"} /\ r.v \notin 0 .. ShiftWidth THEN Fault(s, "invalid_arithmetic")
    ELSE LET n == OnIntegers(operator, l.v, r.v)
         IN IF n \in Int64Min .. Int64Max THEN Give(s, IntV(n)) ELSE Fault(s, "integer_overflow")
  ELSE IF Numeric(l) /\ Numeric(r) /\ operator \in {"add", "subtract", "multiply", "divide", "remainder"} THEN
    \* a float, or an integer promoted to one
    IF Divides(operator) /\ Number(r.v) = 0 THEN Fault(s, "invalid_arithmetic")
    ELSE LET x == Platform(operator, <<l, r>>)
         IN IF x = Float(NotFinite) THEN Fault(s, "non_finite_number") ELSE Give(s, x)
  ELSE IF operator = "add" /\ l.t = "text" /\ r.t = "text" THEN Give(s, Str(l.v \o r.v))
  ELSE Invalid(s)

Order(s, operator, l, r) ==
  LET below(a, b) == IF a.t = "int" THEN a.v < b.v ELSE Platform("less", <<a, b>>).v
      answer == CASE operator = "less"          -> below(l, r)
                  [] operator = "less-equal"    -> ~below(r, l)
                  [] operator = "greater"       -> below(r, l)
                  [] operator = "greater-equal" -> ~below(l, r)
  IN IF l.t # r.t \/ l.t \notin {"int", "float", "text"} THEN Invalid(s) ELSE Give(s, Bool(answer))

Equal(s, l, r) ==
  LET mixed == {l.t, r.t} = {"int", "float"}
      equal == IF mixed THEN Number(l.v) = Number(r.v) ELSE SameData(l, r)
  IN Go(IF Canonical(l) /\ Canonical(r) THEN Scan(s, <<l, r>>) ELSE Fault(s, "invalid_output"),
        LAMBDA q : Give(q, Bool(equal)))

UnaryOf(s, operator) ==
  LET v == s.value
  IN CASE operator = "not"    -> Go(Truth(s), LAMBDA r : Give(r, Bool(~v.v)))
       [] operator = "negate" -> IF v.t = "int" THEN Give(s, IntV(-v.v))   \* not checked against the range
                                 ELSE IF v.t = "float" THEN Give(s, Platform("negate", <<v>>)) ELSE Invalid(s)
       [] OTHER               -> IF v.t = "int" THEN Give(s, IntV(-1 - v.v)) ELSE Invalid(s)

-----------------------------------------------------------------------------
(* Access to members, and the action hook. *)
Member(s, e) ==
  LET v == s.value
  IN IF e.optional /\ (v = Null \/ IsNone(v)) THEN Give(s, None)
     ELSE IF v.t = "builtin" THEN Give(s, Builtin(Append(v.name, e.name), Absent))
     ELSE IF v.t \in {"list", "text"}
          THEN Give(s, IF e.name = "length" THEN IntV(Len(v.v)) ELSE Builtin(<<e.name>>, v))
     ELSE IF ~IsRecord(v) THEN Invalid(s)
     ELSE IF e.name = "toString" /\ {"epochSeconds", "nanoseconds"} \subseteq Names(v)
          THEN Give(s, Builtin(<<"Temporal", "Instant", "toString">>, v))
     ELSE Give(s, FieldOr(v, e.name, None))

\* An index past the end of a list reads what JavaScript calls undefined.
Index(s, v, index, optional) ==
  LET at == IF Numeric(index) THEN Number(index.v) + 1 ELSE 0
  IN IF optional /\ v = Null THEN Give(s, None)
     ELSE IF v.t = "list" THEN Give(s, IF at \in DOMAIN v.v THEN v.v[at] ELSE Absent)
     ELSE IF v.t = "text" THEN Give(s, Str(IF at \in DOMAIN v.v THEN <<v.v[at]>> ELSE <<>>))
     ELSE IF ~IsRecord(v) THEN Invalid(s)
     ELSE Give(s, IF index.t = "text" /\ Len(index.v) = 1 THEN FieldOr(v, index.v[1], Absent) ELSE Absent)

EncodedAs(schema, v, s) == Encode(schema, v, [types |-> Types, limits |-> s.limits])

\* The request is recorded before it is known that it can be paid for.
RecordsFirst(s, e, bytes) ==
  LET asked == [s EXCEPT !.usage.hostCalls = @ + 1, !.requests = Append(@, e.operationId)]
  IN Go(IF s.usage.hostCalls + 1 > s.limits.hostCalls THEN Exhausted(asked) ELSE asked,
        LAMBDA r : Charge(r, HostActionFuel(Operations[e.operationId].effectCost, bytes)))
Requests(s, e, bytes) ==
  Go(IF s.usage.hostCalls + 1 > s.limits.hostCalls THEN Exhausted(s)
     ELSE Charge(s, HostActionFuel(Operations[e.operationId].effectCost, bytes)),
     LAMBDA r : [r EXCEPT !.usage.hostCalls = @ + 1, !.requests = Append(@, e.operationId)])

\* ActionDispatcher.handle.  A cancellation races the answer of the request it
\* meets: it wins, or it is seen at the next statement or action.
Answered(s, e, answer) ==
  IF answer = Absent THEN Fault(s, "handler_fault")
  ELSE IF EncodedAs(e.resultType, answer, s).code # "" THEN Fault(s, "action_outcome_invalid")
  ELSE Go(Scan(s, <<answer>>), LAMBDA r : Created(r, answer))
Act(s, e) ==
  LET cancels(r)  == Len(r.requests) = r.cancelAt
      resolved(r) == IF cancels(r) THEN [r EXCEPT !.cancelled = TRUE] ELSE r
      asked(input) == IF input.code # "" THEN Fault(s, "value_limit") ELSE Requests(s, e, Len(input.bytes))
  IN IF s.cancelled THEN Fault(s, "cancelled")
     ELSE IF e.operationId \notin DOMAIN Operations THEN Invalid(s)
     ELSE Go(asked(EncodedAs(e.inputType, s.value, s)), LAMBDA r :
          IF cancels(r) /\ ~s.answeredFirst THEN Fault(resolved(r), "cancelled")
          ELSE Answered(resolved(r), e, Host(e.operationId, r.value)))
-----------------------------------------------------------------------------
(* invokeBuiltin, except for the intrinsics that call back: a is the list  *)
(* of arguments and b the builtin.                                         *)
Arg(a, i)  == IF i \in DOMAIN a THEN a[i] ELSE Absent
Linear(s, n, v) == Created(Go(s, LAMBDA r : Charge(r, n)), v)
AllData(values) == \A i \in DOMAIN values : Canonical(values[i])
FieldValues(v) == [i \in DOMAIN v.v |-> v.v[i][2]]

ObjectIntrinsic(s, name, a) ==
  LET v       == Arg(a, 1)
      charged == IF name = "hasOwn" THEN s ELSE Charge(s, Len(v.v))
      data(w) == Go(charged, LAMBDA r : IF AllData(FieldValues(v)) THEN Created(r, w) ELSE Fault(r, "invalid_output"))
  IN IF ~IsRecord(v) THEN Invalid(s)      \* the entries are taken before the name is looked at
     ELSE IF name = "keys"    THEN Created(charged, List([i \in DOMAIN v.v |-> Name(v.v[i][1])]))
     ELSE IF name = "values"  THEN data(List(FieldValues(v)))
     ELSE IF name = "entries" THEN data(List([i \in DOMAIN v.v |-> List(<<Name(v.v[i][1]), v.v[i][2]>>)]))
     ELSE IF name = "hasOwn"  THEN Give(s, Bool(Arg(a, 2).t = "text" /\ \E n \in Names(v) : Is(a[2], n)))
     ELSE IF name = "fromEntries" THEN Go(charged, Invalid)   \* a record is no list
     ELSE Go(Go(charged, LAMBDA r : Charge(r, 1)), Invalid)

ArrayIntrinsic(s, name, a) ==
  LET v == Arg(a, 1)
      items == IF v.t = "list" THEN v.v ELSE [i \in DOMAIN v.v |-> Str(<<v.v[i]>>)]
  IN IF name = "isArray" THEN Give(s, Bool(v.t = "list"))
     ELSE IF name = "from"
          THEN IF v.t \in {"list", "text"} THEN Go(Collection(s, Len(items)), LAMBDA r : Linear(r, Len(items), List(items)))
               ELSE Invalid(s)
     ELSE Go(Charge(s, 1), Invalid)

\* Math.random draws from the seed, when there is one.
MathIntrinsic(s, name, a) ==
  Go(IF name # "random" /\ Platform("Math", <<name>>) = Absent THEN Invalid(s) ELSE Charge(s, 1), LAMBDA r :
     IF name = "random" THEN IF r.seeded THEN Give(r, Platform("random", a)) ELSE Fault(r, "random_seed_required")
     ELSE LET x == Platform(name, a)
          IN IF x.t = "float" /\ x.v = NotFinite THEN Fault(r, "non_finite_number") ELSE Give(r, x))

ParseIntrinsic(s, name, a) ==
  LET text == Arg(a, 1)
      n    == Platform(name, <<text>>)   \* the number a text spells, or Absent
      bad  == IF name = "parseInt64" THEN "invalid_integer" ELSE "invalid_float"
  IN IF text.t # "text" \/ n = Absent THEN Created(s, ErrorCode(bad))
     ELSE IF name = "parseInt64" /\ n.v \notin Int64Min .. Int64Max THEN Created(s, ErrorCode("integer_overflow"))
     ELSE Created(s, ResultOf("ok", n))

JsonIntrinsic(s, name, a) ==
  LET v == Arg(a, 1)
      x == Platform(name, <<v>>)
  IN IF name = "stringify" THEN IF x = Absent THEN Invalid(s) ELSE Created(s, x)
     ELSE IF v.t # "text" THEN Invalid(s)
     ELSE IF x = Absent THEN Created(s, ErrorCode("invalid_json"))
     ELSE Created(Go(Charge(s, ByteFuel(Len(v.v))), LAMBDA r : Scan(r, <<ResultOf("ok", x)>>)), ResultOf("ok", x))

BytesIntrinsic(s, name, a) ==
  LET v == Arg(a, 1)
      x == Platform(name, <<v>>)
  IN IF name = "fromUtf8" THEN Created(s, x)
     ELSE IF name = "toUtf8"
          THEN IF v.t # "list" THEN Invalid(s)
               ELSE IF \E i \in DOMAIN v.v : v.v[i].t # "float" THEN Invalid(s)
               ELSE Created(s, IF x = Absent THEN ErrorCode("invalid_utf8") ELSE x)
     ELSE IF v.t # "text" \/ x = Absent THEN Invalid(s)
     ELSE Give(Go(s, LAMBDA r : Allocate(r, ResultOf("ok", x))), x)   \* charged as a result, returned bare

IsInstant(v) == /\ IsRecord(v) /\ {"epochSeconds", "nanoseconds"} \subseteq Names(v)
                /\ Field(v, "epochSeconds").t = "int" /\ Field(v, "nanoseconds").t = "float"
CompareInstants(l, r) ==
  LET seconds(v) == Field(v, "epochSeconds").v
      nanos(v)   == Number(Field(v, "nanoseconds").v)
  IN IF seconds(l) = seconds(r) /\ nanos(l) = nanos(r) THEN 0
     ELSE IF seconds(l) < seconds(r) \/ (seconds(l) = seconds(r) /\ nanos(l) < nanos(r)) THEN -1 ELSE 1
TemporalNames == {<<"Temporal", "Instant", n>> : n \in {"from", "compare", "toString"}} \cup {<<"Temporal", "Now", "instant">>}
TemporalIntrinsic(s, name, b, a) ==
  LET x == Platform("instant", IF name = "toString" THEN <<b.receiver>> ELSE a)
  IN CASE name = "from"     -> Created(s, IF Arg(a, 1).t # "text" \/ x = Absent THEN ErrorCode("invalid_instant") ELSE x)
       [] name = "compare"  -> IF IsInstant(Arg(a, 1)) /\ IsInstant(Arg(a, 2))
                               THEN Give(s, IntV(CompareInstants(a[1], a[2]))) ELSE Invalid(s)
       [] name = "toString" -> IF IsInstant(b.receiver) /\ x # Absent THEN Created(s, x) ELSE Invalid(s)
       [] OTHER             -> IF s.instant = Absent THEN Fault(s, "fixed_instant_required")
                               ELSE Give(Charge(s, 1), s.instant)

ConsoleIntrinsic(s, name, a) ==
  IF name \notin {"log", "info", "warn", "error"} THEN Invalid(s)
  ELSE IF ~AllData(a) THEN Fault(s, "invalid_output")
  ELSE Go(Charge(s, 1), LAMBDA r : Give(Trace(r, name), Null))

Clamp(i, n)  == IF i < 0 THEN IF i + n < 0 THEN 0 ELSE i + n ELSE IF i > n THEN n ELSE i
Position(v)  == IF v.t \in {"int", "float"} THEN {Number(v.v)} ELSE {}    \* Number(v) when it is a safe integer
Sliced(items, a) ==
  LET from == Clamp(IF Arg(a, 1) = Absent THEN 0 ELSE a[1].v, Len(items))
      upto == Clamp(IF Arg(a, 2) = Absent THEN Len(items) ELSE a[2].v, Len(items))
  IN SubSeq(items, from + 1, upto)

ListIntrinsics == {"join", "with", "toReversed", "toSpliced", "includes", "slice", "concat"}
ListIntrinsic(s, name, items, a) ==
  LET n == Len(items)
      first == Position(Arg(a, 1))
      count == Position(Arg(a, 2))
      rest  == SubSeq(a, 3, Len(a))
      gone(k) == IF Clamp(k, n) + Min(count) > n THEN n ELSE Clamp(k, n) + Min(count)
      spliced == SubSeq(items, 1, Clamp(Min(first), n)) \o rest \o SubSeq(items, gone(Min(first)) + 1, n)
      separator == IF Arg(a, 1) = Absent THEN Name(",") ELSE a[1]
      joined == FoldLeft(LAMBDA t, i : t \o (IF i = 1 THEN <<>> ELSE separator.v) \o items[i].v, <<>>, [i \in 1 .. n |-> i])
      added  == FoldLeft(LAMBDA t, v : IF v.t = "list" THEN t \o v.v ELSE Append(t, v), items, a)
  IN CASE name = "join"       -> IF separator.t # "text" \/ \E i \in DOMAIN items : items[i].t # "text" THEN Invalid(s)
                                 ELSE Linear(s, n, Str(joined))
       [] name = "with"       -> IF first = {} \/ ~(first \subseteq 0 .. n - 1) THEN Fault(s, "invalid_arithmetic")
                                 ELSE IF ~Canonical(Arg(a, 2)) THEN Fault(s, "invalid_output")
                                 ELSE Linear(s, n, List([items EXCEPT ![Min(first) + 1] = a[2]]))
       [] name = "toReversed" -> Linear(s, n, List(Reverse(items)))
       [] name = "toSpliced"  -> IF first = {} \/ count = {} \/ Min(count) < 0 THEN Fault(s, "invalid_arithmetic")
                                 ELSE IF ~AllData(rest) THEN Fault(s, "invalid_output")
                                 ELSE Go(Collection(s, Len(spliced)), LAMBDA r : Linear(r, n, List(spliced)))
       [] name = "includes"   -> IF ~Canonical(Arg(a, 1)) /\ n > 0 THEN Fault(s, "invalid_output")
                                 ELSE Give(s, Bool(\E i \in DOMAIN items : SameData(items[i], a[1])))
       [] name = "slice"      -> Linear(s, n, List(Sliced(items, a)))
       [] name = "concat"     -> IF ~AllData(a) THEN Fault(Charge(s, n), "invalid_output") ELSE Linear(s, n, List(added))

TextIntrinsic(s, name, text, a) ==
  IF name \in {"includes", "startsWith", "endsWith"} THEN Give(s, Platform(name, <<Str(text)>> \o a))
  ELSE IF name = "slice" THEN Created(s, Str(Sliced(text, a)))
  ELSE IF name \in {"trim", "toUpperCase", "toLowerCase"} THEN Created(s, Platform(name, <<Str(text)>>))
  ELSE Go(Charge(s, 1), Invalid)

\* The intrinsics that need nothing of the evaluator.
PureIntrinsic(s, b, a) ==
  LET group == b.name[1]
      name  == b.name[Len(b.name)]
      of(g) == group = g /\ Len(b.name) = 2
      unsupported(r) == Go(Charge(r, 1), Invalid)
  IN CASE of("Object")  -> ObjectIntrinsic(s, name, a)
       [] of("Array")   -> ArrayIntrinsic(s, name, a)
       [] of("Math")    -> MathIntrinsic(s, name, a)
       [] of("JSON") /\ name \in {"parse", "stringify"} -> JsonIntrinsic(s, name, a)
       [] of("Bytes") /\ name \in {"fromUtf8", "toUtf8", "fromHex"} -> BytesIntrinsic(s, name, a)
       [] of("console") -> ConsoleIntrinsic(s, name, a)
       [] b.name \in TemporalNames -> TemporalIntrinsic(s, name, b, a)
       [] b.name \in {<<"parseInt64">>, <<"parseFloat64">>} -> ParseIntrinsic(s, group, a)
       [] b.receiver.t = "list"     -> Go(Collection(s, Len(b.receiver.v)), LAMBDA r :
                                          IF name \in ListIntrinsics THEN ListIntrinsic(r, name, b.receiver.v, a) ELSE unsupported(r))
       [] b.receiver.t = "text"     -> TextIntrinsic(s, name, b.receiver.v, a)
       [] OTHER                     -> unsupported(s)
=============================================================================

----------------------------- MODULE StructuredIR -----------------------------
(***************************************************************************)
(* The verifier of structured programs (packages/engine/src/               *)
(* structured-ir.ts): the shape of schemas, expressions and statements,    *)
(* the agreement of a program with its slot, and the operations its        *)
(* actions request, which its summary must list.                           *)
(*                                                                         *)
(* A program is a tree of records as the source declares it, without the   *)
(* source locations.  A leaf the code would find to be of another type is  *)
(* Malformed.  An item of an array or an object is declared an expression  *)
(* or a field, or [spread |-> e]; an artifact may hold one that is both.   *)
(***************************************************************************)
EXTENDS Integers, Sequences, FiniteSets, SequencesExt

CONSTANTS
  Types,        \* the registry's schemas, by type identifier
  Operations,   \* the registry's operations: [input, output, error, effectCost] by identifier
  Slot,         \* [input, output, operations]
  Nesting,      \* 256: how deep expressions and statements may nest
  SchemaNesting \* 128: how deep schemas and patterns may nest

Malformed == "?"
Text(leaf) == leaf # Malformed

Arithmetic == {"add", "subtract", "multiply", "divide", "remainder",
               "bit-and", "bit-or", "bit-xor", "shift-left", "shift-right"}
Orderings  == {"less", "less-equal", "greater", "greater-equal"}
Binary     == Arithmetic \cup Orderings \cup {"equal", "not-equal", "and", "or", "nullish", "in"}
Unary      == {"not", "negate", "bit-not"}

\* A tag of a variant is a text.
OkTag    == <<"ok">>
ErrorTag == <<"error">>
Ref(type) == [kind |-> "ref", type |-> type]
ResultSchema(output, error) ==
  [kind |-> "variant",
   variants |-> <<[tag |-> OkTag, schema |-> output], [tag |-> ErrorTag, schema |-> error]>>]

Every(Holds(_), seq) == \A i \in DOMAIN seq : Holds(seq[i])
Distinct(seq, Key(_)) == \A i, j \in DOMAIN seq : Key(seq[i]) = Key(seq[j]) => i = j
BoundsOK(s) == \A bound \in {"maxBytes", "maxItems"} \cap DOMAIN s : s[bound] >= 0

RECURSIVE SchemaOK(_, _)
SchemaOK(s, depth) ==
  LET child(item)   == SchemaOK(item, depth + 1)
      field(f)      == Text(f.name) /\ child(f.schema)
      alternative(v) == Text(v.tag) /\ child(v.schema)
      name(f) == f.name
      tag(v)  == v.tag
  IN /\ depth <= SchemaNesting
     /\ \/ s.kind \in {"unit", "boolean", "int64", "float64", "instant"}
        \/ s.kind \in {"string", "bytes"} /\ BoundsOK(s)
        \/ s.kind = "list" /\ child(s.item) /\ BoundsOK(s)
        \/ s.kind = "tuple" /\ Every(child, s.items)
        \/ s.kind = "record" /\ Distinct(s.fields, name) /\ Every(field, s.fields)
        \/ s.kind = "variant" /\ Distinct(s.variants, tag) /\ Every(alternative, s.variants)
        \/ s.kind = "brand" /\ s.type \in DOMAIN Types /\ child(s.base)
        \/ s.kind = "ref" /\ s.type \in DOMAIN Types

RECURSIVE PatternOK(_, _)
PatternOK(p, nested) ==
  LET entry(item) == item.tag = "hole" \/ PatternOK(item, nested + 1)
      field(f)    == Text(f.name) /\ PatternOK(f.pattern, nested + 1)
  IN /\ nested <= SchemaNesting
     /\ \/ p.tag = "name" /\ Text(p.name)
        \/ p.tag = "array" /\ Every(entry, p.items)
        \/ p.tag = "object" /\ Every(field, p.fields)

Spread(item) == "spread" \in DOMAIN item

(* The expressions directly below an expression, and the blocks of a function: *)
(* what structuredActions visits and the interpreter evaluates.                *)
Operands(e) ==
  CASE e.tag = "member"      -> <<e.value>>
    [] e.tag = "index"       -> <<e.value, e.index>>
    [] e.tag = "array"       -> [i \in DOMAIN e.items |-> IF Spread(e.items[i]) THEN e.items[i].spread ELSE e.items[i]]
    [] e.tag = "object"      -> [i \in DOMAIN e.fields |-> IF Spread(e.fields[i]) THEN e.fields[i].spread ELSE e.fields[i].value]
    [] e.tag = "template"    -> SelectSeq(e.parts, LAMBDA part : part.tag # "text")
    [] e.tag \in {"unary", "result"} -> <<e.value>>
    [] e.tag = "binary"      -> <<e.left, e.right>>
    [] e.tag = "conditional" -> <<e.condition, e.whenTrue, e.whenFalse>>
    [] e.tag = "call"        -> <<e.callee>> \o e.arguments
    [] e.tag = "action"      -> <<e.input>>
    [] OTHER                 -> <<>>

(* The expressions of a statement, and the blocks inside it. *)
Parts(s) ==
  CASE s.tag \in {"variable", "destructure", "assign", "for-in", "return", "switch"} -> <<s.value>>
    [] s.tag = "expression"     -> <<s.expression>>
    [] s.tag \in {"if", "loop"} -> <<s.condition>>
    [] s.tag = "for-of"         -> <<s.values>>
    [] OTHER                    -> <<>>
\* A visitor that forgets what a loop does between two turns.
LoopBlocksNoIncrement(s) == <<s.initializer, s.body>>
LoopBlocks(s) == <<s.initializer, s.increment, s.body>>
Blocks(s) ==
  CASE s.tag = "if"     -> <<s.whenTrue, s.whenFalse>>
    [] s.tag \in {"for-of", "for-in"} -> <<s.body>>
    [] s.tag = "loop"   -> LoopBlocks(s)
    [] s.tag = "switch" -> [i \in DOMAIN s.cases |-> s.cases[i].body]
    [] OTHER            -> <<>>
ActionOK(e) ==
  /\ e.operationId \in DOMAIN Operations /\ e.operationId \in Slot.operations
  /\ Text(e.actionSiteId)
  /\ SchemaOK(e.inputType, 0) /\ SchemaOK(e.resultType, 0)
  /\ LET operation == Operations[e.operationId]
     IN /\ e.inputType = Ref(operation.input)
        /\ e.resultType = ResultSchema(Ref(operation.output), Ref(operation.error))

RECURSIVE ExpressionOK(_, _), StatementsOK(_, _)
ExpressionOK(e, depth) ==
  LET child(x) == ExpressionOK(x, depth + 1)
      spread(item) == Spread(item) /\ child(item.spread)
      itemOK(item) == ("tag" \in DOMAIN item /\ child(item)) \/ spread(item)
      fieldOK(f)   == ("value" \in DOMAIN f /\ Text(f.name) /\ child(f.value)) \/ spread(f)
  IN /\ depth <= Nesting
     /\ CASE e.tag = "array"               -> Every(itemOK, e.items)   \* its spread is not looked at when it is an expression
          [] e.tag = "object"              -> Every(fieldOK, e.fields)
          [] e.tag = "literal"             -> e.kind \in {"unit", "boolean", "int64", "float64", "string"}
          [] e.tag \in {"name", "member"}  -> Text(e.name)
          [] e.tag = "unary"               -> e.operator \in Unary
          [] e.tag = "binary"              -> e.operator \in Binary
          [] e.tag = "function"            -> Every(Text, e.parameters) /\ StatementsOK(e.body, depth + 1)
          [] e.tag = "result"              -> e.variant \in {"ok", "error"}
          [] e.tag = "action"              -> ActionOK(e)
          [] OTHER -> e.tag \in {"index", "template", "conditional", "call"}
     /\ e.tag \in {"array", "object"} \/ Every(child, Operands(e))

StatementsOK(body, depth) ==
  LET expr(e)  == ExpressionOK(e, depth + 1)
      block(b) == StatementsOK(b, depth + 1)
      caseOK(c) == Text(c.value)
      ok(s) ==
        /\ CASE s.tag \in {"variable", "for-of", "for-in"} -> Text(s.name)
             [] s.tag = "destructure" -> PatternOK(s.pattern, 0)
             [] s.tag = "assign"      -> Text(s.name) /\ s.operator \in Arithmetic \cup {"set"}
             [] s.tag = "switch"      -> Every(caseOK, s.cases)
             [] OTHER -> s.tag \in {"expression", "if", "loop", "break", "continue", "return"}
        /\ Every(expr, Parts(s)) /\ Every(block, Blocks(s))
  IN depth <= Nesting /\ Every(ok, body)

(* structuredActions: the operations of every action of a tree. *)
RECURSIVE OperationsOf(_), BlockOperations(_)
OperationsOf(e) ==
  UNION ({OperationsOf(Operands(e)[i]) : i \in DOMAIN Operands(e)}
         \cup {IF e.tag = "action" THEN {e.operationId} ELSE {}}
         \cup {IF e.tag = "function" THEN BlockOperations(e.body) ELSE {}})
BlockOperations(body) ==
  UNION {LET s == body[i]
         IN UNION ({OperationsOf(Parts(s)[j]) : j \in DOMAIN Parts(s)}
                   \cup {BlockOperations(Blocks(s)[j]) : j \in DOMAIN Blocks(s)}) : i \in DOMAIN body}

RequestedOperations(program) ==
  UNION {BlockOperations(program.functions[i].body) : i \in DOMAIN program.functions}

(* verifyStructuredProgram, and verifyProgram: the operations the engine looks up. *)
VerifyProgram(program) ==
  LET name(fn) == fn.name
      function(fn) == Text(fn.name) /\ Every(Text, fn.parameters) /\ StatementsOK(fn.body, 0)
  IN /\ program.version = <<1, 1>>
     /\ SchemaOK(program.inputType, 0) /\ SchemaOK(program.resultType, 0)
     /\ program.inputType = Ref(Slot.input) /\ program.resultType = Ref(Slot.output)
     /\ Distinct(program.functions, name) /\ Every(function, program.functions)
     /\ \E i \in DOMAIN program.functions : program.functions[i].name = program.handler
     /\ RequestedOperations(program) = program.summary
=============================================================================

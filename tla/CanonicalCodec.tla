---------------------------- MODULE CanonicalCodec ----------------------------
(***************************************************************************)
(* The canonical value codec (packages/contracts/src/index.ts): the        *)
(* registry of schemas, encodeCanonical, decodeCanonical and canonicalJson.*)
(*                                                                         *)
(* Bytes are 0 .. Base - 1: three bits of major type and Step additional   *)
(* values, of which the first Direct stand for themselves, the next two    *)
(* announce one and two bytes of argument (the code's four widths differ   *)
(* in nothing else) and the rest are reserved.  A float is one byte of     *)
(* payload.  A text is a sequence of bytes, and well formed when all of    *)
(* them are in Chars.  The code walks its tasks depth first from a stack,  *)
(* which is the recursion written here.                                    *)
(***************************************************************************)
EXTENDS Integers, Sequences, FiniteSets, SequencesExt

CONSTANTS
  Direct, Step,        \* 24 and 32
  Int64Max,
  Nanoseconds,         \* 10^9
  InstantMax,          \* the seconds of TEMPORAL_MAX
  Chars,               \* the bytes of well-formed text
  JsonType, JsonTags   \* the identifier of the built-in JSON type, and its tags

Int64Min   == -Int64Max - 1
InstantMin == -InstantMax

Base == 8 * Step
FalseByte == 7 * Step
TrueByte  == FalseByte + 1
UnitByte  == FalseByte + 2
FloatByte == FalseByte + 3

\* The numbers a float may not be, and the payloads that stand for them.
NegativeZero == -1
NotFinite    == -2
BadPayloads  == {Base - 1, Base - 2}
Number(x)    == IF x = NegativeZero THEN 0 ELSE x

Null       == [t |-> "null"]
Bool(b)    == [t |-> "bool", v |-> b]
IntV(n)    == [t |-> "int", v |-> n]
Float(x)   == [t |-> "float", v |-> x]
Str(chars) == [t |-> "text", v |-> chars]
List(items) == [t |-> "list", v |-> items]
Rec(fields) == [t |-> "record", v |-> fields]   \* a sequence of <<name, value>>, in insertion order

Names(record) == {record.v[i][1] : i \in DOMAIN record.v}
Field(record, name) == record.v[CHOOSE i \in DOMAIN record.v : record.v[i][1] = name][2]
Tagged(tag, value)  == Rec(<< <<"tag", Str(tag)>>, <<"value", value>> >>)

-----------------------------------------------------------------------------
(* Schemas. *)
RECURSIVE Follow(_, _, _)
Follow(schema, types, seen) ==
  IF schema.kind # "ref" THEN schema
  ELSE IF schema.type \in seen THEN [kind |-> "invalid_schema"]
  ELSE IF schema.type \notin DOMAIN types THEN [kind |-> "unknown_type"]
  ELSE Follow(types[schema.type], types, seen \cup {schema.type})
Resolved(schema, types) == Follow(schema, types, {})

Within(s, x) == ("minimum" \in DOMAIN s => s.minimum <= x) /\ ("maximum" \in DOMAIN s => x <= s.maximum)
AtMost(s, bound, n) == bound \in DOMAIN s => n <= s[bound]

\* What defineSchemaRegistry asks of a schema before it looks for inhabitants.
RECURSIVE SchemaClosed(_, _)
SchemaClosed(s, types) ==
  LET bounded == {"minimum", "maximum"} \subseteq DOMAIN s => s.minimum <= s.maximum
  IN CASE s.kind = "ref"     -> s.type \in DOMAIN types
       [] s.kind = "int64"   -> bounded /\ \A b \in {"minimum", "maximum"} \cap DOMAIN s : s[b] \in Int64Min .. Int64Max
       [] s.kind \in {"float64", "instant"} -> bounded
       [] s.kind \in {"string", "bytes"}    -> \A b \in {"maxBytes"} \cap DOMAIN s : s[b] >= 0
       [] s.kind = "list"    -> (\A b \in {"maxItems"} \cap DOMAIN s : s[b] >= 0) /\ SchemaClosed(s.item, types)
       [] s.kind = "tuple"   -> \A i \in DOMAIN s.items : SchemaClosed(s.items[i], types)
       [] s.kind = "record"  ->
            /\ \A i, j \in DOMAIN s.fields : s.fields[i].name = s.fields[j].name => i = j
            /\ \A i \in DOMAIN s.fields : SchemaClosed(s.fields[i].schema, types)
       [] s.kind = "variant" ->
            /\ \A i, j \in DOMAIN s.variants : s.variants[i].tag = s.variants[j].tag => i = j
            /\ \A i \in DOMAIN s.variants : SchemaClosed(s.variants[i].schema, types)
       [] s.kind = "brand"   -> s.type \in DOMAIN types /\ SchemaClosed(s.base, types)
       [] OTHER -> TRUE

RECURSIVE CanInhabit(_, _, _, _)
\* A type met again while it is looked at counts as one that has a value.
CanInhabitOnTheWay(s, types, inhabited, checking) ==
  s.kind = "ref" => s.type \in inhabited \cup checking \/ CanInhabit(types[s.type], types, inhabited, checking \cup {s.type})
CanInhabit(s, types, inhabited, checking) ==
  LET can(part) == CanInhabit(part, types, inhabited, checking)
  IN CASE s.kind = "ref" ->
            IF s.type \in inhabited \cup checking THEN s.type \in inhabited
            ELSE CanInhabit(types[s.type], types, inhabited, checking \cup {s.type})
       [] s.kind = "record"  -> \A i \in DOMAIN s.fields : can(s.fields[i].schema)
       [] s.kind = "tuple"   -> \A i \in DOMAIN s.items : can(s.items[i])
       [] s.kind = "variant" -> \E i \in DOMAIN s.variants : can(s.variants[i].schema)
       [] s.kind = "brand"   -> can(s.base)
       [] OTHER -> TRUE

\* One pass adds what the types found before it make possible.
RECURSIVE InhabitedAfter(_, _)
InhabitedAfter(passes, types) ==
  IF passes = 0 THEN {}
  ELSE LET before == InhabitedAfter(passes - 1, types)
       IN before \cup {t \in DOMAIN types : CanInhabit(types[t], types, before, {})}

RegistryAccepted(types) ==
  /\ \A t \in DOMAIN types : SchemaClosed(types[t], types)
  /\ InhabitedAfter(Cardinality(DOMAIN types), types) = DOMAIN types

-----------------------------------------------------------------------------
(* encodeCanonical. *)
Header(major, argument) ==
  IF argument < Direct THEN <<major * Step + argument>>
  ELSE IF argument < Base THEN <<major * Step + Direct, argument>>
  ELSE <<major * Step + Direct + 1, argument \div Base, argument % Base>>

InstantOK(s, v) ==
  /\ v.t = "record" /\ Len(v.v) = 2 /\ Names(v) = {"epochSeconds", "nanoseconds"}
  /\ Field(v, "epochSeconds").t = "int" /\ Field(v, "nanoseconds").t = "float"
  /\ Number(Field(v, "nanoseconds").v) < Nanoseconds
InstantInRange(s, v) ==
  LET seconds == Field(v, "epochSeconds").v
      nanos   == Number(Field(v, "nanoseconds").v)
  IN /\ seconds \in InstantMin .. InstantMax /\ (seconds = InstantMax => nanos = 0)
     /\ Within(s, seconds)

VariantOf(s, tag) == SelectSeq(s.variants, LAMBDA v : v.tag = tag)

\* The failure a value meets at its own node, or "" .
Mismatch(s, v, room, slots) ==
  CASE s.kind \in {"invalid_schema", "unknown_type"} -> s.kind
    [] s.kind = "unit"    -> IF v.t = "null" THEN "" ELSE "schema_mismatch"
    [] s.kind = "boolean" -> IF v.t = "bool" THEN "" ELSE "schema_mismatch"
    [] s.kind = "int64"   -> IF v.t # "int" \/ v.v \notin Int64Min .. Int64Max THEN "schema_mismatch"
                             ELSE IF Within(s, v.v) THEN "" ELSE "invalid_value"
    [] s.kind = "float64" -> IF v.t # "float" \/ v.v = NotFinite THEN "schema_mismatch"
                             ELSE IF Within(s, Number(v.v)) THEN "" ELSE "invalid_value"
    [] s.kind = "string"  -> IF v.t # "text" THEN "schema_mismatch"
                             ELSE IF ~(ToSet(v.v) \subseteq Chars) THEN "invalid_value"
                             ELSE IF AtMost(s, "maxBytes", Len(v.v)) THEN "" ELSE "limit_exceeded"
    [] s.kind = "bytes"   -> IF v.t # "list" THEN "schema_mismatch"
                             ELSE IF ~AtMost(s, "maxBytes", Len(v.v)) \/ Len(v.v) > room THEN "limit_exceeded"
                             ELSE IF \A i \in DOMAIN v.v : v.v[i].t = "float" /\ Number(v.v[i].v) \in 0 .. Base - 1
                                  THEN "" ELSE "schema_mismatch"
    [] s.kind = "instant" -> IF ~InstantOK(s, v) THEN "schema_mismatch"
                             ELSE IF InstantInRange(s, v) THEN "" ELSE "invalid_value"
    [] s.kind = "list"    -> IF v.t # "list" THEN "schema_mismatch"
                             ELSE IF AtMost(s, "maxItems", Len(v.v)) /\ Len(v.v) <= slots THEN "" ELSE "limit_exceeded"
    [] s.kind = "tuple"   -> IF v.t # "list" THEN "schema_mismatch" ELSE IF Len(v.v) # Len(s.items) THEN "schema_mismatch"
                             ELSE IF Len(v.v) <= slots THEN "" ELSE "limit_exceeded"
    [] s.kind = "record"  -> IF v.t # "record" THEN "schema_mismatch"
                             ELSE IF Len(v.v) = Len(s.fields) /\ \A i \in DOMAIN s.fields : s.fields[i].name \in Names(v)
                                  THEN "" ELSE "schema_mismatch"
    [] s.kind = "variant" -> IF v.t # "record" THEN "schema_mismatch"
                             ELSE IF Len(v.v) = 2 /\ Names(v) = {"tag", "value"} /\ Field(v, "tag").t = "text"
                                     /\ VariantOf(s, Field(v, "tag").v) # <<>>
                                  THEN "" ELSE "schema_mismatch"
    [] OTHER -> ""

\* The bytes a value contributes itself, in the pieces they are appended in.
OwnBytes(s, v) ==
  CASE s.kind = "unit"    -> << <<UnitByte>> >>
    [] s.kind = "boolean" -> << <<IF v.v THEN TrueByte ELSE FalseByte>> >>
    [] s.kind = "int64"   -> <<IF v.v >= 0 THEN Header(0, v.v) ELSE Header(1, -1 - v.v)>>
    [] s.kind = "float64" -> << <<FloatByte, Number(v.v)>> >>
    [] s.kind = "string"  -> <<Header(3, Len(v.v)), v.v>>
    [] s.kind = "bytes"   -> <<Header(2, Len(v.v)), [i \in DOMAIN v.v |-> Number(v.v[i].v)]>>
    [] s.kind \in {"list", "tuple", "record"} -> <<Header(4, Len(v.v))>>
    [] s.kind \in {"instant", "variant"}      -> <<Header(4, 2)>>

\* The values below a value, with their schemas, in the order they are encoded.
Children(s, v) ==
  CASE s.kind = "list"    -> [i \in DOMAIN v.v |-> <<s.item, v.v[i]>>]
    [] s.kind = "tuple"   -> [i \in DOMAIN v.v |-> <<s.items[i], v.v[i]>>]
    [] s.kind = "record"  -> [i \in DOMAIN s.fields |-> <<s.fields[i].schema, Field(v, s.fields[i].name)>>]
    [] s.kind = "variant" -> << <<[kind |-> "string"], Field(v, "tag")>>,
                                <<VariantOf(s, Field(v, "tag").v)[1].schema, Field(v, "value")>> >>
    [] s.kind = "instant" -> << <<[kind |-> "int64"], Field(v, "epochSeconds")>>,
                                <<[kind |-> "int64"], IntV(Number(Field(v, "nanoseconds").v))>> >>
    [] OTHER -> <<>>

Fault(c, code) == [c EXCEPT !.code = code]
\* What comes next, unless something failed.
Go(c, Next(_)) == IF c.code = "" THEN Next(c) ELSE c
Overflow(limits, c, depth) == depth > limits.maxDepth \/ c.nodes >= limits.maxNodes
Put(c, piece, limits) ==
  IF c.code # "" THEN c
  ELSE IF Len(c.bytes) + Len(piece) > limits.maxBytes THEN Fault(c, "limit_exceeded")
  ELSE [c EXCEPT !.bytes = @ \o piece]

RECURSIVE EncodeTask(_, _, _, _, _)
EncodeTask(c, schema, v, depth, o) ==
  LET of(s) ==
        IF c.code # "" THEN c
        ELSE IF s.kind \notin {"invalid_schema", "unknown_type"} /\ Overflow(o.limits, c, depth) THEN Fault(c, "limit_exceeded")
        ELSE IF s.kind = "brand" THEN EncodeTask(c, s.base, v, depth, o)
        ELSE Go(Fault(c, Mismatch(s, v, o.limits.maxBytes - Len(c.bytes), o.limits.maxNodes - c.nodes - 1)), LAMBDA r :
             FoldLeft(LAMBDA a, child : EncodeTask(a, child[1], child[2], depth + 1, o),
                      FoldLeft(LAMBDA a, piece : Put(a, piece, o.limits), [r EXCEPT !.nodes = @ + 1], OwnBytes(s, v)),
                      Children(s, v)))
  IN of(Resolved(schema, o.types))

-----------------------------------------------------------------------------
(* canonicalJson and the order its objects must keep. *)
RECURSIVE LessUtf8(_, _)
LessUtf8(left, right) ==
  IF left = <<>> \/ right = <<>> THEN Len(left) < Len(right)
  ELSE IF Head(left) # Head(right) THEN Head(left) < Head(right) ELSE LessUtf8(Tail(left), Tail(right))

\* JSON values as JSON.parse gives them: an object is a record whose names are texts.
RECURSIVE JsonOf(_)
JsonOf(input) ==
  CASE input.t = "null"   -> Tagged(JsonTags["null"], Null)
    [] input.t = "bool"   -> Tagged(JsonTags["boolean"], input)
    [] input.t = "float"  -> Tagged(JsonTags["number"], Float(Number(input.v)))
    [] input.t = "text"   -> Tagged(JsonTags["string"], input)
    [] input.t = "list"   -> Tagged(JsonTags["array"], List([i \in DOMAIN input.v |-> JsonOf(input.v[i])]))
    [] input.t = "record" ->
         LET sorted == SortSeq(input.v, LAMBDA a, b : LessUtf8(a[1], b[1]))
         IN Tagged(JsonTags["object"], List([i \in DOMAIN sorted |-> List(<<Str(sorted[i][1]), JsonOf(sorted[i][2])>>)]))

RECURSIVE JsonOrdered(_)
JsonOrdered(json) ==
  json.t = "record" /\ Names(json) = {"tag", "value"} =>
    LET tag == Field(json, "tag")
        value == Field(json, "value")
        key(i) == value.v[i].v[1].v
    IN /\ tag = Str(JsonTags["array"]) /\ value.t = "list" =>
            \A i \in DOMAIN value.v : JsonOrdered(value.v[i])
       /\ tag = Str(JsonTags["object"]) /\ value.t = "list" =>
            /\ \A i \in 1 .. Len(value.v) - 1 : LessUtf8(key(i), key(i + 1))
            /\ \A i \in DOMAIN value.v : JsonOrdered(value.v[i].v[2])

JsonChecked(schema) == schema = [kind |-> "ref", type |-> JsonType]

\* o: the types and the limits.
Encode(schema, v, o) ==
  IF JsonChecked(schema) /\ ~JsonOrdered(v) THEN [code |-> "invalid_value", bytes |-> <<>>, nodes |-> 0]
  ELSE EncodeTask([code |-> "", bytes |-> <<>>, nodes |-> 0], schema, v, 0, o)

-----------------------------------------------------------------------------
(* decodeCanonical: d holds the offset, the nodes seen and the last value read. *)
Read(d, o) == IF d.offset >= Len(o.bytes) THEN Fault(d, "malformed_cbor")
              ELSE [d EXCEPT !.offset = @ + 1, !.value = o.bytes[d.offset + 1]]

\* The value of d, when it passes, turned into what it stands for.
Take(d, Passes(_), code, Make(_)) ==
  Go(d, LAMBDA r : IF Passes(r.value) THEN [r EXCEPT !.value = Make(@)] ELSE Fault(r, code))
Same(x) == x

\* A decoder that takes an argument in more bytes than it needs.
PreferredAny(value, least) == TRUE
Preferred(value, least) == value >= least

Argument(d, additional, o) ==
  IF additional < Direct THEN [d EXCEPT !.value = additional]
  ELSE IF additional > Direct + 1 THEN Fault(d, "malformed_cbor")
  ELSE Go(Read(d, o), LAMBDA first :
       IF additional = Direct THEN Take(first, LAMBDA n : Preferred(n, Direct), "noncanonical_cbor", Same)
       ELSE Take(Read(first, o), LAMBDA second : Preferred(Base * first.value + second, Base), "noncanonical_cbor",
                 LAMBDA second : Base * first.value + second))

MajorArgument(d, majors, o) ==
  Go(Read(d, o), LAMBDA initial :
     IF initial.value \div Step \notin majors THEN Fault(initial, "schema_mismatch")
     ELSE Argument(initial, initial.value % Step, o))

Least(a, b) == IF a < b THEN a ELSE b
Bound(s, name, default) == IF name \in DOMAIN s THEN s[name] ELSE default
Left(d, o) == Len(o.bytes) - d.offset

\* Length-prefixed bytes.  The ceiling counts what was left before the prefix
\* was read, so a slice may run past the end: only the offset remembers it.
Slice(d, major, maxBytes, o) ==
  LET ceiling == Least(maxBytes, Left(d, o))
  IN Go(Take(MajorArgument(d, {major}, o), LAMBDA n : n <= ceiling, "limit_exceeded", Same), LAMBDA r :
        [r EXCEPT !.offset = @ + r.value,
                  !.value  = SubSeq(o.bytes, r.offset + 1, Least(Len(o.bytes), r.offset + r.value))])
DecodeString(d, maxBytes, o) ==
  Take(Slice(d, 3, maxBytes, o), LAMBDA chars : ToSet(chars) \subseteq Chars, "malformed_cbor", Str)

Nothing(n) == TRUE
RECURSIVE DecodeTask(_, _, _, _), DecodeParts(_, _, _, _)
\* The values of several schemas, one after the other.
DecodeParts(d, schemas, depth, o) ==
  FoldLeft(LAMBDA a, s : Take(DecodeTask(a, s, depth, o), Nothing, "", LAMBDA v : Append(a.value, v)),
           [d EXCEPT !.value = <<>>], schemas)

DecodeTask(d, schema, depth, o) ==
  LET s == Resolved(schema, o.types)
      n == [d EXCEPT !.nodes = @ + 1]
      major == o.bytes[d.offset + 1] \div Step
      integer(argument) == IF major = 0 THEN argument ELSE -1 - argument
      inRange(argument) == integer(argument) \in Int64Min .. Int64Max /\ Within(s, integer(argument))
      tagged == Read(n, o)
      counted(k) == Take(MajorArgument(n, {4}, o), LAMBDA count : count = k, "schema_mismatch", Same)
      parts(schemas, Make(_)) ==
        Go(counted(Len(schemas)), LAMBDA head : Take(DecodeParts(head, schemas, depth + 1, o), Nothing, "", Make))
      instant(values) == Rec(<< <<"epochSeconds", values[1]>>, <<"nanoseconds", Float(values[2].v)>> >>)
  IN IF d.code # "" THEN d
     ELSE IF s.kind \in {"invalid_schema", "unknown_type"} THEN Fault(d, s.kind)
     ELSE IF Overflow(o.limits, d, depth) THEN Fault(d, "limit_exceeded")
     ELSE
     CASE s.kind = "brand"   -> DecodeTask(d, s.base, depth, o)
       [] s.kind = "unit"    -> Take(tagged, LAMBDA b : b = UnitByte, "schema_mismatch", LAMBDA b : Null)
       [] s.kind = "boolean" -> Take(tagged, LAMBDA b : b \in {FalseByte, TrueByte}, "schema_mismatch", LAMBDA b : Bool(b = TrueByte))
       [] s.kind = "int64"   -> Take(MajorArgument(n, {0, 1}, o), inRange, "invalid_value", LAMBDA a : IntV(integer(a)))
       [] s.kind = "float64" ->
            Go(Take(tagged, LAMBDA b : b = FloatByte, "noncanonical_cbor", Same), LAMBDA lead :
               Take(Take(Read(lead, o), LAMBDA x : x \notin BadPayloads, "noncanonical_cbor", Same),
                    LAMBDA x : Within(s, x), "invalid_value", Float))
       [] s.kind = "string"  -> DecodeString(n, Bound(s, "maxBytes", o.limits.maxBytes), o)
       [] s.kind = "bytes"   -> Take(Slice(n, 2, Bound(s, "maxBytes", o.limits.maxBytes), o), Nothing, "",
                                     LAMBDA b : List([i \in DOMAIN b |-> Float(b[i])]))
       [] s.kind = "list"    ->
            LET ceiling == Least(Bound(s, "maxItems", o.limits.maxNodes), o.limits.maxNodes - n.nodes)
            IN Go(Take(MajorArgument(n, {4}, o), LAMBDA count : count <= ceiling, "limit_exceeded", Same), LAMBDA length :
                  Take(DecodeParts(length, [i \in 1 .. length.value |-> s.item], depth + 1, o), Nothing, "", List))
       [] s.kind = "tuple"   -> parts(s.items, List)
       [] s.kind = "record"  -> parts([i \in DOMAIN s.fields |-> s.fields[i].schema],
                                      LAMBDA values : Rec([i \in DOMAIN values |-> <<s.fields[i].name, values[i]>>]))
       [] s.kind = "instant" ->
            Take(parts(<<[kind |-> "int64"], [kind |-> "int64", minimum |-> 0, maximum |-> Nanoseconds - 1]>>, instant),
                 LAMBDA v : InstantInRange(s, v), "invalid_value", Same)
       [] s.kind = "variant" ->
            Go(counted(2), LAMBDA head :
               IF Overflow(o.limits, head, depth + 1) THEN Fault(head, "limit_exceeded")
               ELSE Go(Take(DecodeString([head EXCEPT !.nodes = @ + 1], o.limits.maxBytes, o),
                            LAMBDA t : VariantOf(s, t.v) # <<>>, "schema_mismatch", Same), LAMBDA tag :
                       Take(DecodeTask(tag, VariantOf(s, tag.value.v)[1].schema, depth + 1, o), Nothing, "",
                            LAMBDA v : Tagged(tag.value.v, v))))

Consumed(d, o) == d.offset = Len(o.bytes)

Decode(schema, bytes, options) ==
  LET o     == [types |-> options.types, limits |-> options.limits, bytes |-> bytes]
      start == [offset |-> 0, nodes |-> 0, code |-> "", value |-> <<>>]
  IN IF Len(bytes) > o.limits.maxBytes THEN Fault(start, "limit_exceeded")
     ELSE Go(DecodeTask(start, schema, 0, o), LAMBDA d :
          IF ~Consumed(d, o) THEN Fault(d, "trailing_bytes")
          ELSE IF JsonChecked(schema) /\ ~JsonOrdered(d.value) THEN Fault(d, "invalid_value")
          ELSE d)
=============================================================================

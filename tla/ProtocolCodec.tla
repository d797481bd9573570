----------------------------- MODULE ProtocolCodec -----------------------------
(***************************************************************************)
(* The payload and envelope codec of the worker protocol                   *)
(* (packages/contracts/src/worker-protocol.ts) and the conversion between  *)
(* the bridge's own records and the records on the wire                    *)
(* (packages/worker/src/protocol.ts).                                      *)
(*                                                                         *)
(* A value is a record of one field that names its JavaScript type; a      *)
(* record schema maps field names to schemas.  Bytes are a sequence of     *)
(* items, each a CBOR head with what it spans.  An item counts as one node *)
(* and has the size of its bytes; `wide` is a head longer than it need be. *)
(* Of a value that breaks both a schema and a limit, either may be told.   *)
(***************************************************************************)
EXTENDS Integers, Sequences, FiniteSets, SequencesExt, TLC

CONSTANTS
  MaxUint, MaxInt,  \* 2^64 - 1 and 2^63 - 1
  MaxSafe,          \* Number.MAX_SAFE_INTEGER
  NegativeZero, NotFinite,
  HeadSteps,        \* the arguments from which a head is longer by a byte or more
  TextBytes,        \* how many bytes a text takes, where that is not one
  BadTexts,         \* texts with a lone surrogate
  KeyOrder,         \* the field names in the order of their encodings
  DomainName        \* the bridge's name of a field: max_bytes is maxBytes

MessageKinds ==
  {"session.hello", "session.welcome", "session.incompatible", "bridge.check.request", "bridge.check.result", "bridge.inspect.request",
   "bridge.inspect.result", "bridge.apply_semantic_edits.request", "bridge.apply_semantic_edits.result", "bridge.execute.request",
   "bridge.execute.result", "bridge.cancel.request", "bridge.cancel.result", "session.close.request", "session.close.result",
   "action.request", "action.outcome", "protocol.error"}

\* F of every element, or of every name (\o and @@ have TLC evaluate each once).
Map(F(_), seq)     == [i \in DOMAIN seq |-> F(seq[i])] \o <<>>
Table(F(_), names) == [name \in names |-> F(name)] @@ <<>>

Is(v, type) == DOMAIN v = {type}
Null        == [null |-> TRUE]
Bool(b)     == [boolean |-> b]
Num(n)      == [number |-> n]
Big(n)      == [bigint |-> n]
Txt(t)      == [text |-> t]
Octets(seq) == [bytes |-> seq]
Arr(seq)    == [items |-> seq]
Obj(fields) == [fields |-> fields]

-----------------------------------------------------------------------------
(* Sizes. *)
TextLength(t) == IF t \in DOMAIN TextBytes THEN TextBytes[t] ELSE 1
HeadLength(n) == 1 + Cardinality({i \in DOMAIN HeadSteps : n >= HeadSteps[i]})
Head1(major, n, content) == [major |-> major, argument |-> n, wide |-> FALSE, content |-> content]

\* A byte of a byte string is [byte |-> n]; the bytes of an envelope's payload are items.
RECURSIVE Length(_)
Length(bytes) ==
  LET content(c) == CASE Is(c, "text") -> TextLength(c.text) [] Is(c, "bytes") -> Length(c.bytes) [] Is(c, "number") -> 8 [] OTHER -> 0
      size(x) == IF Is(x, "byte") THEN 1
                 ELSE content(x.content) + (IF x.major = 7 THEN 1 ELSE HeadLength(x.argument) + (IF x.wide THEN 1 ELSE 0))
      upTo[i \in 0 .. Len(bytes)] == IF i = 0 THEN 0 ELSE upTo[i - 1] + size(bytes[i])
  IN upTo[Len(bytes)]

-----------------------------------------------------------------------------
(* Schemas. *)
Least(s, least) == IF "minimum" \in DOMAIN s THEN s.minimum ELSE least
Most(s, most)   == IF "maximum" \in DOMAIN s THEN s.maximum ELSE most
Fits(length, s, bound) == bound \in DOMAIN s => length <= s[bound]

RECURSIVE Accepts(_, _, _)
Accepts(s, v, encoding) ==
  CASE s.kind = "oneOf"   -> \E i \in DOMAIN s.choices : Accepts(s.choices[i], v, encoding)
    [] s.kind = "literal" -> v = s.value
    [] s.kind = "unit"    -> v = Null
    [] s.kind = "boolean" -> Is(v, "boolean")
    [] s.kind = "uint"    -> Is(v, "bigint") /\ v.bigint \in Least(s, 0) .. Most(s, MaxUint)
    [] s.kind = "int"     -> Is(v, "bigint") /\ v.bigint \in Least(s, -MaxInt - 1) .. Most(s, MaxInt)
    [] s.kind = "float64" -> Is(v, "number") /\ v.number # NotFinite /\ (encoding \/ v.number # NegativeZero)
    [] s.kind = "text"    -> Is(v, "text") /\ Fits(TextLength(v.text), s, "maxBytes")
    [] s.kind = "bytes"   -> Is(v, "bytes") /\ Fits(Length(v.bytes), s, "maxBytes")
    [] s.kind = "array"   -> /\ Is(v, "items") /\ Fits(Len(v.items), s, "maxItems")
                             /\ \A i \in DOMAIN v.items : Accepts(s.item, v.items[i], encoding)
    [] s.kind = "record"  -> /\ Is(v, "fields") /\ DOMAIN v.fields \subseteq DOMAIN s.fields
                             /\ \A name \in DOMAIN s.fields :
                                  IF name \in DOMAIN v.fields THEN Accepts(s.fields[name], v.fields[name], encoding)
                                  ELSE name \in s.optional

LiteralSchema(v) ==
  CASE Is(v, "null") -> [kind |-> "unit"] [] Is(v, "boolean") -> [kind |-> "boolean"] [] Is(v, "text") -> [kind |-> "text"]
    [] OTHER -> [kind |-> IF v.bigint >= 0 THEN "uint" ELSE "int", minimum |-> v.bigint, maximum |-> v.bigint]

-----------------------------------------------------------------------------
(* Encoder.encode, for a value its schema accepts. *)
Integer(n) == IF n >= 0 THEN Head1(0, n, Null) ELSE Head1(1, -1 - n, Null)
Text(t)    == Head1(3, TextLength(t), Txt(t))
Sorted(fields) == LET names == DOMAIN fields IN SelectSeq(KeyOrder, LAMBDA name : name \in names)

RECURSIVE Items(_, _)
Items(s, v) ==
  CASE s.kind = "oneOf"   -> Items(s.choices[SelectInSeq(s.choices, LAMBDA c : Accepts(c, v, TRUE))], v)
    [] s.kind = "literal" -> Items(LiteralSchema(v), v)
    [] s.kind = "unit"    -> <<Head1(7, 22, Null)>>
    [] s.kind = "boolean" -> <<Head1(7, IF v.boolean THEN 21 ELSE 20, Null)>>
    [] s.kind \in {"uint", "int"} -> <<Integer(v.bigint)>>
    [] s.kind = "float64" -> <<Head1(7, 27, Num(IF v.number = NegativeZero THEN 0 ELSE v.number))>>
    [] s.kind = "text"    -> <<Text(v.text)>>
    [] s.kind = "bytes"   -> <<Head1(2, Length(v.bytes), v)>>
    [] s.kind = "array"   -> <<Head1(4, Len(v.items), Null)>> \o FlattenSeq(Map(LAMBDA x : Items(s.item, x), v.items))
    [] s.kind = "record"  ->
         LET names == Sorted(v.fields)
         IN <<Head1(5, Len(names), Null)>>
            \o FlattenSeq(Map(LAMBDA n : <<Text(n)>> \o Items(s.fields[n], v.fields[n]), names))

RECURSIVE Depth(_)
Depth(v) ==
  LET below == CASE Is(v, "items") -> {Depth(v.items[i]) : i \in DOMAIN v.items}
                 [] Is(v, "fields") -> {Depth(v.fields[n]) : n \in DOMAIN v.fields} [] OTHER -> {}
  IN IF below = {} THEN 0 ELSE 1 + CHOOSE d \in below : \A other \in below : other <= d

Failed(code) == [ok |-> FALSE, code |-> code]
Made(value)  == [ok |-> TRUE, value |-> value]
\* What is made of a value, unless there is none.
Then(answer, Next(_)) == IF answer.ok THEN Next(answer.value) ELSE answer

Encode(s, v, limits, schemaCode) ==
  LET checked(made) ==
        IF \E i \in DOMAIN made : Is(made[i].content, "text") /\ made[i].content.text \in BadTexts THEN Failed(schemaCode)
        ELSE IF Len(made) > limits.maxNodes \/ Depth(v) > limits.maxDepth \/ Length(made) > limits.maxBytes
        THEN Failed("protocol_limit_exceeded") ELSE Made(made)
  IN IF Accepts(s, v, TRUE) THEN checked(Items(s, v)) ELSE Failed(schemaCode)

-----------------------------------------------------------------------------
(* Decoder.value, from the item at st.at on; the items of an array and the *)
(* fields of a map gather in st.value, `count` of them to come.            *)
Rank(name) == SelectInSeq(KeyOrder, LAMBDA n : n = name)
Fault(st, code) == [st EXCEPT !.code = code]
Go(st, Next(_)) == IF st.code = "" THEN Next(st) ELSE st
Overlong(bytes, at) ==
  LET t   == bytes[at]
      own == IF Is(t.content, "null") THEN 0 ELSE Length(<<t>>) - HeadLength(t.argument)
  \* Every item has a byte at least.
  IN t.argument > own + Len(bytes) - at /\ t.argument > own + Length(SubSeq(bytes, at + 1, Len(bytes)))
NodeLeft(st, depth, limits) == st.nodes < limits.maxNodes /\ depth <= limits.maxDepth
KeyFault(bytes, st, schemaCode) ==
  LET k == bytes[st.at]
  IN CASE st.at > Len(bytes) -> "malformed_cbor"
       [] k.major # 3 -> schemaCode
       [] k.wide -> "noncanonical_cbor"
       [] Overlong(bytes, st.at) \/ k.content.text \in BadTexts -> "malformed_cbor"
       [] st.value # <<>> /\ Rank(Last(st.value)[1]) >= Rank(k.content.text) -> "noncanonical_cbor"
       [] OTHER -> ""

RECURSIVE Read(_, _, _, _, _), ReadItems(_, _, _, _, _, _), ReadFields(_, _, _, _, _, _)
ReadItems(bytes, st, count, depth, limits, schemaCode) ==
  IF count = 0 THEN st
  ELSE Go(Read(bytes, st, depth, limits, schemaCode), LAMBDA next :
          ReadItems(bytes, [next EXCEPT !.value = Append(st.value, @)], count - 1, depth, limits, schemaCode))
ReadFields(bytes, st, count, depth, limits, schemaCode) ==
  LET keyed(code) ==
        IF code # "" THEN Fault(st, code)
        ELSE Go(Read(bytes, [st EXCEPT !.at = @ + 1, !.nodes = @ + 1], depth, limits, schemaCode), LAMBDA next :
                ReadFields(bytes, [next EXCEPT !.value = Append(st.value, <<bytes[st.at].content.text, @>>)],
                           count - 1, depth, limits, schemaCode))
  IN IF count = 0 THEN st
     ELSE IF ~NodeLeft(st, depth, limits) THEN Fault(st, "protocol_limit_exceeded")
     ELSE keyed(KeyFault(bytes, st, schemaCode))

Read(bytes, st, depth, limits, schemaCode) ==
  LET t      == bytes[st.at]
      is(v)  == [st EXCEPT !.at = @ + 1, !.nodes = @ + 1, !.value = v]
      entries(pairs) == FoldLeft(LAMBDA made, e : made @@ (e[1] :> e[2]), <<>>, pairs)
  IN CASE ~NodeLeft(st, depth, limits) -> Fault(st, "protocol_limit_exceeded")
       [] st.at > Len(bytes) -> Fault(st, "malformed_cbor")
       [] t.major < 6 /\ t.wide -> Fault(st, "noncanonical_cbor")
       [] t.major \in 2 .. 5 /\ Overlong(bytes, st.at) -> Fault(st, "malformed_cbor")
       [] t.major = 0 -> is(Big(t.argument))
       [] t.major = 1 -> IF t.argument > MaxInt THEN Fault(st, schemaCode) ELSE is(Big(-1 - t.argument))
       [] t.major = 2 -> is(t.content)
       [] t.major = 3 -> IF t.content.text \in BadTexts THEN Fault(st, "malformed_cbor") ELSE is(t.content)
       [] t.major = 4 -> Go(ReadItems(bytes, is(<<>>), t.argument, depth + 1, limits, schemaCode), LAMBDA r : [r EXCEPT !.value = Arr(@)])
       [] t.major = 5 -> Go(ReadFields(bytes, is(<<>>), t.argument, depth + 1, limits, schemaCode), LAMBDA r : [r EXCEPT !.value = Obj(entries(@))])
       [] t.major = 7 /\ t.argument \in {20, 21} -> is(Bool(t.argument = 21))
       [] t.major = 7 /\ t.argument = 22 -> is(Null)
       [] t.major = 7 /\ t.argument = 27 /\ t.content.number \notin {NegativeZero, NotFinite} -> is(t.content)
       [] t.major = 7 /\ t.argument >= 28 -> Fault(st, "malformed_cbor")
       [] OTHER -> Fault(st, "noncanonical_cbor")

DecodeItem(bytes, limits, schemaCode) ==
  LET whole(read) == IF read.code # "" THEN Failed(read.code)
                     ELSE IF read.at # Len(bytes) + 1 THEN Failed("malformed_cbor") ELSE Made(read.value)
  IN IF Length(bytes) > limits.maxBytes THEN Failed("protocol_limit_exceeded")
     ELSE whole(Read(bytes, [at |-> 1, nodes |-> 0, value |-> Null, code |-> ""], 0, limits, schemaCode))

Decode(s, bytes, limits, schemaCode) ==
  Then(DecodeItem(bytes, limits, schemaCode), LAMBDA v : IF Accepts(s, v, FALSE) THEN Made(v) ELSE Failed(schemaCode))

-----------------------------------------------------------------------------
(* Envelopes: [version, kind, id, reply_to, payload]. *)
IdSchema == [kind |-> "uint", minimum |-> 1]
EnvelopeSchema(maxPayload) ==
  [kind |-> "record", optional |-> {},
   fields |-> [version |-> [kind |-> "uint"], kind |-> [kind |-> "text"], id |-> IdSchema,
               reply_to |-> [kind |-> "oneOf", choices |-> <<IdSchema, [kind |-> "unit"]>>],
               payload |-> [kind |-> "bytes", maxBytes |-> maxPayload]]]

EncodeEnvelope(e, envelopeLimits, payloadLimits) ==
  IF e.kind \notin MessageKinds THEN Failed("unknown_message_kind")
  ELSE Then(DecodeItem(e.payload, payloadLimits, "payload_schema"), LAMBDA payload :
            Encode(EnvelopeSchema(MaxUint),
                   Obj([version |-> Big(1), kind |-> Txt(e.kind), id |-> e.id, reply_to |-> e.replyTo, payload |-> Octets(e.payload)]),
                   envelopeLimits, "envelope_schema"))

DecodeEnvelope(bytes, envelopeLimits, payloadLimits) ==
  LET opened(e) ==
        IF e.version # Big(1) THEN Failed("unsupported_envelope_version")
        ELSE IF e.kind.text \notin MessageKinds THEN Failed("unknown_message_kind")
        ELSE Then(DecodeItem(e.payload.bytes, payloadLimits, "payload_schema"), LAMBDA payload :
                  Made([kind |-> e.kind.text, id |-> e.id, replyTo |-> e.reply_to, payload |-> e.payload.bytes]))
  IN Then(Decode(EnvelopeSchema(MaxUint), bytes, envelopeLimits, "envelope_schema"), LAMBDA read : opened(read.fields))

-----------------------------------------------------------------------------
(* Between the bridge's records and the wire's. *)
RECURSIVE HasLiteralMatch(_, _)
\* Plausible bug: an alternative that is a choice itself always matches.
HasLiteralMatchShallow(s, v) ==
  LET has(key, value) == Is(v, "fields") /\ key \in DOMAIN v.fields /\ v.fields[key] = value
      literals == {name \in DOMAIN s.fields : s.fields[name].kind = "literal"}
  IN CASE s.kind = "literal" -> s.value = v
       [] s.kind = "record"  -> \A name \in literals : has(DomainName[name], s.fields[name].value) \/ has(name, s.fields[name].value)
       [] OTHER -> TRUE
HasLiteralMatch(s, v) ==
  LET has(key, value) == Is(v, "fields") /\ key \in DOMAIN v.fields /\ v.fields[key] = value
      literals == {name \in DOMAIN s.fields : s.fields[name].kind = "literal"}
  IN CASE s.kind = "literal" -> s.value = v
       [] s.kind = "oneOf"   -> \E i \in DOMAIN s.choices : HasLiteralMatch(s.choices[i], v)
       [] s.kind = "record" /\ \E type \in {"fields", "items", "bytes"} : Is(v, type) ->
            \A name \in literals : has(DomainName[name], s.fields[name].value) \/ has(name, s.fields[name].value)
       [] OTHER -> TRUE

RECURSIVE Select(_, _)
Select(s, v) ==
  LET matching == SelectInSeq(s.choices, LAMBDA c : HasLiteralMatch(c, v))
  IN IF s.kind # "oneOf" THEN s ELSE Select(s.choices[IF matching = 0 THEN 1 ELSE matching], v)

\* What toWire cannot convert no schema accepts.
Unconvertible == [undefined |-> TRUE]
Byte(v) == [byte |-> v.number % 256]

RECURSIVE ToWire(_, _)
ToWire(schema, v) ==
  LET s       == Select(schema, v)
      present == {name \in DOMAIN s.fields : DomainName[name] \in DOMAIN v.fields}
      known   == {DomainName[name] : name \in DOMAIN s.fields}
  IN CASE s.kind \in {"uint", "int"} /\ Is(v, "number") ->
            IF v.number \in {NegativeZero, NotFinite} \/ v.number > MaxSafe THEN v ELSE Big(v.number)
       [] s.kind = "bytes" /\ Is(v, "items") -> Octets(Map(Byte, v.items))
       [] s.kind = "array" -> IF Is(v, "items") THEN Arr(Map(LAMBDA x : ToWire(s.item, x), v.items)) ELSE Unconvertible
       [] s.kind = "record" -> IF ~Is(v, "fields") THEN Unconvertible
                               ELSE IF ~(DOMAIN v.fields \subseteq known) THEN Unconvertible
                               ELSE Obj(Table(LAMBDA name : ToWire(s.fields[name], v.fields[DomainName[name]]), present))
       [] OTHER -> v

\* Message ids and the bounds of schemas stay bigints; other integers become numbers.
RECURSIVE FromWire(_, _)
FromWire(schema, v) ==
  LET s == Select(schema, v)
  IN CASE s.kind \in {"uint", "int"} /\ "bigint" \in DOMAIN s -> v
       [] s.kind \in {"uint", "int"} -> IF Is(v, "bigint") /\ v.bigint \in -MaxSafe .. MaxSafe THEN Num(v.bigint) ELSE Unconvertible
       [] s.kind = "bytes"  -> Arr(Map(LAMBDA x : Num(x.byte), v.bytes))
       [] s.kind = "array"  -> Arr(Map(LAMBDA x : FromWire(s.item, x), v.items))
       [] s.kind = "record" -> Obj(FoldSet(LAMBDA name, made : made @@ (DomainName[name] :> FromWire(s.fields[name], v.fields[name])),
                                       <<>>, DOMAIN v.fields \cap DOMAIN s.fields))
       [] OTHER -> v

RECURSIVE Converted(_)
Converted(v) ==
  CASE Is(v, "items")  -> \A i \in DOMAIN v.items : Converted(v.items[i])
    [] Is(v, "fields") -> \A n \in DOMAIN v.fields : Converted(v.fields[n])
    [] OTHER           -> v # Unconvertible

EncodeBridgePayload(s, v, limits) == Encode(s, ToWire(s, v), limits, "payload_schema")
DecodeBridgePayload(s, bytes, limits) ==
  LET whole(value) == IF Converted(value) THEN Made(value) ELSE Failed("payload_schema")
  IN Then(Decode(s, bytes, limits, "payload_schema"), LAMBDA read : whole(FromWire(s, read)))
=============================================================================

------------------------------ MODULE MCProtocol ------------------------------
(***************************************************************************)
(* Messages of the worker protocol for TLC: of every kind a message with   *)
(* each alternative, each optional field and each bound of its parts, and  *)
(* one over each bound.                                                    *)
(***************************************************************************)
EXTENDS ProtocolPayloads

(* What a bridge may hold for a schema, and may not: first values that the *)
(* schema has, its least among them, then one that it just has not.        *)
Integers(s) ==
  IF "bigint" \in DOMAIN s
  THEN Map(Big, IF s.kind = "uint" THEN <<Least(s, 0), MaxUint, Least(s, 0) - 1, MaxUint + 1>> ELSE <<-MaxInt - 1, MaxInt, -MaxInt - 2, MaxInt + 1>>)
  ELSE Map(Num, <<Least(s, 0), Most(s, MaxSafe), Least(s, 0) - 1, Most(s, MaxSafe) + 1>>)
TextOfLength(n) == Txt(CHOOSE t \in DOMAIN TextBytes : TextBytes[t] = n)
Texts(s)   == <<Txt("short")>> \o Map(TextOfLength, <<0, s.maxBytes, s.maxBytes + 1>>) \o Map(Txt, SetToSeq(BadTexts))
Copies(x, n) == Arr([i \in 1 .. n |-> x])
Strings(s) == <<Arr(<<>>), Arr(<<Num(0), Num(255)>>), Copies(Num(7), s.maxBytes), Copies(Num(7), s.maxBytes + 1)>>
Lists(s, items) ==
  <<Arr(<<>>), Arr(<<items[1], items[IF Len(items) = 1 THEN 1 ELSE 2]>>), Copies(items[1], s.maxItems), Copies(items[1], s.maxItems + 1)>>
  \o Map(LAMBDA x : Arr(<<x>>), items)

(* `fixed` fields take their first value only. *)
Shared(choices) == {name \in ToSet(KeyOrder) : \A i \in DOMAIN choices : choices[i].kind = "record" /\ name \in DOMAIN choices[i].fields}

\* Records of the parts of their fields: the least, then one field at a time takes
\* each of its values, each is left out, and there is one more.
Records(names, parts) ==
  LET all  == DOMAIN names
      made(pick, present) == Obj(FoldSet(LAMBDA i, r : r @@ (DomainName[names[i]] :> parts[i][pick[i]]), <<>>, present))
      least == [i \in all |-> 1]
      vary(i) == Tail(Map(LAMBDA k : made([least EXCEPT ![i] = k], all), [k \in DOMAIN parts[i] |-> k]))
      absent(i) == made(least, all \ {i})
      more == Obj(made(least, all).fields @@ ("extra" :> Null))
  IN <<made(least, all)>> \o FlattenSeq([i \in all |-> vary(i)]) \o [i \in all |-> absent(i)] \o <<more>>

RECURSIVE Samples(_, _)
Samples(s, fixed) ==
  LET parts(names) == Map(LAMBDA n : LET of == Samples(s.fields[n], fixed) IN IF n \in fixed THEN SubSeq(of, 1, 1) ELSE of, names)
  IN CASE s.kind = "oneOf"   -> Samples(s.choices[1], fixed)
                                \o FlattenSeq(Map(LAMBDA c : Samples(c, fixed \cup Shared(s.choices)), Tail(s.choices)))
       [] s.kind = "literal" -> <<s.value>>
       [] s.kind = "boolean" -> <<Bool(FALSE), Bool(TRUE)>>
       [] s.kind \in {"uint", "int"} -> Integers(s)
       [] s.kind = "float64" -> Map(Num, <<-1, 0, NegativeZero, NotFinite>>)
       [] s.kind = "text"    -> Texts(s)
       [] s.kind = "bytes"   -> Strings(s)
       [] s.kind = "array"   -> Lists(s, Samples(s.item, fixed))
       [] s.kind = "record"  -> Records(Sorted(s.fields), parts(Sorted(s.fields)))

\* A registry of one type whose schema nests n levels.
NestedList[n \in Nat] ==
  IF n = 0 THEN Obj([kind |-> Txt("unit")]) ELSE Obj([kind |-> Txt("list"), item |-> NestedList[n - 1]])
WithNesting(message, n) ==
  [message EXCEPT !.fields["registry"].fields["schemas"].fields["types"] =
     Arr(<<Obj([id |-> Txt("short"), schema |-> NestedList[n], fingerprint |-> Txt("short")])>>)]

(* A reference for what has a place on the wire, over the bridge's own     *)
(* records: no conversion, no selection, no bytes.  With `numbered`, a     *)
(* number may stand where a text may, as in a path.                        *)
RECURSIVE Belongs(_, _, _)
Belongs(s, v, numbered) ==
  CASE s.kind = "oneOf"   -> \E i \in DOMAIN s.choices :
                               Belongs(s.choices[i], v, numbered) /\ (s.choices[i].kind = "uint" => numbered)
    [] s.kind = "literal" -> v = s.value
    [] s.kind = "boolean" -> Is(v, "boolean")
    [] s.kind = "uint" /\ "bigint" \in DOMAIN s -> Is(v, "bigint") /\ v.bigint \in Least(s, 0) .. MaxUint
    [] s.kind = "int"     -> Is(v, "bigint") /\ v.bigint \in -MaxInt - 1 .. MaxInt
    [] s.kind = "uint"    -> Is(v, "number") /\ v.number \in Least(s, 0) .. Most(s, MaxSafe)
    [] s.kind = "float64" -> Is(v, "number") /\ v.number # NotFinite
    [] s.kind = "text"    -> Is(v, "text") /\ v.text \notin BadTexts /\ TextLength(v.text) <= s.maxBytes
    [] s.kind = "bytes"   -> Is(v, "items") /\ Len(v.items) <= s.maxBytes
    [] s.kind = "array"   -> /\ Is(v, "items") /\ Len(v.items) <= s.maxItems
                             /\ \A i \in DOMAIN v.items : Belongs(s.item, v.items[i], numbered)
    [] s.kind = "record"  -> /\ Is(v, "fields") /\ DOMAIN v.fields \subseteq {DomainName[n] : n \in DOMAIN s.fields}
                             /\ \A n \in DOMAIN s.fields :
                                  IF DomainName[n] \in DOMAIN v.fields THEN Belongs(s.fields[n], v.fields[DomainName[n]], numbered)
                                  ELSE n \in s.optional
\* There is one zero on the wire.
RECURSIVE OneZero(_)
OneZero(v) ==
  CASE Is(v, "items")  -> Arr(Map(OneZero, v.items))
    [] Is(v, "fields") -> Obj(Table(LAMBDA n : OneZero(v.fields[n]), DOMAIN v.fields))
    [] OTHER           -> IF v = Num(NegativeZero) THEN Num(0) ELSE v

\* What becomes of a message's bytes: an item lost, doubled, exchanged or spelled otherwise.
Others == <<Head1(6, 1, Null), Head1(7, 22, Null), Head1(7, 28, Null), Head1(1, MaxInt + 1, Null), Head1(1, 0, Null), Head1(0, 1, Null),
            Head1(7, 27, Num(NegativeZero)), Text("lone"), Text("extra"), Head1(2, MaxUint, Octets(<<>>)), Head1(4, 1, Null), Head1(5, 1, Null)>>
Damaged(bytes, i) ==
  LET without == SubSeq(bytes, 1, i - 1) \o SubSeq(bytes, i + 1, Len(bytes))
      more    == [bytes EXCEPT ![1].argument = @ + 1]
  IN <<without, [bytes EXCEPT ![i].wide = TRUE], SubSeq(bytes, 1, i) \o SubSeq(bytes, i, Len(bytes)), SubSeq(bytes, 1, i),
       [bytes EXCEPT ![1].argument = @ - 1]>>
     \o (IF i = Len(bytes) THEN <<>> ELSE <<SubSeq(more, 1, i + 1) \o SubSeq(bytes, i, Len(bytes))>>)
     \o (IF i + 3 > Len(bytes) THEN <<>>
         ELSE <<SubSeq(bytes, 1, i - 1) \o SubSeq(bytes, i + 2, i + 3) \o SubSeq(bytes, i, i + 1) \o SubSeq(bytes, i + 4, Len(bytes))>>)
     \o Map(LAMBDA x : [bytes EXCEPT ![i] = x], Others)

(* A message from one peer to the other, in its envelope. *)
Sent(kind, schema, v, limits) ==
  Then(EncodeBridgePayload(schema, v, limits), LAMBDA payload :
       EncodeEnvelope([kind |-> kind, id |-> Big(1), replyTo |-> Null, payload |-> payload], limits, limits))
Received(schema, bytes, limits) ==
  Then(DecodeEnvelope(bytes, limits, limits), LAMBDA envelope : DecodeBridgePayload(schema, envelope.payload, limits))
\* What is sent arrives as it was.
Survives(schema, v, sent, limits) == sent.ok => Received(schema, sent.value, limits) = Made(OneZero(v))
\* Bytes that are accepted are those the encoder writes for what was read from them.
OneSpelling(schema, bytes, limits) ==
  LET again(read) == read.ok => Encode(schema, read.value, limits, "payload_schema") = Made(bytes)
  IN again(Decode(schema, bytes, limits, "payload_schema"))
=============================================================================

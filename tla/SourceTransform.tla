---------------------------- MODULE SourceTransform ----------------------------
(***************************************************************************)
(* Byte-exact application of a batch of source transformations             *)
(* (engine/src/source-transform.ts).  All positions are offsets into the   *)
(* original; a batch is applied whole or not at all.                       *)
(*                                                                         *)
(* A source is a sequence of bytes by what the transformer tells apart:    *)
(* "n" a newline, "s" a blank, "c" a byte of a comment and "m" a newline   *)
(* in one, "+" a byte inside a character; every other byte is code.        *)
(***************************************************************************)
EXTENDS Integers, SequencesExt

Span(start, end) == [start |-> start, end |-> end]
SliceOf(source, r) == SubSeq(source, r.start + 1, r.end)
Consists(source, start, end, bytes) == \A i \in start + 1 .. end : source[i] \in bytes

IsBoundary(source, p) == p \in 0 .. Len(source) /\ (p = Len(source) \/ source[p + 1] # "+")
ValidRange(source, r) == 0 <= r.start /\ r.start < r.end /\ r.end <= Len(source)
Editable(source, r) == ValidRange(source, r) /\ IsBoundary(source, r.start) /\ IsBoundary(source, r.end)

\* lastIndexOf looks at the byte before p, at the first one when there is none.
LineStart(source, p) == Max({0} \cup {q \in 1 .. Max({1, p}) : q <= Len(source) /\ source[q] \in {"n", "m"}})
LineEnd(source, p)   == Min({Len(source)} \cup {q \in p + 1 .. Len(source) : source[q] \in {"n", "m"}})
LineRange(source, r) == Span(LineStart(source, r.start), LineEnd(source, r.end))

BlankLine(source, start, end) ==
  \E i, j \in start + 1 .. end : i < j /\ source[i] = "n" /\ source[j] = "n" /\ Consists(source, i, j - 1, {"s"})
Leads(source, p, start) ==
  source[p + 1] = "c" /\ Consists(source, p, start, {"c", "m", "s", "n"}) /\ ~BlankLine(source, p, start)
Trails(source, end, p) == source[p] = "c" /\ Consists(source, end, p, {"c", "m", "s"})

\* A construct owns the comments before it up to a blank line, with the
\* indentation of the first, and those after it on its line.
OwnedRange(source, r) ==
  LET start == Min({r.start} \cup {p \in 0 .. r.start - 1 : Leads(source, p, r.start)})
      line  == LineStart(source, start)
      end   == Max({r.end} \cup {p \in r.end + 1 .. Len(source) : Trails(source, r.end, p)})
  IN Span(IF Consists(source, line, start, {"s"}) THEN line ELSE start, end)

-----------------------------------------------------------------------------
(* One transformation: what it removes and what it inserts, at most one of *)
(* each, as sets.                                                          *)
Moved(source, t) == OwnedRange(source, t.range)
Valid(source, t) ==
  CASE t.kind = "insert" -> IsBoundary(source, t.at)
    [] t.kind = "move"   -> /\ Editable(source, t.range) /\ IsBoundary(source, t.destination)
                            /\ LET owned == Moved(source, t) IN t.destination \notin owned.start .. owned.end
    [] OTHER             -> Editable(source, t.range)

Removal(source, t) ==
  CASE t.kind = "insert"  -> {}
    [] t.kind = "replace" -> {t.range}
    [] t.kind = "delete"  -> {IF t.commentPolicy = "delete_owned_comments" THEN OwnedRange(source, t.range) ELSE t.range}
    [] t.kind = "move"    -> {Moved(source, t)}
Insertion(source, t) ==
  LET put(at, content) == {[at |-> at, bytes |-> content.bytes, origin |-> content.origin, original |-> {}]}
  IN CASE t.kind = "insert"  -> put(t.at, t.content)
       [] t.kind = "replace" -> put(t.range.start, t.content)
       [] t.kind = "delete"  -> {}
       [] t.kind = "move"    -> {[at |-> t.destination, bytes |-> SliceOf(source, Moved(source, t)), origin |-> "moved",
                                  original |-> {Moved(source, t)}]}
Normalize(source, t) ==
  [editId |-> t.editId, targets |-> t.targets, removal |-> Removal(source, t), insertion |-> Insertion(source, t)]

-----------------------------------------------------------------------------
(* Conflicts: one sweep over <<position, 0 for an insertion and 1 for a    *)
(* removal, transformation>>, in that order.                               *)
Precedes(a, b) == \E k \in 1 .. 3 : a[k] < b[k] /\ \A j \in 1 .. k - 1 : a[j] = b[j]
Events(values) ==
  UNION {{<<x.at, 0, i>> : x \in values[i].insertion} \cup {<<r.start, 1, i>> : r \in values[i].removal} : i \in DOMAIN values}
Swept(values) ==
  LET events == Events(values)
  IN [k \in 1 .. Cardinality(events) |-> CHOOSE e \in events : Cardinality({o \in events : Precedes(o, e)}) = k - 1]

OpenUntilTheEnd(values, s, event) == {i \in s.removal : \A r \in values[i].removal : r.end > event[1]}
\* A removal is over for an insertion behind its end, for a removal at its end.
Open(values, s, event) ==
  {i \in s.removal : \A r \in values[i].removal : IF event[2] = 0 THEN r.end >= event[1] ELSE r.end > event[1]}
Sweep(values, s, event) ==
  LET open  == Open(values, s, event)
      here  == IF s.position = event[1] THEN s.insertion ELSE {}
      other == IF open \ {event[3]} # {} THEN open ELSE here \ {event[3]}
  IN IF s.conflict # {} THEN s
     ELSE IF other # {} THEN [s EXCEPT !.conflict = other \cup {event[3]}]
     ELSE IF event[2] = 0 THEN [s EXCEPT !.removal = open, !.position = event[1], !.insertion = {event[3]}]
     ELSE [s EXCEPT !.removal = {event[3]}]
Sweeps(values) ==
  LET events == Swept(values)
      after[k \in 0 .. Len(events)] ==
        IF k = 0 THEN [removal |-> {}, insertion |-> {}, position |-> -1, conflict |-> {}] ELSE Sweep(values, after[k - 1], events[k])
  IN after
FirstConflict(values) == Sweeps(values)[Len(Swept(values))].conflict
ConflictRecord(values, conflict) ==
  [editIds |-> {values[i].editId : i \in conflict}, targets |-> UNION {ToSet(values[i].targets) : i \in conflict}]

-----------------------------------------------------------------------------
(* The new source with the provenance of its parts, from the left.         *)
ProvenanceEntry(kind, original, updated, i) == [kind |-> kind, original |-> original, updated |-> updated, by |-> i]
AppendOriginalUnshifted(source, s, until) ==
  IF until <= s.cursor THEN s
  ELSE [s EXCEPT !.cursor = until, !.output = @ \o SliceOf(source, Span(s.cursor, until)),
                 !.entries = Append(@, ProvenanceEntry("original", {Span(s.cursor, until)}, {Span(s.cursor, until)}, 0))]
AppendOriginal(source, s, until) ==
  IF until <= s.cursor THEN s
  ELSE [s EXCEPT !.cursor = until, !.output = @ \o SliceOf(source, Span(s.cursor, until)),
                 !.entries = Append(@, ProvenanceEntry("original", {Span(s.cursor, until)},
                                             {Span(Len(s.output), Len(s.output) + until - s.cursor)}, 0))]
AppendInsertion(s, x, i) ==
  [s EXCEPT !.output = @ \o x.bytes,
            !.entries = Append(@, ProvenanceEntry(x.origin, x.original, {Span(Len(s.output), Len(s.output) + Len(x.bytes))}, i))]
Skip(s, r, i) ==
  [s EXCEPT !.cursor = Max({@, r.end}), !.entries = Append(@, ProvenanceEntry("removed", {r}, {}, i))]

At(values, s, event) ==
  IF event[2] = 0 THEN AppendInsertion(s, CHOOSE x \in values[event[3]].insertion : TRUE, event[3])
  ELSE Skip(s, CHOOSE r \in values[event[3]].removal : TRUE, event[3])
Building(source, values) ==
  LET events == Swept(values)
      after[k \in 0 .. Len(events)] ==
        IF k = 0 THEN [cursor |-> 0, output |-> <<>>, entries |-> <<>>]
        ELSE At(values, AppendOriginal(source, after[k - 1], events[k][1]), events[k])
  IN after
Build(source, values) == AppendOriginal(source, Building(source, values)[Len(Swept(values))], Len(source))

\* A diagnostic of the candidate, told where the author of the edits finds it.
MapDiagnostic(d, entries, values) ==
  LET within == {k \in DOMAIN entries : \E u \in entries[k].updated : u.start <= d.start /\ d.start < u.end}
      e      == entries[Min(within)]
      u      == CHOOSE u \in e.updated : TRUE
      o      == CHOOSE o \in e.original : TRUE
      offset == Min({d.start - u.start, o.end - o.start})
      length == Min({Max({0, d.end - d.start}), o.end - o.start - offset})
      start  == Max({0, d.start - u.start})
      none   == [kind |-> "none"]
  IN IF within = {} THEN none
     ELSE CASE e.kind \in {"original", "moved"} -> [kind |-> "original_source", range |-> Span(o.start + offset, o.start + offset + length)]
            [] e.kind = "fragment" -> [kind |-> "fragment", editId |-> values[e.by].editId,
                                       range |-> Span(start, Min({u.end - u.start, Max({start, d.end - u.start})}))]
            [] e.kind = "generated" /\ values[e.by].targets # <<>> ->
                 [kind |-> "generated", editId |-> values[e.by].editId, target |-> values[e.by].targets[1]]
            [] OTHER -> none

-----------------------------------------------------------------------------
Summed(Amount(_), values) == FoldLeft(LAMBDA total, v : total + Amount(v), 0, values)
FragmentBytes(v) == MapThenSumSet(LAMBDA x : IF x.origin = "moved" THEN 0 ELSE Len(x.bytes), v.insertion)
Work(v) == 1 + MapThenSumSet(LAMBDA r : r.end - r.start, v.removal) + MapThenSumSet(LAMBDA x : Len(x.bytes), v.insertion)
NoEditUsage == [operations |-> 0, fragmentBytes |-> 0, transformedRegions |-> 0, work |-> 0, provenanceEntries |-> 0, diffBytes |-> 0, sourceBytes |-> 0]

Exceeded(names, limits, usage) == {i \in DOMAIN names : usage[names[i]] > limits[names[i]]}
Rejected(reason, detail, usage) == [status |-> "rejected", reason |-> reason, detail |-> detail, usage |-> usage]
LimitError(name, limits, usage) ==
  Rejected("limit_exceeded", [limit |-> name, maximum |-> limits[name], actual |-> usage[name]], usage)
ChangedRegions(values, entries) ==
  [i \in DOMAIN values |-> [original |-> values[i].removal, editIds |-> {values[i].editId},
     updated |-> UNION {entries[k].updated : k \in {k \in DOMAIN entries : entries[k].by = i}}]]

Limited(names, limits, usage, answer) ==
  LET over(exceeded) == IF exceeded # {} THEN LimitError(names[Min(exceeded)], limits, usage) ELSE answer
  IN over(Exceeded(names, limits, usage))
EarlyUsage(source, ts) ==
  [NoEditUsage EXCEPT !.operations = Cardinality({t.editId : t \in ToSet(ts)}), !.transformedRegions = Len(ts), !.sourceBytes = Len(source)]
PlannedUsage(source, values, usage) ==
  [usage EXCEPT !.fragmentBytes = Summed(FragmentBytes, values), !.work = Len(source) + Summed(Work, values)]
BuiltUsage(built, usage) == [usage EXCEPT !.provenanceEntries = Len(built.entries), !.sourceBytes = Len(built.output)]

\* found is what a check of the candidate finds wrong with it.
Judge(built, values, limits, found, usage) ==
  Limited(<<"provenanceEntries", "sourceBytes">>, limits, usage,
    IF found # <<>> THEN Rejected("candidate_rejected", [i \in DOMAIN found |-> MapDiagnostic(found[i], built.entries, values)], usage)
    ELSE [status |-> "accepted", source |-> built.output, provenance |-> built.entries,
          changedRegions |-> ChangedRegions(values, built.entries), usage |-> usage])
TransformValues(source, values, limits, found, usage) ==
  LET judged(built)         == Judge(built, values, limits, found, BuiltUsage(built, usage))
      conflicting(conflict) == IF conflict # {} THEN Rejected("conflicting_transformations", ConflictRecord(values, conflict), usage)
                               ELSE judged(Build(source, values))
  IN Limited(<<"fragmentBytes", "work">>, limits, usage, conflicting(FirstConflict(values)))
ApplySourceTransformations(source, ts, limits, found) ==
  LET transformed(values, usage) == TransformValues(source, values, limits, found, PlannedUsage(source, values, usage))
      started(usage) ==
        Limited(<<"operations", "transformedRegions">>, limits, usage,
          IF \E i \in DOMAIN ts : ~Valid(source, ts[i]) THEN Rejected("invalid_transformation", {}, usage)
          ELSE transformed([i \in DOMAIN ts |-> Normalize(source, ts[i])], usage))
  IN started(EarlyUsage(source, ts))

-----------------------------------------------------------------------------
(* What a batch is to do: at every offset of the original what is put      *)
(* there, then the byte if it stays.                                       *)
Touches(a, b) ==
  \/ \E x \in a.insertion, y \in b.insertion : x.at = y.at
  \/ \E x \in a.insertion, r \in b.removal : x.at \in r.start .. r.end
  \/ \E r \in a.removal, q \in b.removal : r.start < q.end /\ q.start < r.end
Disjoint(values) == \A i, j \in DOMAIN values : i # j => ~Touches(values[i], values[j])

Untouched(values, p) == \A i \in DOMAIN values : \A r \in values[i].removal : p \notin r.start .. r.end - 1
Insertions(values, p) == UNION {{x \in values[i].insertion : x.at = p} : i \in DOMAIN values}
PutAt(values, p) == IF Insertions(values, p) = {} THEN <<>> ELSE (CHOOSE x \in Insertions(values, p) : TRUE).bytes
Staying(source, values, p) == IF Untouched(values, p) THEN <<source[p + 1]>> ELSE <<>>
UpTo(source, values) ==
  LET before[p \in 0 .. Len(source)] ==
        IF p = 0 THEN <<>> ELSE (before[p - 1] \o PutAt(values, p - 1)) \o Staying(source, values, p - 1)
  IN before
Simultaneous(source, values) == UpTo(source, values)[Len(source)] \o PutAt(values, Len(source))

\* The limits the transformer judges by; the diff is measured when there is one.
Judged == {"operations", "transformedRegions", "fragmentBytes", "work", "provenanceEntries", "sourceBytes"}
\* The batch is refused for what the answer says, or all of it is applied.
IsSimultaneous(source, batch, limits, values, result) ==
  LET valid == \A i \in DOMAIN batch : Valid(source, batch[i])
  IN \/ /\ result.status = "accepted" /\ valid /\ Disjoint(values) /\ result.source = Simultaneous(source, values)
        /\ \A name \in Judged : ~(result.usage[name] > limits[name])
     \/ /\ result.status = "rejected"
        /\ \/ result.reason = "invalid_transformation" /\ ~valid
           \/ result.reason = "conflicting_transformations" /\ valid /\ ~Disjoint(values)
           \/ result.reason = "limit_exceeded" /\ result.usage[result.detail.limit] > limits[result.detail.limit]
AppliesAtOnce(source, batch, limits) ==
  IsSimultaneous(source, batch, limits, [i \in DOMAIN batch |-> Normalize(source, batch[i])],
                 ApplySourceTransformations(source, batch, limits, <<>>))

-----------------------------------------------------------------------------
(* What the provenance of a new source is to tell: of each byte of the     *)
(* original whether it is kept or removed, of each new one where it is     *)
(* from.                                                                   *)
TakesByte(e, p) == e.kind \in {"original", "removed"} /\ \E o \in e.original : p \in o.start .. o.end - 1
MakesByte(e, p) == \E u \in e.updated : p \in u.start .. u.end - 1
Tells(source, output, values, e) ==
  \A u \in e.updated :
     CASE e.kind \in {"original", "moved"} -> \A o \in e.original : SliceOf(output, u) = SliceOf(source, o)
       [] OTHER -> \E x \in values[e.by].insertion : SliceOf(output, u) = x.bytes
Accounted(source, output, values, entries) ==
  /\ \A p \in 0 .. Len(source) - 1 : Cardinality({k \in DOMAIN entries : TakesByte(entries[k], p)}) = 1
  /\ \A p \in 0 .. Len(output) - 1 : Cardinality({k \in DOMAIN entries : MakesByte(entries[k], p)}) = 1
  /\ \A k \in DOMAIN entries : Tells(source, output, values, entries[k])

\* A range of a text that shows a diagnostic of the output: it begins with the
\* byte the diagnostic begins with, and all of it stands there.
Shows(text, range, output, d) ==
  /\ range.start \in 0 .. Len(text) - 1 /\ range.end \in range.start .. Len(text)
  /\ \A p \in {range.start} \cup range.start .. range.end - 1 : text[p + 1] = output[d.start + (p - range.start) + 1]
ToldOfEdit(output, v, d, told) ==
  CASE told.kind = "fragment"  -> v.editId = told.editId /\ \E x \in v.insertion : x.origin = "fragment" /\ Shows(x.bytes, told.range, output, d)
    [] told.kind = "generated" -> /\ v.editId = told.editId /\ told.target = v.targets[1]
                                  /\ \E x \in v.insertion : x.origin = "generated" /\ \E p \in DOMAIN x.bytes : x.bytes[p] = output[d.start + 1]
    [] OTHER                   -> v.targets = <<>>
LeadsBack(source, output, values, d, told) ==
  IF told.kind = "original_source" THEN Shows(source, told.range, output, d)
  ELSE \E i \in DOMAIN values : ToldOfEdit(output, values[i], d, told)
MappedBack(source, output, values, entries) ==
  \A start \in 0 .. Len(output) - 1, end \in 0 .. Len(output) :
    LET d == [start |-> start, end |-> end] IN LeadsBack(source, output, values, d, MapDiagnostic(d, entries, values))
IsTold(source, output, values, entries) == Accounted(source, output, values, entries) /\ MappedBack(source, output, values, entries)
AccountsForBytes(source, batch, limits) ==
  LET result == ApplySourceTransformations(source, batch, limits, <<>>)
  IN result.status = "accepted" =>
       IsTold(source, result.source, [i \in DOMAIN batch |-> Normalize(source, batch[i])], result.provenance)
=============================================================================

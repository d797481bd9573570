--------------------------- MODULE ProtocolPayloads ---------------------------
(***************************************************************************)
(* What every message of the worker protocol carries: the payload schemas  *)
(* of packages/worker/src/protocol.ts, by message kind.                    *)
(***************************************************************************)
EXTENDS ProtocolCodec

CONSTANTS
  \* Bytes of a text: an ordinary one, the detail of a host's failure, a digest,
  \* the text of a semantic literal; of a byte string: any, a source fragment.
  MaxText, MaxDetail, MaxDigest, MaxLiteral,   \* 4096, 160, 64, 2^20
  MaxBytes, MaxFragment,                       \* 16 700 000, 2^20
  \* Items of an array: any, entries of a scope, a provenance or a diff, changed
  \* regions, lists of an edit and its outcome, steps of a path and conditions.
  MaxItems, MaxEntries, MaxRegions, MaxList, MaxSteps,  \* 1 000 000, 500 000, 4096, 1024, 64
  Nanoseconds,   \* 999 999 999
  SchemaNesting  \* 64: how deep a schema may nest on the wire

Boolean       == [kind |-> "boolean"]
Uint          == [kind |-> "uint"]
Float64       == [kind |-> "float64"]
TextOf(max)   == [kind |-> "text", maxBytes |-> max]
Str           == TextOf(MaxText)
Digest        == TextOf(MaxDigest)
BytesUpTo(max) == [kind |-> "bytes", maxBytes |-> max]
Bytes         == BytesUpTo(MaxBytes)
ArrayUpTo(item, max) == [kind |-> "array", item |-> item, maxItems |-> max]
ArrayOf(item) == ArrayUpTo(item, MaxItems)
Strs          == ArrayOf(Str)
Listed        == ArrayUpTo(Str, MaxList)   \* texts that an edit names
Literal(t)    == [kind |-> "literal", value |-> Txt(t)]
OneOf(choices) == [kind |-> "oneOf", choices |-> choices]
Names(ts)     == OneOf([i \in DOMAIN ts |-> Literal(ts[i])])
Record(fields)            == [kind |-> "record", fields |-> fields, optional |-> {}]
RecordWith(fields, names) == [Record(fields) EXCEPT !.optional = names]
Joined(r, fields, names)  == RecordWith(r.fields @@ fields, r.optional \cup names)
Counts(names)             == [name \in names |-> Uint]
Each(Make(_), names)      == FoldSet(LAMBDA name, made : Append(made, Make(name)), <<>>, names)

MessageId    == [kind |-> "uint", minimum |-> 1, bigint |-> TRUE]
EpochSeconds == [kind |-> "int", bigint |-> TRUE]
SchemaInt    == [kind |-> "int", bigint |-> TRUE]

Instant        == Record([epoch_seconds |-> EpochSeconds, nanoseconds |-> [kind |-> "uint", maximum |-> Nanoseconds]])
SourceLocation == Record([module |-> Str, start |-> Uint, end |-> Uint])
CompilerVersion == Record([build |-> Str])
Version        == Record(Counts({"major", "minor"}))
CompileLimits  ==
  Record(Counts({"source_bytes", "imports", "declarations", "syntax_nodes", "syntax_depth", "type_depth", "derived_template_bytes"})
         @@ [include_diagnostics |-> Boolean])
ExecutionLimits ==
  Record(Counts({"max_depth", "max_nodes", "max_bytes", "fuel", "allocations", "allocated_bytes", "collection_items", "call_depth",
                 "host_calls", "trace_bytes", "output_bytes"}))

-----------------------------------------------------------------------------
(* The registry. *)
Primitive ==
  LET bounded(name, bound) == RecordWith([kind |-> Literal(name), minimum |-> bound, maximum |-> bound], {"minimum", "maximum"})
      sized(name) == RecordWith([kind |-> Literal(name), max_bytes |-> Uint], {"max_bytes"})
  IN OneOf(<<Record([kind |-> Literal("unit")]), Record([kind |-> Literal("boolean")]), bounded("int64", SchemaInt),
             bounded("float64", Float64), sized("string"), sized("bytes"), bounded("instant", Instant),
             Record([kind |-> Literal("ref"), type |-> Str])>>)

ContractSchema[depth \in 0 .. SchemaNesting] ==
  IF depth = 0 THEN Primitive
  ELSE LET child == ContractSchema[depth - 1]
       IN OneOf(<<Primitive,
                  RecordWith([kind |-> Literal("list"), item |-> child, max_items |-> Uint], {"max_items"}),
                  Record([kind |-> Literal("tuple"), items |-> ArrayOf(child)]),
                  Record([kind |-> Literal("record"), fields |-> ArrayOf(Record([name |-> Str, schema |-> child]))]),
                  Record([kind |-> Literal("variant"), variants |-> ArrayOf(Record([tag |-> Str, schema |-> child]))]),
                  Record([kind |-> Literal("brand"), type |-> Str, base |-> child])>>)

Registry ==
  LET operation == [id |-> Str, input |-> Str, output |-> Str, error |-> Str, effect_cost |-> Uint, fingerprint |-> Digest]
      slot == [id |-> Str, input |-> Str, output |-> Str, operations |-> Strs, compile_limits |-> CompileLimits,
               execution_limits |-> ExecutionLimits, fingerprint |-> Digest]
      type == [id |-> Str, schema |-> ContractSchema[SchemaNesting], fingerprint |-> Digest]
  IN Record([id |-> Str, digest |-> Digest, schemas |-> Record([types |-> ArrayOf(Record(type))]),
             operations |-> ArrayOf(Record(operation)), slots |-> ArrayOf(Record(slot)),
             definitions |-> ArrayOf(Record([id |-> Str, fingerprint |-> Digest]))])

-----------------------------------------------------------------------------
(* Requests. *)
SourceProgram == Record([module |-> Str, source |-> Bytes])
CheckRequest ==
  RecordWith([registry |-> Registry, slot_id |-> Str, source |-> SourceProgram, limits |-> CompileLimits,
              include_artifact |-> Boolean, cached_artifact |-> Bytes], {"include_artifact", "cached_artifact"})

ViewRequest ==
  OneOf(<<Record([kind |-> Literal("semantic_graph"), schema |-> Version, limits |-> Record(Counts({"nodes", "edges", "bytes"}))]),
          Record([kind |-> Literal("semantic_edit_capabilities"), schema |-> Version,
                  scope |-> OneOf(<<Literal("all"), Record([targets |-> ArrayUpTo(Str, MaxEntries)])>>),
                  limits |-> Record(Counts({"targets", "capabilities", "bytes"}))])>>)
Views(view) == ArrayUpTo(view, 2)
InspectRequest == Joined(CheckRequest, [views |-> Views(ViewRequest)], {})

Anchor == RecordWith([container |-> Str, index |-> Uint, before |-> Str, after |-> Str], {"before", "after"})
Fragment ==
  Record([category |-> Names(<<"expression", "statement", "statement_list", "declaration", "declaration_list", "type", "binding_pattern",
                               "parameter", "argument", "object_member", "array_element", "switch_case", "import_specifier">>),
          source |-> BytesUpTo(MaxFragment)])
SemanticLiteral == OneOf(<<[kind |-> "literal", value |-> Null], Boolean, Float64, TextOf(MaxLiteral)>>)
Precondition ==
  LET texts == {"target_kind", "target_semantic_kind", "old_name", "old_operator", "old_operation", "expected_parent"}
      on(kind, value) == Record([kind |-> Literal(kind), value |-> value])
  IN OneOf(Each(LAMBDA kind : on(kind, Str), texts)
           \o <<on("old_literal", SemanticLiteral), on("expected_anchor", Anchor), on("expected_type", Digest),
                on("expected_bindings", Listed), on("expected_captures", Listed), on("owned_comments", Boolean)>>)
StatementRange == Record([container |-> Str, first |-> Str, last |-> Str])
SchemaPath     == ArrayUpTo(OneOf(<<Str, Uint>>), MaxSteps)
CommentPolicy  == Names(<<"delete_owned_comments", "preserve_owned_comments">>)
ControlSpec ==
  LET with(kind, names) == [kind |-> Literal(kind)] @@ [name \in names |-> Fragment]
      parts == {"initializer", "condition", "increment"}
  IN OneOf(<<Record(with("if", {"condition"}) @@ [branch |-> Names(<<"true", "false">>)]), Record(with("for_of", {"binding", "iterable"})),
             Record(with("for_in", {"binding", "value"})), Record(with("while", {"condition"})), Record(with("do", {"condition"})),
             RecordWith(with("for", parts), parts), Record(with("switch", {"value"}))>>)

EditFields ==
  LET target == [target |-> Str]
      branch == OneOf(<<Record([kind |-> Literal("else"), body |-> Fragment]),
                        Record([kind |-> Literal("switch_case"), value |-> Fragment, body |-> Fragment])>>)
      variant == [variant |-> Names(<<"ok", "error">>)]
      pairs(fields) == ArrayUpTo(Record(fields), MaxList)
  IN [rename_symbol      |-> target @@ [new_name |-> Str],
      replace_target     |-> target @@ [replacement |-> Fragment],
      insert_at_anchor   |-> [anchor |-> Anchor, fragment |-> Fragment],
      delete_target      |-> target @@ [comment_policy |-> CommentPolicy],
      move_target        |-> target @@ [destination |-> Anchor],
      reorder_children   |-> [container |-> Str, children |-> Listed],
      wrap_statement_range |-> [range |-> StatementRange, control |-> ControlSpec],
      move_statement_range |-> [range |-> StatementRange, destination |-> Anchor],
      unwrap_control     |-> target @@ [retained_container |-> Str],
      add_branch         |-> target @@ [branch |-> branch],
      remove_branch      |-> target @@ [comment_policy |-> CommentPolicy],
      convert_control    |-> target @@ [control |-> ControlSpec, retained_containers |-> pairs([from |-> Str, role |-> Str])],
      extract_local      |-> target @@ [name |-> Str, declaration |-> Anchor, replace_targets |-> Listed],
      inline_local       |-> [binding |-> Str, references |-> Listed, remove_declaration |-> Boolean, comment_policy |-> CommentPolicy],
      extract_function   |-> [range |-> StatementRange, name |-> Str, declaration |-> Anchor,
                              parameters |-> pairs([symbol |-> Str, name |-> Str]), outputs |-> Listed],
      inline_function_call |-> [call |-> Str, function |-> Str, parameter_arguments |-> pairs([parameter |-> Str, argument |-> Str]),
                                remove_declaration |-> Boolean, comment_policy |-> CommentPolicy],
      change_binding_pattern    |-> target @@ [pattern |-> Fragment],
      change_binding_mutability |-> target @@ [mutability |-> Names(<<"const", "let">>)],
      change_action_operation   |-> target @@ [operation |-> Str, field_mappings |-> pairs([from |-> SchemaPath, to |-> SchemaPath]),
                                               required_inputs |-> pairs([path |-> SchemaPath, value |-> Fragment])],
      set_action_input_field    |-> target @@ [path |-> SchemaPath, value |-> Fragment],
      remove_action_input_field |-> target @@ [path |-> SchemaPath],
      bind_action_result        |-> target @@ [pattern |-> Fragment],
      add_action_result_branch  |-> target @@ variant @@ [body |-> Fragment],
      set_literal_value         |-> target @@ [value |-> SemanticLiteral],
      change_operator           |-> target @@ [operator |-> Str],
      change_member_name        |-> target @@ [name |-> Str],
      toggle_optional_access    |-> target @@ [optional |-> Boolean],
      change_call_callee        |-> target @@ [callee |-> Fragment],
      change_object_field_name  |-> target @@ [name |-> Str],
      change_result_variant     |-> target @@ variant]
SemanticEdit ==
  LET edit(kind) == Record([kind |-> Literal(kind), edit_id |-> Str, preconditions |-> ArrayUpTo(Precondition, MaxSteps)] @@ EditFields[kind])
  IN OneOf(Each(edit, DOMAIN EditFields))

EditCounts == Counts({"operations", "fragment_bytes", "transformed_regions", "work", "provenance_entries", "diff_bytes", "source_bytes"})
EditsRequest ==
  Joined(CheckRequest, [edit_schema |-> Version, graph_schema |-> Version, base_revision |-> Str, edits |-> ArrayUpTo(SemanticEdit, MaxList),
                        edit_limits |-> Record(EditCounts), views |-> Views(ViewRequest)], {"views"})

ExecuteRequest ==
  LET program == OneOf(<<Record([kind |-> Literal("source"), source |-> CheckRequest]), Record([kind |-> Literal("artifact"), bytes |-> Bytes])>>)
  IN RecordWith([registry |-> Registry, slot_id |-> Str, invocation_id |-> Str, program |-> program, input |-> Bytes,
                 limits |-> ExecutionLimits, fixed_instant |-> Instant, random_seed |-> Bytes, trace |-> Boolean],
                {"fixed_instant", "random_seed"})

-----------------------------------------------------------------------------
(* Results. *)
BridgeError ==
  RecordWith([code |-> Names(<<"adapter_failure", "artifact_verification_failed", "bridge_closed", "capacity_exceeded", "invalid_request",
                               "unsupported_version", "worker_close_timeout", "worker_identity_mismatch", "worker_lost",
                               "worker_start_failed", "worker_start_timeout">>),
              phase |-> Names(<<"check", "inspect", "apply_semantic_edits", "execute", "cancel", "close", "action">>),
              detail |-> Str], {"detail"})
Status(name, fields) == [status |-> Literal(name)] @@ fields
BridgeErrorResult == Record(Status("bridge_error", [error |-> BridgeError]))

CompileUsage == Record(Counts({"source_bytes", "syntax_nodes"}))
Summary      == Record([operations |-> Strs])
Provenance   == Record([compiler |-> CompilerVersion])
Diagnostic ==
  RecordWith([code |-> Str, severity |-> Names(<<"error", "warning", "info">>), message |-> Str,
              repair |-> Record([category |-> Str, action |-> Str]), location |-> SourceLocation, related |-> ArrayOf(SourceLocation)],
             {"location", "related"})
Diagnostics == ArrayOf(Diagnostic)
Prepared == [artifact |-> Bytes, summary |-> Summary, provenance |-> Provenance, usage |-> CompileUsage, diagnostics |-> Diagnostics]
CheckAccepted == RecordWith(Status("accepted", Prepared), {"artifact"})
CheckRejected == Record(Status("rejected", [diagnostics |-> Diagnostics, usage |-> CompileUsage]))
CheckResult   == OneOf(<<CheckAccepted, CheckRejected, BridgeErrorResult>>)

ViewResult ==
  LET view(kind, code, limits) ==
        <<Record([kind |-> Literal(kind)] @@ Status("accepted", [bytes |-> Bytes])),
          Record([kind |-> Literal(kind)] @@
                 Status("rejected", [error |-> Record([code |-> Literal(code), limit |-> Names(limits), maximum |-> Uint, actual |-> Uint])]))>>
  IN OneOf(view("semantic_graph", "graph_limit_exceeded", <<"nodes", "edges", "bytes">>)
           \o view("semantic_edit_capabilities", "capability_limit_exceeded", <<"targets", "capabilities", "bytes">>))
InspectResult ==
  OneOf(<<Record(Status("accepted", [check |-> CheckAccepted, views |-> Views(ViewResult)])), CheckRejected, BridgeErrorResult>>)

EditLocation ==
  OneOf(<<Record([kind |-> Literal("original_source"), location |-> SourceLocation]),
          Record([kind |-> Literal("fragment"), edit_id |-> Str, start |-> Uint, end |-> Uint]),
          Record([kind |-> Literal("generated"), edit_id |-> Str, target |-> Str])>>)
EditDiagnostic ==
  RecordWith([code |-> Names(<<"SE_STALE_REVISION", "SE_TARGET_NOT_FOUND", "SE_TARGET_KIND_MISMATCH", "SE_PRECONDITION_FAILED",
                               "SE_CONFLICTING_EDITS", "SE_FRAGMENT_REJECTED", "SE_TRANSFORMED_SOURCE_REJECTED", "SE_EDIT_LIMIT_EXCEEDED">>),
              message |-> Str, edit_ids |-> Listed, targets |-> Listed, location |-> EditLocation,
              related |-> ArrayUpTo(EditLocation, MaxSteps)], {"location"})
EditChanges ==
  LET located == [original |-> SourceLocation, updated |-> SourceLocation, edit_ids |-> Listed]
      ends    == {"original", "updated"}
      kinds   == <<"preserved", "updated", "renamed", "moved", "added", "removed", "split", "merged">>
      outcome == [edit_id |-> Str, targets |-> Listed, changed_regions |-> ArrayUpTo(Uint, MaxRegions)]
      origin  == located @@ [kind |-> Names(<<"original", "generated", "copied", "moved", "removed">>), targets |-> Listed]
      entry   == [kind |-> Names(kinds), before |-> Listed, after |-> Listed, edit_ids |-> Listed]
  IN [outcomes        |-> ArrayUpTo(Record(outcome), MaxList),
      changed_regions |-> ArrayUpTo(RecordWith(located, ends), MaxRegions),
      provenance      |-> ArrayUpTo(RecordWith(origin, ends), MaxEntries),
      diff            |-> Record([entries |-> ArrayUpTo(Record(entry), MaxEntries)])]
EditsResult ==
  LET reasons == <<"source_rejected", "stale_revision", "target_not_found", "target_kind_mismatch", "precondition_failed",
                   "conflicting_edits", "fragment_rejected", "transformed_source_rejected", "edit_limit_exceeded">>
      limits  == <<"operations", "fragment_bytes", "transformed_regions", "work", "provenance_entries", "diff_bytes", "source_bytes">>
      limit   == Record([limit |-> Names(limits), maximum |-> Uint, actual |-> Uint])
  IN OneOf(<<Record(Status("accepted", [source |-> SourceProgram, source_hash |-> Digest, program_hash |-> Digest, semantic_revision |-> Str,
                                        check |-> CheckAccepted, usage |-> Record(EditCounts), views |-> Views(ViewResult)] @@ EditChanges)),
             RecordWith(Status("rejected", [reason |-> Names(reasons), diagnostics |-> Diagnostics, edit_diagnostics |-> ArrayUpTo(EditDiagnostic, MaxList),
                                            edit_ids |-> Listed, targets |-> Listed, usage |-> Record(EditCounts), limit |-> limit,
                                            compile_usage |-> CompileUsage]), {"limit", "compile_usage"}),
             BridgeErrorResult>>)

-----------------------------------------------------------------------------
(* Actions and executions. *)
ActionRequest ==
  Record([contract_id |-> Str, ir_digest |-> Digest, invocation_id |-> Str, request_id |-> Str, slot_id |-> Str, operation_id |-> Str,
          action_site_id |-> Str, source |-> SourceLocation, input |-> Bytes])
HostFailure ==
  RecordWith([code |-> Names(<<"cancelled", "gateway_fault", "handler_fault", "invalid_result", "timeout", "transport_lost", "unavailable">>),
              detail |-> TextOf(MaxDetail)], {"detail"})
ActionOutcome ==
  LET failed == Record([effect_state |-> Names(<<"not_performed", "unknown">>), failure |-> HostFailure])
  IN Record([request_id |-> Str, result |-> OneOf(<<Record([tag |-> Literal("completed"), value |-> Bytes]),
                                                    Record([tag |-> Literal("failed"), value |-> failed])>>)])
ExecutionUsage ==
  Record(Counts({"fuel", "allocations", "allocated_bytes", "peak_collection_items", "peak_value_depth", "peak_value_nodes",
                 "peak_value_bytes", "peak_call_depth", "host_calls", "trace_bytes", "output_bytes"}))
ExecutionFacts ==
  LET preparation == OneOf(<<RecordWith([kind |-> Literal("source")] @@ Prepared, {"artifact"}),
                             Record([kind |-> Literal("artifact"), ir_digest |-> Digest])>>)
      record == OneOf(<<Record([phase |-> Literal("requested"), request |-> ActionRequest]),
                        Record([phase |-> Literal("resolved"), request_id |-> Str, outcome |-> ActionOutcome])>>)
  IN Record([preparation |-> preparation, actions |-> ArrayOf(record), usage |-> ExecutionUsage,
             trace |-> Record([records |-> ArrayOf(Bytes), truncated |-> Boolean])])
ExecutionResult ==
  LET failure == RecordWith([code |-> Str, detail |-> Str, source |-> SourceLocation], {"detail", "source"})
      stopped(status) == Record(Status(status, [error |-> failure, facts |-> ExecutionFacts]))
      reasons == [diagnostics |-> Diagnostics, error |-> BridgeError, usage |-> CompileUsage]
  IN OneOf(<<RecordWith(Status("not_started", reasons), DOMAIN reasons),
             Record(Status("completed", [output |-> Bytes, facts |-> ExecutionFacts])),
             stopped("failed"), stopped("cancelled"), BridgeErrorResult>>)

Only(status) == Record([status |-> Literal(status)])
Payloads ==
  ("bridge.check.request"   :> CheckRequest)  @@ ("bridge.check.result"   :> CheckResult)
  @@ ("bridge.inspect.request" :> InspectRequest) @@ ("bridge.inspect.result" :> InspectResult)
  @@ ("bridge.apply_semantic_edits.request" :> EditsRequest) @@ ("bridge.apply_semantic_edits.result" :> EditsResult)
  @@ ("bridge.execute.request" :> ExecuteRequest) @@ ("bridge.execute.result" :> ExecutionResult)
  @@ ("bridge.cancel.request"  :> Record([invocation_id |-> Str]))
  @@ ("bridge.cancel.result"   :> OneOf(<<Only("accepted"), Only("not_active"), BridgeErrorResult>>))
  @@ ("session.close.request"  :> Record(<<>>))
  @@ ("session.close.result"   :> OneOf(<<Only("closed"), BridgeErrorResult>>))
  @@ ("action.request" :> Record([execute_id |-> MessageId, request |-> ActionRequest]))
  @@ ("action.outcome" :> Record([request |-> MessageId, outcome |-> ActionOutcome]))
  @@ ("protocol.error" :> RecordWith([code |-> Str, scope |-> Names(<<"request", "connection">>), detail |-> Str], {"detail"}))
=============================================================================

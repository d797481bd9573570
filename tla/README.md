# SafeScript in TLA+

A model of the SafeScript runtime (`packages/contracts`, `packages/engine`,
`packages/worker`, `packages/sdk`) for TLC, with proofs for TLAPS.

SafeScript compiles a restricted TypeScript program, interprets it under limits in a
worker process and lets it reach its host only through *actions*, each one request
answered by one outcome. What is hard in it is not the interpreter alone: it is that a
host, a worker and an engine with three different views of the same calls have to agree
about them while calls are cancelled, frames overtake each other, a process dies or the
whole thing is closed. The models start there.

Paths below are relative to `src/`; `process-bridge.ts` is
`packages/sdk/src/process-bridge.ts`, `server.ts` is `packages/worker/src/server.ts`,
`bridge.ts` is `packages/engine/src/bridge.ts`.

## 1. Inventory

How a call travels:

    host program
      -> facade (sdk/facade.ts)               controllers, artifact store
      -> supervisor (process-bridge.ts:686)   one lazy worker, deadlines
      -> process bridge (process-bridge.ts)   correlation, action handlers
      -> frame writer ~~ pipe ~~> frame decoder (contracts/worker-framing.ts)
      -> worker server (server.ts)            admission, replies
      -> direct bridge (bridge.ts)            compile, interpret, dispatch
      -> action request, back through the same two pipes
      -> gateway (sdk/gateway.ts) -> the host's handler

| Component | State it keeps | Operations | What is hard | What makes it correct |
|---|---|---|---|---|
| frame writer, `worker-framing.ts:167` | two queues, waiting frames, queued bytes, class of the last frame, frame at the sink | `write`, `configureQueue`, sink settles | admission against a byte bound with a reserve; fairness of two classes; renegotiation while frames are queued | bytes counted exactly, no frame waits without need, none starves |
| frame decoder, `worker-framing.ts:67` | header and body so far, terminal code | `push`, `finish`, `expirePartialFrame` | any chunking; truncation; the deadline that belongs to the read loop | exactly the whole frames; never resynchronises; deadline exactly inside a frame |
| handshake, `worker-handshake.ts` | connection states, limits and queue of each peer | hello, welcome, incompatible | both ends derive limits and queues on their own | ready peers agree, within every party's limits |
| process bridge, `process-bridge.ts:120` | `#state`, `#pending`, `#activeInvocations`, action ids, `#seenActionRequests` | the six bridge methods, `#accept`, `#acceptAction`, `#resolveAction`, `#fail`, `terminate` | results, actions, losses and the host's handlers interleave | each call answered once; handlers run once and only for open executions |
| worker server, `server.ts` | `#state`, `#tasks`, in-flight counts, pending actions | `#receive`, `#dispatch`, `#requestAction`, `#acceptActionOutcome`, `finish`, `#fail` | admission lags the host; failure with engines waiting | one reply per request; a failed worker lets go of everything |
| direct bridge and action dispatcher, `bridge.ts` | active invocations, their cancellation listeners, action records, meter | check, inspect, edits, execute, cancel, close; receive/settle of an action | cancellation against an outcome in the same turn; facts of a performed action | at most one action at a time, one terminal result, complete facts |
| supervisor, `process-bridge.ts:677` | `#closed`, `#failure`, `#connection`, `#starting`, `#closePromise` | `#acquire`, `#start`, `#observe`, `close` | start, its two deadlines, a late transport, loss and close race | at most one worker, its end kept, worker released |
| node transport, `node-process-bridge.ts` | child process, exit promise | launch, write, read, close, stderr | process exit against stream ends | `close()` resolves once the process is gone |
| compilation cache, `compilation-cache.ts` | entries, weight, generation, pending promises | `getOrLoad`, `clear` | a clear between the turns of a load | within limits; nothing outlives a clear; one load per key |
| gateway, `gateway.ts` | sequence, attempted calls, active flag | `handle` | requests that overlap; abort between hook and handler | sequence and call count match what was dispatched |
| facade and artifact store, `facade.ts` | abort controllers by invocation id, known artifact keys, shared loads, active tasks | six methods, `test` | close or abort during a load that others share; a store that never answers | cancel and close reach every execution; nothing starts after close; close resolves |
| meter and trace, `bridge.ts`, `resource-schedule.ts` | usage, records of the trace | `charge`, `allocate`, `scan`, `observe`, `add` | order of charge, record and effect | paid for before performed; a limit only cuts a run short |
| interpreter, `structured-interpreter.ts` | environments, control signals | evaluate statements and expressions | return/break through nested scopes, cancellation polls | deterministic, bounded, no step after cancellation |
| compiler and IR, `structured-compiler.ts`, `structured-ir.ts`, `compiler.ts`, `checked-source.ts`, `source-offsets.ts` | none | compile, verify | the verifier accepts exactly what the interpreter can run | verified IR never raises `invalid_ir` |
| artifacts, `artifact.ts` | none | key, encode, verify | a kept artifact of another registry, compiler or source | a request is answered alike with and without one |
| semantic model and edits, `semantic-*.ts`, `source-transform.ts`, `contracts/semantic-edit.ts` | a document and its graph | build, check preconditions, apply a batch, diff | conflicting overlapping replacements; batches are all or nothing | an edited document is the composition of its edits or the old one |
| canonical codec and identifiers, `contracts/index.ts` | none | encode, decode, digest, JSON | width, ordering and depth limits | decode inverts encode; one encoding per value |
| worker payload codecs, `worker-protocol.ts`, `worker/protocol.ts` | none | encode, decode envelopes | canonical form, unknown fields | as the codec |
| SDK authoring, test host, `authoring.ts`, `contract.ts`, `declarations.ts`, `testing.ts` | script position of the test host | declarations; scripted outcomes | - | declared types match the registry |
| command line, conformance suite, examples | - | - | - | they exercise the system |

## 2. Modules

| Module | Models | Uses |
|---|---|---|
| `FrameWriter` | `WorkerProtocolFrameWriter` | |
| `FrameDecoder` | `WorkerProtocolFrameDecoder` with the read loop and deadline that drive it | |
| `Framing` | the two halves of `worker-framing.ts` side by side | `FrameWriter`, `FrameDecoder` |
| `Sums` | the sum of a sequence of naturals: queued bytes, lengths of frames, weights of entries | |
| `Handshake` | negotiation, both peers' use of it, a foreign worker | |
| `BridgeChannel` | calls, envelopes, the two pipes | |
| `ProcessBridge` | `ProcessRuntimeBridge` after its handshake | `BridgeChannel` |
| `WorkerServer` | `RuntimeWorkerServer` and the engine it owns, as far as calls and actions go | `BridgeChannel` |
| `WorkerSession` | a connection: `ProcessBridge` and `WorkerServer` composed | both, `BridgeContract` |
| `BridgeContract` | abstract: what any `RuntimeBridge` promises a host | |
| `Supervisor` | `SupervisedProcessRuntimeBridge` | |
| `CompilationCache` | `CompilationCache` | |
| `DirectBridge` | `DirectRuntimeBridge.execute`, `cancel`, `close` and `ActionDispatcher`, one action per microtask | |
| `Gateway` | `createGateway`: requests of a bridge against hook and handler | |
| `Facade` | `FacadeCoordinator`, `ArtifactStorage` | `Gateway` |
| `CanonicalCodec` | schemas, registries, `encodeCanonical`, `decodeCanonical`, `canonicalJson` | |
| `ExecutionMeter` | `ExecutionMeter`, `canonicalMetrics`, `ExecutionTrace`, the resource schedule | `CanonicalCodec` |
| `StructuredIR` | `verifyProgram`: shape, names and the summary of a program | |
| `Intrinsics` | operators, member functions and globals of the language | `ExecutionMeter` |
| `Interpreter` | the structured interpreter and the run around it | `Intrinsics` |
| `ProtocolCodec` | `worker-protocol.ts`: the wire values, schemas and the envelope | |
| `ProtocolPayloads` | `protocol.ts`: every payload schema, with its names, choices and bounds | `ProtocolCodec` |
| `SourceTransform` | `applySourceTransformations`: ranges, conflicts, the new text and its provenance | |
| `SemanticEdits` | the primitive edits over a given graph, the kernel over them | `SourceTransform` |
| `SemanticDiff` | `buildSemanticDiff`; what it and the transformer owe, as properties of a problem | `SourceTransform` |
| `CheckPipeline` | check, inspect and edit requests: validation, cached result, kept artifact, limits, views | |
| `CompilingBridge` | the compiling methods of one bridge: requests, the loads they start and share, the results the cache keeps | `CompilationCache`, `CheckPipeline` |
| `HandshakeProofs`, `FramingProofs`, `WorkerSessionProofs`, `DirectBridgeProofs`, `SupervisorProofs`, `CompilingBridgeProofs`, `FacadeProofs` | theorems about the module each is named for | |
| `SumsProofs` | lemmas about sums, splits and least counterexamples, for the two that count | |
| `MC*` | instances for TLC; `MCValues` with `MCProtocol` and `MCEdits` holds the inputs of the pure parts and what they are compared with | |

`PROJECT.json` ("map") names the lines behind each definition. How state corresponds to
the code, where it is not a field of the same name:

* `WorkerSession.result[c]` is the promise that call `c` returned; `"pending"` means that
  its exchange is in `#pending`. `handler[a] = "running"` means that `a` is in the
  `actionIds` of its exchange *or* that its exchange is gone and the handler still runs.
* `task[c]` is where the worker's dispatch of `c` is. `#inFlight` and the two capacity
  counters are cardinalities of sets of tasks: a request leaves `#tasks` in the `finally`
  of `#dispatch`, after its reply was written.
* An action `<<e, n>>` is the n-th host call of execution `e` and the envelope id of its
  request. `RequestId` is what travels in the payload and *is not* unique:
  `request:<invocation>:<sequence>`.
* `DirectBridge.queue` is the microtask queue; a job says which promise reaction it is and
  how many reactions of wrapping promises it still has to pass, so that a cancellation
  and an outcome that settle in one turn are ordered as `Promise.race` orders them.
* `Facade.controllers[i]` is the set of the one execution whose controller the map holds
  for invocation id `i`, `aborted` the executions whose signal is aborted, `pc` the await
  an execution is at.
* A pure function is an operator of the same name. The state of a run in `ExecutionMeter`
  and `Interpreter` is a record passed from operator to operator: its `code` is what an
  exception or a control signal would be.
* A pipe is a record: the host's has its writer's two classes and the frame at the sink
  (bytes and waiting frames are `FrameWriter`'s affair), the worker's is one sequence,
  because every worker reply and action is of one class and the pump is not interleaved.
  A crash cuts the worker's pipe after any frame, or inside one.
* `Supervisor` reduces a connection to the states its owner can see (`bridge`) and the
  transport to open, closing (`close()` was called) and closed (that call resolved). A
  failed one is `"lost"` or `"violated"`: `#fail` was given `worker_lost`, or its default
  `adapter_failure`. An operation is `"calling"` when it has the connection and `"pending"`
  when it is in the bridge's `#pending`.
* A deadline is an action enabled as long as what it bounds has not happened.

Atomicity. One action is the code between two awaits that reach outside: one chunk is
decoded and its envelopes handled one by one (the code yields between none of them, so
handling them one at a time allows more interleavings, never fewer). The engine's
microtasks up to its next wait are one step. `DeferredSink` covers both an `entry.ts`
sink, which settles in the turn of the write, and one that settles later.

## 3. Runs

Ten runs must pass and two must not. `PROJECT.json` has a mutant for every property: a
plausible bug that the property catches under the run's own bounds.

| Run | Bounds | Shows |
|---|---|---|
| `framing` | writer: two ordinary and three reserved callers, frames of 1-4 bytes, queue of 3 or 4 with reserve 1 or 2, unbounded writes. Decoder: all streams of up to three lengths in 0..3, maximum 2, chunks of up to 7 bytes, end or timeout anywhere | `QueueAccounting`: the byte count is that of the frames admitted. `NoIdleCapacity`: a frame waits only if it does not fit, after narrowing and failures too. `AdmittedSettles`: neither class starves the other. `FramesMatchStream` (with it: a clean end is at a frame boundary, and nothing is read after a bad frame), `DeadlineCoversPartialFrame`. One frame of each class is as large as its class permits, which makes others wait behind and pass it; seven bytes end one frame, hold one and begin a third. |
| `handshake` | host limits over 72 combinations against three worker limits, two digests, override, two releases, two foreign welcomes | `ReadyPeersAgree`, `ReadyLimits` |
| `session` | two executions with one action each, an inquiry, a cancel, a close; two data requests in flight, four replies; no faults | `HandlersOfPendingOnly`, `SurvivesWork` (only a cancel or a close can cost the connection) |
| `session_faults` | two executions of *one* invocation id with two actions each, all six faults, a sink that settles later | `NoRepeatedRequest`, `WorkerWorksForPending`, `ImplementsContract` |
| `session_live` | one execution, its cancel, a close; crash, bad outcome, result that does not encode | `EveryCallAnswered`, `FailedWorkerDrains` |
| `supervisor` | three operations and a close, two starts possible | `OneWorker`, `EveryCallReturns`, `CloseReleasesWorker` |
| `compilation_cache` | some thirty requests that any bridge may get, with the artifacts a host may have kept; a cache of two entries, or fewer by their weight; three loads, one clear | `WithinLimits`, `OneLoadPerKey`, `NothingOutlivesClear`; `CacheTransparent`, `EditedSourceStands`: no answer depends on what is cached |
| `direct_bridge` | two executions with two actions each, a cancel, a close | `FactsMatchHost`, `AnsweredIsOver`, `CloseNeedsNoHost` |
| `facade` | two executions of one source, two requests of a hostile bridge at one's gateway, a cancel, an inquiry, a close | `SerialDispatch`, `NoHandlerAfterAbort`, `CloseAbortsInvocations`, `NothingStartsAfterClose`, `SharedLoadSurvivesCancel`, `CloseResolves` |
| `values` | 454,000 problems, one per state: see below | nine properties of the pure parts |
| `cancel_during_handler` | one execution with one action, its cancel | violated: section 5 |
| `moves` | moves and reorders among three statements with comments | violated: section 5 |

Why the bounds are enough. The session's guards compare cardinalities with two limits, so
what matters is being one below, at and one over each: two data requests in flight with
three that could be (two executions and an inquiry) is that. Two actions of one execution
are needed for the order of actions, two executions of one id for repeated request ids.
In the facade two executions share a load, one of them is cancelled, and a second request
arrives while the first is with the hook or the handler: each hazard is of two actors.
`MaxActions`, `MaxStarts`, `MaxLoads`, `MaxClears` and `MaxChunk` are the bounds that the
code does not have; `MaxActions` stands for a program that stops.

`values` has a state that names a problem and properties that say what is to hold of its
solution; its "next state" picks the problem. The kinds of problem:

* *run*: programs of one statement of each form around one expression of each form around
  an action, granted or not and declared or not, with the others, and of items and fields
  that are an expression and a spread at once, as `unknown` input may have them; under generous limits,
  under eleven single limits tightened (seven amounts of fuel among them), and with a
  cancellation at the first action, before or after its answer. `RequestsDeclared`: what a
  verified program may ask of its host is in its summary, wherever the action stands, and of a
  program of the declared shape it is what the slot grants.
  `LimitsOnlyTruncate`: a limit or a cancellation only cuts the unlimited run short.
* *bytes, value, json*: every string of up to three bytes at the edges of what a byte can
  mean, some longer ones, and values of every schema, under two sets of limits.
  `CanonicalBytes`: one encoding per value; the meter, which counts without encoding, agrees
  with the codec. Widths are scaled: `Direct`, `Step` and `Int64Max` stand for 24, 256 and
  2^63-1, which keeps each boundary between widths.
* *registry*: every registry of three types, each a unit, an empty variant, a reference, a
  list, or a variant or record of one or two references. `RegistryInhabited` compares the
  search with the least fixed point.
* *message*: messages of each kind with each alternative and optional field of its parts, each
  text, byte string and list at its bound and one over, fields lost or added, and values no
  schema has (a number in a schema path, NaN, a lone surrogate); one of four kinds (an action's
  request and outcome, a protocol error, the answer to a close) also with each item lost,
  doubled, exchanged or spelt otherwise on the wire. `MessagesSurvive`: a message is sent
  exactly if it belongs to its schema by a reference of its own (`MCProtocol!Belongs`, without
  a search for literals) - save those with a number in a schema path, which are refused
  (section 5, item 12) - what is sent arrives as it was, -0 as 0, and there is one
  spelling of it. Bounds are scaled: each kind of bound of `protocol.ts` is a constant.
* *edits, transforms*: batches of one to three transformations of a short source, single
  edits and pairs of edits of three statements with comments and blank lines.
  `SimultaneousBatch`: a batch is accepted only if its parts do not touch, is then all of
  them applied to the one source, and stays within its limits. `ProvenanceAccounts`: one
  entry tells of each byte of the original whether it is kept or removed, one of each byte
  of the result what it is, and a diagnostic at a byte of the result is mapped to the byte,
  the fragment or the target that byte came from. `EditsKeepStatements`: the statements of
  an accepted edit are those it was meant to leave.
* *diff*: graphs before and after. `DiffAccountsForNodes`: each node is in one entry.

`compilation_cache` asks for programs over each limit and under it, refused and accepted,
against two contracts that differ in one operation, with views that fit and do not, with
edits of each outcome, and with artifacts that were kept whole or spoilt in a field that is
compared or digested. In each of its 12,274 states each request is answered twice: by the
bridge as it is - with what it has cached, or is compiling for another caller - and by a
new one. `CacheTransparent` says that the two answers are the same, `EditedSourceStands`
that the source an accepted edit returns is accepted by that bridge when it is checked
again, with the check and the views that came with it. Three loads fill a cache of two,
make it evict one, and put one load before and one after a clear.

`CHECK_DEADLOCK FALSE` appears where a connection, a stream, a facade or a finite number
of loads or problems is at its end.

Refinement. `BridgeContract` has one record per call and one per action and eight steps.
`WorkerSession` implements it under the mapping `status <- hostState`, `call <- result`,
`effect <- handler`, checked as the property `ImplementsContract` with faults. In
particular: a handler starts only when the execution's earlier ones settled and no handler
ran for the same request id; an execution reports `cancelled` only if a cancel for it was
accepted or the bridge is closing; `close` is answered last.

## 4. Fairness and what is assumed

* `WorkerSession!Fairness`: bytes written are read and a closed pipe is seen to end (the
  operating system), a sink settles, the engine settles (it is metered: a program runs
  out of fuel) and *the host's handlers settle*. The last is an assumption about the
  host: the process bridge has no deadline for a handler, and without it no execution
  needs to end. Nobody has to call anything, and faults need not happen.
* `Supervisor!Timers`: the timers of `withDeadline` fire, continuations of settled
  promises run, and a connection answers or fails its calls (`Submits`, `CallReturns`) - which is
  `EveryCallAnswered` of `WorkerSession`. A spawn after its deadline need never deliver.
* `Supervisor!SpecTransportCloses` adds that the transport's `close()` resolves. `close()`
  of the supervisor depends on it, its own deadline notwithstanding (section 5, item 9),
  and the run `supervisor` makes the assumption openly.
* `FrameWriter`: the sink settles what it was given. Writers are under no fairness and
  never have to stop, which is the case in which starvation would show.
* `DirectBridge`: the event loop runs its microtasks. The host need not answer anything:
  that `close` resolves all the same is the property.
* `Facade`: the bridge answers what it is asked (`EveryCallAnswered`,
  `CloseNeedsNoHost`), the timers of the store's operations fire. Nothing is assumed of
  hooks, handlers or the store.

One precondition on callers: an invocation id is not used by two executions of a facade at
once (`Facade!IdentifierFree`). `docs/contracts-and-values.md:17` asks that of them; the
facade does not test it - it replaces the first execution's controller by the second's -
and the theorem `CloseAborts` is what rests on it.

## 5. Findings

Two runs check what the documentation says and TLC finds violated; each trace is short
and reads as the scenario.

1. `cancel_during_handler` - the engine ends a cancelled execution without waiting for
   the outcome of its action; the host fails the connection when a result arrives over a
   running handler (`process-bridge.ts:393`). `docs/worker-lifecycle.md:62` has the
   worker return a cancelled result and the host ignore a late handler.
2. `moves` - a move takes the lines of a statement (`semantic-primitives.ts:692`), and
   `ownedRange` (`source-transform.ts:258`) then adds each comment behind it whose gap is
   blank: the comment that leads the *next* statement moves along, and where what follows
   has no newline before it, a statement is commented out. A reorder takes a comment at
   the end of a statement's line both with it and, as leading comment, with the next
   (`semantic-primitives.ts:711-716`): pieces overlap and text is written twice.
   `docs/semantic-editing.md:200` says that reorder and movement carry owned slices.

Met while modelling, without a run of their own. Sessions and processes:

3. `process-bridge.ts:428` tests `!validateWorkerProtocolWelcome(...)`, which returns an
   object with a field `compatible`: no welcome is refused for its content.
   `docs/worker-handshake.md:20` says that the host validates the complete welcome.
4. `DirectRuntimeBridge.close` waits for executions only (`bridge.ts:1249`), so the close
   result may precede the result of a check, and the host, which insists that close is
   last (`process-bridge.ts:402`), fails. `docs/worker-lifecycle.md:68` says that close
   waits for terminal results.
5. `#seenActionRequests` (`process-bridge.ts:455`) is never cleared and request ids are
   made of invocation id and a sequence from zero, so the first action of a later
   execution with the same id fails the connection. `docs/contracts-and-values.md:17`
   promises uniqueness among *active* executions only.
6. `process-bridge.ts:565` - close is a reserved frame and may overtake execute frames
   still queued; the closing worker then fails on them (`server.ts:219`), against
   `docs/worker-lifecycle.md:68`. Likewise a cancel may overtake the execute it is meant
   for, is answered `not_active`, and the execution runs on (`docs/worker-lifecycle.md:64`).
7. `server.ts:198` - a slot is freed after the sink settles the reply. Over a sink that
   settles in a later turn, the host has refilled the slot by then and the worker fails
   its own admission; `server.ts:76` offers the endpoint for any ordered sink.
8. `process-bridge.ts:440` - a closing host starts handlers for action requests that were
   under way; `docs/worker-lifecycle.md:34` says no new actions begin in closing.
9. `process-bridge.ts:772` - past its deadline, `#close` awaits `terminate()`, which awaits
   the transport's `close()` without a bound; `NodeWorkerTransport.close` ends stdin and
   waits for the exit. `docs/worker-lifecycle.md:70` says the worker is terminated.
10. `process-bridge.ts:372` - a worker that dies inside a frame answers its calls with
   `adapter_failure`, not the worker-loss code of `docs/worker-lifecycle.md:74` (as in
   item 17); `:584`
   arms the partial-frame deadline again with each chunk, so a byte now and then keeps a
   frame alive.

Values and messages:

11. `bridge.ts:1163` - the input is measured outside the `try`. `canonicalMetrics` counts a
   byte string as a node per byte, the decoder as one node: an execution whose input has
   more bytes than `maxNodes` rejects, where `contracts/src/index.ts:2537` says methods
   resolve closed result unions (`Interpreter!Run`, outcome `"rejected"`). For the same
   reason bytes and instants are metered at nine bytes a number, against
   `docs/resource-schedule.md:33`.
12. `worker/src/protocol.ts:1039` - a choice is found by literals only, so a number that
   stands where a schema path has a string or a number is decoded by the first
   alternative, which refuses it (`MessagesSurvive` says so); `docs/conformance.md:15`.
13. `gateway.ts:218` cuts a failure detail at 160 UTF-16 units; the wire refuses more than
   160 UTF-8 bytes (`protocol.ts:844`), and `process-bridge.ts:492` then fails the
   connection. `toWire` makes bytes by `Uint8Array.from`, which wraps modulo 256.
   Registries nested deeper than the wire's limit are accepted by `defineSchemaRegistry`.
14. The order of JSON keys is checked only where a schema *is* the JSON type
   (`docs/contracts-and-values.md:49`); length ceilings of the decoder count the bytes
   left before the length itself was read; `-0` is decoded as written and encoded as 0.

Language:

15. `structured-interpreter.ts:318` - negating the least int64 is not checked
   (`docs/language.md:113`); `:533` - `Object.fromEntries` faults on every input
   (`docs/language.md:85`); `record()` refuses a record with a field `kind`; `:706` -
   instants before the epoch with nanoseconds come out negative.

Edits:

16. An insertion after a last line without newline that ends in a comment is commented
   out; two statements on one line are deleted, moved and reordered together; the
   precondition `owned_comments` holds of any indented construct without comments; a
   conflict names one of its two edits (`docs/semantic-editing.md:270`), and a rename
   conflicts with a move or a wrapping of what it renames; the diagnostics that
   `mapDiagnostic` mapped are dropped; changed regions are sorted as strings
   (`semantic-gestures.ts:816`); `LineStart(0)` is 1 in a text that begins with a newline;
   a graph limit hit by the views of an edit is reported as its `work` limit
   (`bridge.ts:1051`); an artifact's `syntaxNodes` is not covered by its digest.

Of the supervisor and the verifier:

17. On a broken protocol `#fail` answers the operations in flight with `adapter_failure`
   (`process-bridge.ts:358-405`, `:614`; `process-bridge.test.ts:919` expects it), while
   `#observe` (`:833`) keeps `worker_lost` for the later ones. `docs/worker-lifecycle.md:74`
   has a fatal protocol violation complete those in flight with the worker-loss error, as
   any other end does. `OneWorker` says what does hold.
18. An array item or object field that is an expression and has a `spread` too is verified as
   the expression (`structured-ir.ts:331`, `:337`), while `structuredActions` (`:579`, `:581`)
   and the interpreter (`structured-interpreter.ts:281`, `:295`) follow `spread`. An action
   there is in the summary, but no slot need grant it and no type is checked:
   `RequestsDeclared` says the first of any program and the second of those the declared
   types permit. The comment at `structured-ir.ts:550` promises both of untrusted IR.

## 6. Proofs

Checked by TLAPS for every value of the constants that satisfies the modules' assumptions,
so for any number of callers, executions, actions and loads, any limits and any length of
a queue, a pipe or a stream. Each invariant below was first checked by TLC, on the
configuration of the module's run. Every safety property and action property of the
passing runs is stated by a theorem, except six of the run `values` (see the end).

An invariant that counts or orders needs facts about data. `SumsProofs` has them:
`PartialSums` is a recursive function, and what it computes is proved by looking at a
least counterexample (`LeastNatural`), which needs no induction rule with an operator
parameter. `FramingProofs` does the same with a pass over the waiting frames and with the
bytes of a chunk, `CompilingBridgeProofs` with the regions of a diff, the events of a batch
of edits and the offsets of a source.

`HandshakeProofs`
* `SelectedLimitsValid`: the minimum of two valid limit records and a valid ceiling is
  valid.
* `TypeCorrect`, `PeersAgree` (`ReadyPeersAgree`), `WithinHello`, `QueuesHoldAFrame`, and
  `LimitsUsable` (`ReadyLimits`), which puts these two together. The inductive invariant is
  `TypeOK /\ Agreed /\ ReadyPeersAgree /\ workerState # "failed"`: `Agreed` says of the
  welcome *in flight* what the theorems say of the ready host - that it is the worker's
  selection, and that this selection is the minimum - since the host learns nothing else
  of the worker. That the worker never fails on its own selection follows from
  `SelectedLimitsValid` and arithmetic about the reserve.

`FramingProofs`
* `WriterTypes`, `WriterAccounts` (`QueueAccounting`), `WriterUsesCapacity`
  (`NoIdleCapacity`), from `WriterInv`. A pass of `#admitWaiting` preserves `Sound` - the
  counter is right, within its bound, no frame is in two places - from each waiting frame
  to the next; that nothing is left behind rests on `CanAdmitMonotone`: a frame that was
  passed over still does not fit when others have been admitted after it. Hence the two
  passes suffice, and `write` need not look at the waiting frames: what it adds only takes
  room away.
* `DecoderFollowsStream` (`FramesMatchStream`), `DecoderDeadline`
  (`DeadlineCoversPartialFrame`), from `DecoderInv`: for some `k`, the frames delivered are
  the first `k` of the stream and, while the connection is open, the decoder's header and
  body counters say how far behind the end of frame `k` the bytes consumed are
  (`Aligned`). One byte preserves that (or stops the decoder), so a chunk does.
* `FramingSafe`: the four together, of the specification the run checks.

`WorkerSessionProofs`, any calls, invocations, limits, faults and sink
* `TypeCorrect`.
* `HandlersOnlyForPending` (`HandlersOfPendingOnly`), `RequestsRunOnce`
  (`NoRepeatedRequest`), from `HandlerInv`. They hold against *any* well-typed frames: the
  guard of a result (no handler running) and of an action (its call pending) close the
  invariant, a failing host leaves the claim's domain, and the request id of each started
  handler is in `#seenActionRequests`.
* `WorksForPending` (`WorkerWorksForPending`), from `SessionInv`, which ties what is on the
  wires to both ends. `OnceInv`: each request, outcome, action and result is under way
  once at most, in the writer's queues or the pipe of its direction. `CallsInv`: a call's
  request is under way, or the call is at work, or its result is under way, never two of
  these; the worker works only for what a standing host waits for; of the executions of
  one invocation one is live. `ActionsInv`: an execution is at its last action, all
  before it have settled, and that one is asked for, performed or answered, in one place.
  `CancelInv`: of each cancelled execution the host knows, or an accepted cancel is ahead
  of its result in the pipe, or a close is pending. None is inductive without the others:
  the host accepts a second execution of an invocation once the first's result is read,
  and only `CallsInv` and `OnceInv` say that nothing of the first is left by then.
* `ContractImplemented` (`ImplementsContract`): under the mapping of section 3 the initial
  states map to `BridgeContract!Init`, and each step maps to a step of the contract or a
  stutter. It uses `SessionInv` (a cancelled result needs an accepted cancel; an action is
  the next of its execution), `HandlerInv` and `CloseInv` (a close that is not answered is
  closing the connection).
* `WorkSurvives` (`SurvivesWork`) has the hypothesis `Plain`, in which each condition is
  needed: no `Faults`; `~DeferredSink`, or a slot is kept until the reply is written
  (section 5, item 7); executions are invocations of their own, or `#seenActionRequests`
  fails the connection (item 5); `MaxInFlight <= MaxPendingReplies`, which follows from
  what `validLimits` demands (`worker-handshake.ts:214`). The invariant `WorkInv` says that
  until a cancel or a close both ends are ready and know the same: each action that the
  host has running is pending at the worker, each that is on the wire was not yet seen, and
  the host's count of data calls bounds the worker's tasks.

`DirectBridgeProofs`, any executions and actions, a queue of any length
* `BridgeTypeOK`, `BridgeAnswers` (`AnsweredIsOver`), `BridgeFacts` (`FactsMatchHost`),
  from `BridgeInv`. It says of each job in the microtask queue what it promises of the
  state (`JobTrue`), and that the queue is `Ordered`: an execution has one job of its own
  progress at most, and the dispatch of an action is ahead of any cancellation of it - so
  that a race is decided by a cancellation only if the handler was called, or by an outcome
  the handler gave. `RecordTrue`: records are requests and resolutions in turn, each
  resolution what the handler said, and only the last request may have none; an answer
  gives `FactsMatchHost` then. `Closing`: nothing is registered after `close`, so what it
  awaits covers what is active.

`FacadeProofs`, any number of executions, gateways, requests, cancels and inquiries
* `TypeCorrect`.
* `Serial` (`SerialDispatch`), from `GatewayInv`: a request at the hook or the handler is
  the one its gateway counts as active, sequence numbers are taken in order, and the calls
  attempted are those that were given one.
* `CloseAborts` (`CloseAbortsInvocations`), from `Owned` - an execution under way is in
  `controllers` under its invocation id - and `OneEach` - no two under way share one.
  `Owned` is why a close, which only sees `controllers`, reaches all of them; it survives
  the `finally` of another execution only because of `OneEach`.
* `HandlersBeforeAbort` (`NoHandlerAfterAbort`), `NothingStarts`
  (`NothingStartsAfterClose`, from the previous one), `SharedLoads`
  (`SharedLoadSurvivesCancel`): action properties, one step per action.

`CompilingBridgeProofs`, any keys, weights and limits, any number of loads and clears
* `ClearForgets` (`NothingOutlivesClear`): with `Fresh` - what is in the cache was loaded
  in this generation.
* `SharedCompilation` (`OneLoadPerKey`): with `Promised` - a load of this generation that
  is not done owns the pending promise of its key, so that there is one.
* `CacheWithinLimits` (`WithinLimits`), from `Kept`: dropping the oldest until both limits
  hold ends, with nothing left at the latest, and takes off the weights of what it drops.
* `CacheTypes`.

There also, of the methods that use the cache, for any requests, facts and edits
* `BridgeUsesCache`: `BridgeSpec => Spec`, a refinement - each step of the methods is a
  step of the cache or a stutter, so the theorems above hold of any bridge.
* `TransparentCache` (`CacheTransparent`), from `BridgeInv`: what is kept or being compiled
  for a key is what compiling *some* admitted request with that key gives, and an entry
  stands under the key of its load. That alone says nothing of the request at hand; two
  lemmas do. `AlikeCompile`: requests with one key compile alike, since the key has
  every field that compiling reads. `ChecksAlike`: a kept artifact, genuine or spoilt, makes
  no difference to the check, which is what the cache gives or compiling gives.
* `EditedSourceAccepted` (`EditedSourceStands`): what an accepted edit returns is admitted,
  compiled and measured as `check` and `inspect` of the same bridge do it.
* Both rest on `RequestsAssumption`: a digest identifies its registry; the edit kernel
  keeps the module of the source; the views of an edit were validated; the artifact a host
  has kept is genuine, or spoilt in one field that is compared or digested. The last is what
  a digest can give: a field it does not cover (`syntaxNodes`) is believed.

There also, of the pure parts of an edit
* `DiffIsTotal` (`DiffAccountsForNodes`), for any two finite graphs, any regions, nested
  or overlapping, any edits. The regions are a recursive function; its least counterexample gives
  that nodes are never claimed twice on the way.
* `BatchIsSimultaneous` (`SimultaneousBatch`), for any source, batch and limits. The code
  sweeps the batch once, in the order of positions, and remembers one removal and one
  insertion; the reference compares all pairs and applies the batch at each offset at once.
  `SweepTrue`: until a conflict is found no two events so far touch, and of the removals
  and insertions so far only those remembered can still touch one to come. `BuildTrue`: what
  has been written is the reference up to the cursor, and the insertions up to the events
  that were taken. `AnswersAre` follows the checks of the limits to the end.
* `ProvenanceIsTotal` (`ProvenanceAccounts`), from `AccountTrue`: the entries so far cover
  the original up to the cursor and all of the output, each byte once. So a diagnostic finds
  the one entry of its first byte, and `EntryLeadsBack`: with the clipping of
  `mapDiagnostic` it is shown where that entry was made from, as far in.
* These two have a hypothesis, `IsBatch`: positions are integers (any: the transformer is
  to refuse what is outside the source), contents are the bytes of a fragment or of a
  rewriting, and `BeginsInLine` - a
  construct that is moved, or deleted with its comments, does not begin with a newline at
  offset 0. The proof needs it: `lineStart(0)` is 1 then (`source-transform.ts:276`), so
  that `ownedRange` begins behind the construct (section 5, item 16). No syntax node begins
  with a newline, and the kernel moves and deletes nodes and their lines only. Every batch
  of the run `values` satisfies it.

`SupervisorProofs`
* `TypeCorrect`; `SingleWorker` (`OneWorker`), from `SupervisorInv`. `StartsOnce`: a start
  leaves a trace - a failure, a connection, a close, or itself still going on - and each rules
  out another. `Told`: an operation that reached the connection stays with it or outlives
  it, and one told of its end finds the facade through with it (`Through`).
  `ConnectionKept`: a facade with a connection has not failed.

The assumptions are those the modules name (`ChannelAssumption`, `WriterAssumption`, ...):
types of the constants, and that a marker such as `NoWrite` is none of the values it is
told from. `IdentifierFree` of section 4 is a guard of the model.

Only model-checked:
* liveness - `AdmittedSettles`, `EveryCallAnswered`, `FailedWorkerDrains`,
  `EveryCallReturns`, `CloseReleasesWorker`, `CloseNeedsNoHost`, `CloseResolves` - which
  needs fairness and `ENABLED`, beyond the prover;
* of `values`, `RequestsDeclared`, `LimitsOnlyTruncate`, `CanonicalBytes`,
  `RegistryInhabited` and `MessagesSurvive`, which compare recursive definitions over trees: their
  modules declare `RECURSIVE` operators, with which the prover has no arithmetic;
* of `values`, `EditsKeepStatements`, which is true of sources laid out in lines, not of any
  graph over any text (section 5, items 2 and 16).

## 7. Not modelled

* The TypeScript compiler and `structured-compiler.ts`, a translation over syntax trees
  whose reference definition would be itself: `CheckPipeline` takes what a source compiles
  to as given, `StructuredIR` verifies what comes out.
* The graph builder (`semantic-graph.ts` beyond its limits), the scanning of brackets
  around anchors, the printing of inserted fragments and the normalisation of gestures to
  primitive edits: they read syntax trees. `SemanticEdits` starts from a graph and from
  what a fragment prints as.
* Identifiers' syntax, digests, UTF-8: a text is a member of a small set, a digest the
  value it stands for. Floating point and calendar arithmetic in `Intrinsics`.
* The checks that the texts and versions of a hello's identity are well formed (`worker-handshake.ts:279-286`);
  no property depends on them.
* stderr capture, message-id exhaustion (2^53), launching and identifying the child, the
  duration of deadlines, `protocol.error` replies (this host's payloads decode).
* SDK declarations, the scripted test host, the command line, the conformance suite.

## 8. Plan

1. A contract that `Supervisor` and `Facade` implement too. It cannot be `BridgeContract`
   as it is, which `DirectBridge` does not implement either: an answered execution may leave
   a handler that it gave up running, and an execution may end `cancelled` without a cancel,
   when the gateway says that the action was.
2. The integers of the canonical codec as recursive functions, as those of
   `SourceTransform` are, so that the arguments of section 6 apply to widths.
3. A `FrameDecoder` with time, for item 10 of section 5; the normalisation of gestures
   over a graph with shapes.

The number of runs is kept at a dozen and the properties at some forty: a new module takes the
place of a violated property that is then only described here, or shares a run by
composition.

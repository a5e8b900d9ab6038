# Verification of ds4-rs

`ds4-rs` is a Rust port of an inference engine: it opens a GGUF model, keeps an
inference *session* (token sequence, attention cache, logits), and serves it
over four HTTP APIs (chat completions, completions, responses, messages) with a visible KV
cache, a continuation store and exact tool replay. This directory holds TLA+
specifications of its stateful core, the TLC configurations that check them on
small instances, and TLAPS proofs for every instance.

## Inventory of the system

| part | state | operations | interacts with | what makes it correct |
|---|---|---|---|---|
| `session.rs` | `ctx_size`, `checkpoint`, `logits`, `prefill_boundary`, `transformer_kv` | create, prefill/sync, decode_next/eval, rewind, invalidate, save/load_snapshot, generate_argmax_tokens | engine (forward pass), server, CLI | logits are a function of the tokens; the cache holds the rows of the tokens and no other; the tokens stay below the context limit |
| `engine/`, `kernels/` (CPU) | model, weights (immutable), the session's KV cache | try_reference_decode_next, try_reference_prefill, infer_logits | session | a forward pass pushes one row per layer, or fails as a function of the token |
| `kv.rs` `KvCache`, `KvDiskStore` | in-memory map, `*.kv` files | store, load, load_rendered_text, find_tool_replay, has_candidate | server | what was stored can be read back, after a restart too; a damaged file harms only itself |
| `continuation.rs` | three alias maps | remember, restore | server | an alias leads to the latest entry remembered under it |
| `server.rs` | one session, KV cache and continuation store, each behind a mutex | one handler per API, all through `handle_api` | all of the above | a request continues its own conversation, whatever runs beside it; every request is answered |
| `protocol/`, `server/tools.rs`, `server/reply.rs` | none | parse the bodies of four APIs, plan a tool call, render JSON and event streams, the DSML replay block | server | the same conversation gives the same envelope through every API; a stream tells what the JSON answer tells; the replay block says what the call said |
| `kernels/metal/` | a graph of GPU tensors behind the engine's mutex, a command buffer | try_reference_decode_next, execute_decode_step, Drop | engine | a kernel reads what this step wrote; a failing step leaves no command buffer open; every tensor is freed once |
| `tokenizer.rs` | vocabulary and merges (immutable) | tokenize_text, tokenize_rendered_chat, render_chat_prompt, decode_tokens | server, CLI | pieces cut between characters; decoding gives the text back; control tokens come from the template |
| `gguf.rs`, `weights.rs`, `Engine::open` | none after load | load_model, bind_weights, open | engine | the cursor and every tensor stay in the file whatever the file claims |
| `kernels/matmul.rs` | output buffers, scoped threads | matvec and matmul over rows, sequential and parallel | attention, ffn | the chunks partition the rows; a Some is complete |
| `kernels/ffn.rs`, `hc.rs`, `quant.rs`, `norm.rs`, `activation.rs` | scratch | arithmetic | attention | numeric |
| `bin/` | REPL history | flags, REPL | session, server | |

### Behaviours that are hard to test

* **A forward pass that fails half way.** Every session operation has a
  fallback (`rebuild_prompt_state`, `rehydrate_live_state`,
  `append_token_with_reference_fallback`), each treats the attention cache and
  the logits differently, and a failing token in the middle of a prompt is not
  reported at all. What the next decode attends to depends on the history.
* **A limit that changes under the state it bounds.** `load_snapshot` replaces
  `ctx_size` together with the tokens.
* **Writes that stop.** `fs::write` replaces a file in place. A full disk or a
  crash leaves a prefix of the new file and nothing of the old one, and the
  reader decides section by section what it still accepts.
* **Interleaved handlers.** Each request takes three mutexes in five places.
  The continuation is read before the session is locked, and the KV and
  continuation mutexes are taken again under the session's.
* **Restarts.** The continuation store and the map of the KV cache vanish; the
  files stay, named after the text and not after the key.
* **Identifiers from a clock.** A response id is a millisecond.
* **A panic with a mutex held.** It poisons the mutex; the requests that wait
  for it must be answered and must not use what it left.
* **Scratch tensors that outlive a step** in the Metal graph, two of which swap
  places after every layer, failed or not, with early returns on any failing
  kernel and a command buffer that must be closed on each of them.
* **Sizes claimed by a file**, up to `u64::MAX`, in loops, sums and products.
* **Three parsers and seven event scripts written apart** that have to agree.
* **Rows over threads**: chunks of `div_ceil`, one of which may fail while the
  others run, into a buffer that is reused.

PROJECT.json lists each of these at its line, with the properties that cover it.

## Plan

| order | module | what | composed of | state |
|---|---|---|---|---|
| 1 | `TokenSession`, `Session`, `SessionProofs` | what a session promises, the session and its engine | `TokenSession` | done; safety and refinement proved |
| 2 | `KvCache`, `KvCacheProofs` | map, files, torn writes, restarts | | done |
| 3 | `Continuation`, `ContinuationProofs` | the alias maps | | done |
| 4 | `Server`, `ServerProofs` | concurrent handlers, panics, restarts | `KvCache`, `Continuation` | done; safety proved |
| 5 | `MetalGraph`, `MetalGraphProofs` | the graph's mutex, the command buffer, kernels and operands, the swap, `Drop` | | done; safety proved |
| 6 | `Protocol` | parsers, tool planning, rendering, streams | | modelled |
| 7 | `Loader`, `LoaderProofs` | GGUF cursor, tensor ranges, binding, mapping | | done, proved |
| 8 | `Tokenizer`, `TokenizerProofs` | scan, pre-tokenizer, merges, decoder | | done, proved |
| 9 | `RowProduct`, `MatmulRows`, `MatmulRowsProofs` | the product a caller is promised, and its implementation by scoped threads | `RowProduct` | done; safety and refinement proved |

The order follows the weight of the behaviour: everything a reply depends on is
in the session, everything a client can observe across requests and restarts is
in 2 to 4, and the rest is sequential or confined to one call.

## Modules and the code

`PROJECT.json` maps every definition to its source lines. Definitions marked
*Mutant* model no code; each is a plausible bug of the definition that follows
it and shows that a property can fail.

### Session (`src/src/session.rs`, `engine/inference.rs`, `engine/reference.rs`)

One variable per field of `Session`, plus `saved` (the snapshots callers hold)
and `gen` (a `generate_argmax_tokens` call in progress). Every operation takes
`&mut self`, so it is one atomic action; the generate loop is one action per
turn, which is what a caller sees when it stops on an error. The actions are
`Create`, `SetPrefillBoundary`, `Prefill` (and `sync`), `DecodeNext` (and
`eval`), `Rewind`, `Invalidate`, `SaveSnapshot`, `LoadSnapshot` (DSV4 payloads),
`LoadRaw` (anything else), `GenerateBegin`, `GenerateStep`, `GenerateErr`.
`DropSnapshot` is the caller forgetting one.

Abstractions:

* A logit vector is represented by what it was computed from: the zeros of a
  reset, the 256 zeros of `create`, what `infer_logits` gives for a token, the stub
  hash of a token sequence, or the attention rows the reference pass saw. Two equal
  provenances are equal vectors; the argmax is any token.
* The cache is the sequence of decode attempts since it was last cleared, and
  `LayerRows` says which layers hold a row of each. On the CPU a pass fails as
  a function of the token (an id outside the embedding or the hash table), so
  the engine is three constants: `Decodable` and `RowsPushed` for a pass over the
  session's cache, and `Inferable` for `infer_logits`, which makes a cache of 61
  layers of its own. The session's has one layer per bound block: where a block was
  skipped, the index of a later one is past it and no token decodes, while
  `infer_logits` still does. Otherwise the two decode the same tokens, a model having
  at most 61 blocks.
* The header's `layer_count` is ignored by the code's loader and is left out.
  Casts to `u32` are taken to be in range.
* `try_prefill_logits_from_blocks` (layer-major prefill) has no caller and is
  not modelled. The Metal backend does not use the session's cache; this module
  is the CPU path.

`TokenSession` is what the session promises: tokens, a limit, the logits of a fresh
prefill of the tokens, and snapshots of the three. It has no cache, no boundary, no
paths and no generate loop. `Promise` maps the session to it: the
checkpoint is the tokens, and the logits are those the tokens determine, which are
none in particular where the engine decodes some of the tokens and not others
(`session_mixed` shows that there they depend on the history). An `Invalidate` is a
rewind to 0, a turn of the generate loop a decode; `SetPrefillBoundary`,
`GenerateBegin`, `GenerateErr` and dropping one of two snapshots that look alike do
not show.

### KvCache (`src/src/kv.rs`)

`by_key` is the map, `disk` the directory; both are functions whose domain is
what is present. `ret`, `stored`, `written`, `mine` and `latest` are history.
A file is the entry it was written from and the last section of the format that
reached the disk, so the readers (`LoadKvcEntry`, `LoadLegacyEntry`,
`ToolMapReads`, `HeaderReason`) are modelled by which cuts they accept and by
what they return for them, which is not what was stored: the tokens are the
snapshot's and the reason may have fallen back to the header's byte. `Store`
writes the file and then the map; `StoreErr` is a write that returns an error,
`StoreCrash` one that ends the process. `Load` caches what it read under the
text. `find_tool_replay` reads the directory and the map in no fixed order, so
its result is a set of possible results. SHA-1 is taken to be injective.
A legacy DS4K file is placed where the reader looks for it.

### Continuation (`src/src/continuation.rs`)

Three partial functions, `Remember` as the only action, `Restore` as an
operator of the three references. `log` is history. `last_used_ms` is written
by `restore` and read by nothing, so it is left out and `Restore` changes no
state. `FreshIds` says that no response id was remembered twice so far: the
store does not prevent it, and the server's ids are milliseconds.

### Server (`src/src/server.rs`, `protocol/render.rs`)

`Server` instantiates `KvCache` and `Continuation` on its own variables and
calls their operators under its mutexes; their history variables are fixed.
A request is a thread that walks through `handle_api`:

| stage | mutex | action | code |
|---|---|---|---|
| `hydrate` → `hydrating` | kv | `Hydrate` | `hydrate_tool_replay`, only with tool results |
| `restore` → `restoring` | continuations | `Restore` | `continuations.lock()…restore(…)`, guard dropped at the end of the statement |
| `session` → `loading` | session, held to the end | `LoadContinuation` | `load_snapshot` |
| `plan` | session | `ShortCircuit`, `Gate`, `SyncErr`, `Sync` | the tool-planning branch, the 503 gate, `sync` |
| `generate` | session | `Generate`, `GenerateErr` | the decode loop, buffered or streamed |
| `store` → `storing` | session, kv | `Store`, `StoreErr` | `store_visible_kv_entry` |
| `remember` → `remembering` | session, continuations | `Remember` | `remember_continuation`, then the response |

`Acquire` takes the mutex a stage begins with, and `LockErr` answers 500 where
it is poisoned. `Answer` drops every guard the request holds. `Panic` is a panic
of a forward pass with the session's mutex held: in `load_snapshot`, which has already
replaced tokens, limit and logits when it rehydrates the cache, for a request that will
only plan a tool call too; in `sync`; or in the decode loop. The guards unwind, the
session's mutex stays poisoned and the session half changed. `Restart` clears
everything but the files and loses the requests under way.

Abstractions: the session is its checkpoint, which `SessionProofs` justifies
(the logits are a function of it on the engines the gate lets through). A
prompt is a sequence of lines and rendering is injective, except for what
`rewrite_prompt_with_tool_replay` does, which is modelled line by line
(`Rewrite`). The generated tokens are one symbol repeated; how many fit is
modelled. The branch of `preview_or_model_reply` for an engine without a model
is behind the 503 gate and unreachable. The server never calls `KvCache::load`.
`trusted` is what `has_real_model` and `supports_trustworthy_generation` say at
a start of the process.

### MetalGraph (`src/src/kernels/metal/`, `engine/inference.rs`)

The variables are the engine's `metal_graph` mutex, the graph's life
(`graph`), which tensor each of the three residual-stream fields points to
(`hc`), what every tensor holds (`tensor`), whether a command buffer is open
(`batch`), and the place of the thread that holds the mutex (`pc`, `il`, `k`,
`ok`). A tensor holds a stamp: the decode step and the layer that wrote it. The
kernels of a layer (`LayerKernels`) and of the head (`HeadKernels`) are listed
in the order of the code with the fields they write and read and the optional
weights they unwrap; a kernel writes its outputs or returns 0, which covers
operands that `MetalGraph::new` leaves null. The raw caches of the layers, which the
attention reads, are one tensor here (`CacheFields`): no kernel writes any of them. A
missing weight, or a layer
past the last bound block, is a panic, which poisons the mutex. The branches
that constants switch off in `decode.rs` (compressed attention and its indexer,
`keep_ffn_out`, the unfused kernels) are left out. The layer count, 61 in the
code, is a constant; the model uses 3, odd as in the code.

### Protocol (`src/src/protocol/`, `server/tools.rs`, `server/reply.rs`)

A behaviour is one request: `Parse`, then `PlanTool`, `Gate` or `Generate`,
then a client that reads the stream event by event (`ReadNext`). A body is a
sequence of items (messages, calls, results, reasoning) that each API lays out
in its own way; `ChatItem`, `ResponsesItem` and `MessagesItem` are the bodies of
the three loops and `FromHttp` the fallbacks around them. What they read differently is
in the helpers: an array of parts is nothing to two of the parsers (`TextOf`), the
arguments of a call are a string or an object that is printed again (`ArgsOf`), the
schema of a chat's tool is not found (`ExtractTools`), and the raw body of any API looks
as if it had tool results when `"role":"tool"` or `"tool_call_id"` stands anywhere in it
(`RawHasResults`, `marked`). A text is a sequence
of words and of the characters that some conversion treats specially (quote,
backslash, newline, comma, a control character, `</parameter>`), so that
escaping and parsing back (`JsonEscape`, `ParseString`, `ParseObject`,
`EscapeDsmlText`) are modelled by what they do. An event is its kind and what a
client takes from it. The client (`ReadEvent`) is external.

### Loader (`src/src/gguf.rs`, `weights.rs`, `engine.rs`)

The state of the reader (`pos`, counts left, open arrays) and what it has
built. The file is what the reads find: each read takes any of the values of
the constants, within the bounds the reader checks. Lengths are in units of four
bytes and `u64` is `0..MaxU`, so every sum, product and alignment is near its
limit in some behaviour. `Elements` is the loop over the dimensions, a recursive
function of `Times`, its body. `Layout` computes the tensor ranges. `Bind` looks
up the required tensors and the block indexes (`todo`), each turn of the loop of
`bind_blocks` is a `BindBlock`, and `OpenMetal` maps the range for the GPU,
where the unchecked subtraction wraps or panics as the build does. Decoding of
values is left out.

### Tokenizer (`src/src/tokenizer.rs`)

Texts are sequences of bytes. `ScanChar` and `ScanSpecial` look for control
tokens in a rendered chat, `StartSegment` and `TakePiece` are the
pre-tokenizer, `Merge` and `Emit` the byte-pair loop, `Decode` the way back.
`PieceEnd` follows the order of the branches of `joyai_pieces`; the character
classes are sets of bytes. The spellings of the control tokens are UTF-8 too, since a
rendered chat is searched for them byte by byte. `Utf8Text` is what a `str` is: every
character is as long as its first byte says and is how its code point is written.
`LastEnds`, `Stripped` and `Template` are the reference the encoders are compared with:
where the control tokens of a rendered text end when it is read from the left, what is
said outside them, and which control tokens the input asks for. `MergesMakeNoControl` is
a condition of the properties and not an assumption, since `from_gguf` takes whatever
merges the file has. The tokenizer is
sequential; the steps are the turns of its loops.

### MatmulRows (`src/src/kernels/matmul.rs`)

The matrix products of the file have one shape: split, compute, join in
order, return. They differ in where a thread puts its results, which is the
`kind` of a call, and in the number of tensors, which are read in step. The map
points each definition at one of the functions that have that step. A value is
the call, token and row it was computed from; a row past the tensor's bytes
gives `None`. `RowProduct` is the abstract specification: a call returns, in one
step, what the plain loop over tokens and rows computes, or `None`. `Loop`
instantiates it with a refinement mapping under which a failed chunk is not yet
an answer, and `ImplementsLoop` says that the threads implement it, that every
call returns included; `SomeIsComplete` is the part of it a reader looks for
first.

## Runs

Passing runs, with the number of distinct states:

| run | instance | checks |
|---|---|---|
| `session` | 3 tokens of which one fails after the first of 2 layers, contexts of 2 and 4, all prompts up to 3 tokens, 1 snapshot, 3 raw payloads | `CheckpointWithinCtx`, `NoForeignRows`, `HistoryIndependent`, `CacheCoversCheckpoint`, `OutputIsCheckpointSuffix`, `GenerateTerminates`, `ImplementsPromise` |
| `kv_cache` (92 thousand) | 3 strings, 3 entries (one with a tool block, one whose snapshot outran its tokens), every cut, one legacy file, 3 stores | `NoTornEntry`, `ReadYourWrites`, `DurableUntilOverwritten`, `ErrMeansDamage`, `ReplayAnswersOwnId` |
| `continuation` | 3 ids that may be reused, 2 conversations, 2 tool calls, 3 calls | `AliasesResolve`, `RestoreIsLatest` (while no id was reused) |
| `server` (129 thousand) | 6 requests: a tool call, its follow-up, two streamed turns of a conversation, a client that continues the tool call by id, a prompt longer than the context; failing writes, panics in a load, a sync and a generation, trusted and untrusted engines; 2 starts | `ReplyIsOwn`, `SnapshotIsOwn`, `ContinuesItsAnswer`, `ErrorsAreForgotten`, `FollowUpHydrated`, `BrokenSessionIsLeft`, `EveryRequestAnswered` |
| `metal` (78 thousand) | 2 threads, 2 steps, 3 layers, 7 sets of weights, complete and not; any kernel may fail | `OperandsFresh`, `BatchClosedWhenFree`, `EveryCallEnds` |
| `protocol` (51 thousand) | conversations of up to 3 items through 4 APIs, with and without tools, texts as strings and as parts, plus bodies for each fallback | `EnvelopeFollowsConversation`, `ApisAgree`, `ToolServesIntent`, `ReplayArgsFaithful`, `StreamMatchesJson` |
| `loader` (62 thousand) | integers to 63, files of up to 48 units, 12 kinds of directory entry, among them overflowing sizes, wrapping offsets and unknown types | `TypeOK`, `BytesCoverDims`, `TensorsInFile`, `BlocksAreComplete`, `EveryTurnReads` |
| `tokenizer` (79 thousand) | texts of up to 4 characters of 10 classes, rendered chats, prompts in 3 think modes, 29 tokens, 4 merges | `PiecesCutCharacters`, `DecodeGivesText`, `ControlsFromTemplate`, `RanksAscend` |
| `matmul_rows` (49 thousand) | 2 calls on one buffer, up to 7 rows in up to 4 chunks, 1 or 2 tokens, tensors that end early | `SomeIsComplete`, `ImplementsLoop` |

Runs that are expected to find a violation; each states a sentence of the
repository's docs, comments or tests:

| run | what TLC shows |
|---|---|
| `session_mixed` | When the last token of a prompt fails, the rebuild drops the cache and keeps the tokens. The next token that decodes attends to none of them, while a fresh session attends to all. |
| `server_replay_restart` | The file of a generated reply counts the prompt's tokens beside a snapshot of prompt and reply, and its own reader refuses it. After a restart the scan for a tool block meets such a file, and the follow-up is answered 500. |
| `metal_drop` | `batch_cur_hc` and `after_ffn_hc` swap after every layer while `batch_next_hc` keeps its own copy of the pointer. After an odd number of layers two of the fields that `Drop` frees are one tensor: it is freed twice and the other never. |

### Conditions of the properties that hold

They are where the code's guarantees end:

* `load_snapshot` of a payload that is not DSV4 does not compare its length with
  the context limit, so `ContextLimitHolds` assumes payloads that fit (`RawFits`).
* A file is found under its rendered text and not under the key it was stored
  with, so `DurableUntilOverwritten` speaks of texts and `ReadYourWrites` of the
  process that stored. Two tool calls stored under one text share a file, and
  the block of the first is then gone after a restart.
* Response ids are milliseconds: with two responses in one (`MinGap = 0`)
  `ContinuesItsAnswer` fails. A streamed chat sends one id and remembers
  another, so it can be continued by conversation and not by id.
* `OperandsFresh` excludes steps in which `end_commands` or `synchronize`
  reported an error, which `execute_decode_step` does not look at. As the graph
  is built now, `MetalGraph::new` leaves operands null and the first layer
  returns 0, which every property allows for.
* `OperandsFresh` excludes the raw caches as well. The attention of a layer reads one
  (decode.rs:855), and no kernel stores a row in it: where a comment says "The decode
  fusion starts after that, where FP8 KV quantization and raw-cache storage can share
  one pass" (decode.rs:403-405) there is no kernel, so the attention sees the cache as
  it was allocated, whatever was decoded before.
* `ErrMeansDamage` counts a file whose token count and snapshot disagree as damaged,
  although the server writes such files; what that does to a client is
  `server_replay_restart`.
* `RestoreIsLatest` asks with one reference. With several, `restore` looks at the first
  only, and an unknown one hides the others.
* `ApisAgree` compares what all three parsers read: texts that are strings, arguments
  without white space, tools by name. What they read differently is in the model, and
  two of the repository's tests say otherwise. The schema of a chat's tool stands inside
  its `function`, where `extract_tools` does not look (parse.rs:374), and
  protocol/tests.rs:94 asserts that its first property is found. The content of a chat
  or Responses message that is an array of parts is read as nothing (parse.rs:125, 206),
  and protocol/tests.rs:15 and 41 assert that the prompt has its text.
* `EnvelopeFollowsConversation` lets a body that looks as if it had tool results
  (parse.rs:53) have them.
* `BytesCoverDims` and `TensorsInFile` are about tensors with bytes. A size that overflows, or a type
  that is not in the table, counts as 0 bytes and skips the check against the
  file's end; with no tensor that has bytes, `tensor_data_pos` may lie past the
  end and the mapped length underflows.
* `BlocksAreComplete` is about the blocks that were kept: one without attention
  tensors is skipped without an error, and the engine may call itself trustworthy.
* `ControlsFromTemplate` excludes a user's or system text that is exactly the spelling
  of a control token, and `DecodeGivesText` one that holds the characters of a token in
  which they stand for other bytes (tokenizer.rs:179 compares before encoding), and
  bytes without a token, which are lost. Both are about merges that make no control
  token: nothing checks it, and with one that does, a user's text can produce it.
* `ReplayArgsFaithful` excludes control characters, which `json_escape` writes
  as `\u00XX` and `parse_json_string_at` does not read back.
* `ToolServesIntent` excludes texts with a line that opens with `User: `, which
  `latest_user_text` takes for a message. Completions drop a planned tool call.
* `StreamMatchesJson` is about the events that `to_sse` writes. The server sends
  them, for anything but a live chat, as the data of a single event
  (server.rs:243, 334), so a client has to take them apart itself.

### Bounds

* `MaxSaved`, `MaxGen` (`session`): one snapshot suffices to save under one
  context and load under another, and `DropSnapshot` lets it be replaced; two
  generated tokens are one more than the loop needs for a partial result. A
  context of 4 holds three tokens, enough for a failing token to have neighbours
  on both sides. The proofs remove these bounds.
* `MaxStores` (`kv_cache`): three stores are a first entry, a torn overwrite,
  and a third that repairs or confuses it. Every cut is tried in each.
* `MaxRemembers` (`continuation`): three is the least number with an entry of
  another conversation between two of the same. The proofs remove it.
* `MaxBoots` (`server`): one restart; a second would start from the same kind
  of state, files and nothing else. `ServerProofs` holds for any number, and for
  any requests.
* `Budget = 1`, `CtxSize = 4`: one generated token distinguishes the prompt
  from the prompt and its reply, and the prompts reach the limit.
* `MinGap = 1` says that two responses are not made in one millisecond.
* `MaxSteps` (`metal`): two steps are one that breaks off and one that could
  read what it left; three layers are the least odd number with a middle.
  `MetalGraphProofs` has no bound.
* `MaxU`, `MaxDepth`, `MaxDims` (`loader`): 63 exceeds every file of the
  instance, as `u64::MAX` does; two levels of arrays and of dimensions have a
  nesting and a product. `LoaderProofs` has no bound.
* `ChunkLen = 3` (`protocol`): texts are shorter, as long and longer.
* `MaxCalls`, `Threshold`, `MinRows` (`matmul_rows`): a second call finds the
  buffer of the first, longer or shorter; 7 rows in chunks of 2 leave a short
  last chunk. `MatmulRowsProofs` has no bound.

Deadlock is checked in `session`, `kv_cache` and `server_replay_restart`.
`loader`, `tokenizer` and `protocol` are sequential and end; `continuation`,
`metal` and `matmul_rows` stop at the bound on calls; there, and in `server`,
threads that wait for each other violate the liveness property, which has the
clearer counterexample.

### Fairness

* `WF_vars(Generate)` in `Session`: `generate_argmax_tokens` is a loop without
  a wait or a lock, so a call that has begun takes its next turn.
* `WF_vars(Handle(p))` for every request in `Server`: each request has a thread
  of its own and `handle_api` awaits nothing but mutexes. Mutexes are not
  assumed to be fair: a behaviour has finitely many requests, each of which
  releases what it holds, so a waiting one is eventually the only one.
* `MetalGraph`: weak fairness of the steps of the thread that holds the mutex,
  which waits for nothing but the GPU, and strong fairness of `Lock(c)`: a
  mutex that is released again and again is not withheld from a waiting thread
  for ever. Calls are bounded, so the second only says that it is handed over.
* `MatmulRows`: weak fairness of the caller and of the threads of its scope,
  which the operating system schedules.
* `Arrive` and `Restart` are not fair: clients need not send, and nothing need
  crash.

## Proofs

`SessionProofs` proves, for every engine (tokens, decodable tokens, layers),
every set of context sizes, prompts and payloads and every bound, that
`Spec => []` of `TypeOK`, `NoForeignRows`, `CacheCoversCheckpoint`,
`HistoryIndependent`, `OutputIsCheckpointSuffix` and, under the assumption that
the raw payloads fit every context (the code does not check it),
`CheckpointWithinCtx`. The other assumptions are `EngineAssumption` (a token that
decodes has pushed a row in every layer, and the session's cache decodes no token or
those that `infer_logits` does) and `CallerAssumption` (types).

The inductive invariant is `IInv`: `TypeOK`, the live state is good, each
saved snapshot is good, a running generate call is well formed, and its output
is a suffix of the checkpoint. *Good* says that the cache holds the rows of a
suffix of the checkpoint, that it holds all of them while every token decodes,
and that the logits are those of a fresh prefill if the tokens are uniform.
None of the three is inductive alone: that the logits are fresh after
`ExtendLiveSuffix` needs the whole cache before it; that the cache is whole
needs that no foreign row is in it; and after a load the logits may come from
the snapshot, so the same must have been kept for every snapshot. The suffix, and
not the prefix or all tokens, is what the fallback really leaves: it clears the
rows and keeps the tokens. The step is one lemma per helper (`RebuildGood`,
`ExtendedGood`, `AppendGood`, `RehydrateGood`, `PrefillGood`) and one case per action. The
context limit has an invariant of its own with the same bound on snapshots,
since a load replaces limit and tokens together.

The same module proves the refinement, `Spec => ImplementsPromise`: whatever path an
operation takes, it does what the operation of `TokenSession` does. `LiveHolds` is the
heart of it: a good state that is assigned to the session's fields is, through the
mapping, the tokens it was made for and their fresh logits. The steps then only have to
name the tokens of each path, which for `Prefill` is the prompt on all four.

`ContinuationProofs` proves that no alias dangles, and that with fresh ids
`restore` returns the newest entry under a conversation or a tool call, for any
number of calls. The invariant adds to the types that the log is kept (each
entry of the log is still what `by_id` holds, which is where freshness is used)
and that each alias names the last entry of the log under it.

`KvCacheProofs` proves all five properties of the `kv_cache` run for every set
of keys, texts, entries and legacy files, every number of stores and every place
where a write stops. The assumption is that entries are typed
(`EntriesAssumption`). The invariant says that what this process stored is in the
map, that the last whole store of a text is its file, that each file is a
prefix of something stored or a legacy file, and that each entry of the map is
whole. `NoTornEntry` alone is not inductive, because a lookup brings entries from
the disk into the map: it needs the files, and a lemma on the reader
(`DiskServesWhole`: whichever prefix it is given, it returns the stored entry or
an error). What the last lookup answered (`AnswerOK`) is a second invariant on
top of the first.

`MetalGraphProofs` proves two things for every number of layers, threads and
steps and all weights, whichever kernel fails or panics. The first is that no
command buffer is open when the mutex is free or a step begins. The invariant
adds that a thread inside a step holds the mutex, and that the buffer is closed
again when a step returns; after a panic it stays open, behind a poisoned mutex.
The second is `OperandsFresh`: no kernel reads what an earlier layer, step or
caller left, other than the raw cache of its layer, which no kernel writes. Its invariant (`Fresh`) says that the two fields of the residual
stream point to different tensors, that before kernel `k` the stream holds layer
`il` and every field written by a kernel before `k` holds layer `il + 1`, and the
same for the head. That the swap keeps the stream where the next layer reads it
is the step `EndLayerKeepsFresh`. What remains is a fact of the two kernel lists
alone (`LayerOrdered`, `HeadOrdered`): every field a kernel reads is the stream, is
written by a kernel before it, or is the raw cache.

`ServerProofs` proves the six safety properties of the `server` run for every set
of requests, context size, budget and number of restarts, and any interleaving
at the mutexes. `ReplyIsOwn`, `SnapshotIsOwn` and `BrokenSessionIsLeft` hold for
every clock, from `CoreInv`: a stage that uses what a mutex guards holds it,
nobody is inside a poisoned session, the session and the envelope of the request
that holds it are its own (`SessionIsOwn`), answers are final, and what is
remembered belongs to an answered request. `SnapshotIsOwn` alone is not
inductive: the snapshot is taken stages after the prompt was consumed, so what
the session holds at each stage between has to be stated. `ErrorsAreForgotten`,
`FollowUpHydrated` and `ContinuesItsAnswer` assume `MinGap = 1`, no two envelopes
in one millisecond, which is where they end (see above). `FreshInv` then adds
that ids tell responses apart, that the block of an answered tool call is in
the cache under its id, and that an answered request is found under its id and
its aliases; each alias names a response at least as new. The assumptions on
the requests are `BodyAssumption` (types, and that a reference has something to
refer to) and `ReferenceAssumption`: clients refer to what they were given, tool
results are those of a tool call, and the id of a streamed chat, which is never
remembered, is not quoted.

`MatmulRowsProofs` proves that a product which returns `Some` has every entry
computed by this call, and that the threads implement `RowProduct`: every step
is a step of the plain loop or a stutter. It holds for all numbers of rows, tokens
and threads, every threshold, tensors of any length and every schedule. The
invariant (`RowsInv`) says that the rows are cut into chunks, that each entry a
thread has computed is at the place its kind of call gives it, that a chunk once
joined is complete and in the buffer for every token, and that a thread fails only
for a row that is not there. The argument is integer division: the chunks cover the
rows and no two overlap (`ChunksCover`, `DivisionIsUnique`), and the place of an
entry in the buffer determines its token and row (`EntryPlace`, `PlaceEntry`), so
that no copy overwrites another's entry, the short last chunk included.

`LoaderProofs` proves all five properties of the `loader` run for every file,
that is for every value of its sizes, lengths, counts, dimensions, offsets and
types and every `MaxU`. `LoaderAssumption` gives the types of what is read, that the
block sizes of the type table are positive, and that a file's length plus an
alignment, which is a `u32`, stays in `u64`. The invariant joins the state of the
reader (`Read`: the cursor is in the file, the tensors read and those left are no
more than the header claims), `BytesCoverDims`, `TensorsInFile` and what
`bind_blocks` has collected from the indexes it went through (`Collected`).
`BytesCoverDims` compares what the code computes in `u64` with the exact product
of the dimensions: `ElementsExact` shows that the count is exact or refused,
dimension by dimension, and `BlocksCover` that rounding up to whole blocks leaves
room. This induction over the dimensions is an argument by the least place where
the claim fails (`LeastElement`), and the existence of the recursive functions is
proved the same way (`RecursionExists`).

`TokenizerProofs` proves the four properties of the `tokenizer` run for every
text and vocabulary. `TokenizerAssumption` is what Rust and `from_gguf` give: texts
are UTF-8, the control tokens are in the vocabulary, none of them is a single
character, and what `ThinkMode::Max` says first is ASCII and no control token.
`PiecesCutCharacters` rests on `PiecesInv`: the scan and
the start of the open span are between characters, every segment is a whole text or a
control token, and a text has been cut up to the end of a character. The argument
goes through the branches of `joyai_pieces` (`PieceFacts`): a run of ASCII bytes ends
after a whole character, a run of letters and bytes above 127 only at an ASCII byte
or the end, and the rest is taken character by character. What a scan leaves is a
text again because a slice between two ends of characters is one (`SliceIsText`), and
because the text goes on with a new character after the spelling of a control token
(`AfterSpelling`). `RanksAscend` rests on `RanksInv`: no pair that could be merged
has a lower rank than the last merge. It alone needs `TrainingAssumption`, which training
gives and nothing in the code checks: every merge that makes a part of another has
the lower rank, so that a pair which a merge has just made is a later one
(`NewPairIsLater`). A vocabulary that makes one token in two ways, the second after
a merge that uses it, is outside the assumption and may go back.

`ControlsFromTemplate` and `DecodeGivesText` rest on `EncodeInv`, what the
encoders keep from step to step when no merge makes a control token
(`MergesMakeNoControl`, the condition that both properties have): the tokens so far, the piece in hand and the segments
left together decode to `Stripped`, and their control tokens are those of `Template`.
Three conjuncts make it inductive. `Scanned` ties the scan to the reference: what is
left of `pos` has been split as `LastEnds` says, so the segments say the bytes outside
the control tokens (`QuietPart`, `SpecialPart`). `LookedUp` says that no segment left
is taken for what it is not when it is compared with the vocabulary before it is
encoded: the text between two control tokens is never one, because the scan would have
found it (`SpanIsPlain`), and every part of a text without mistakable spellings is
without them (`CharsOccur`). The third is that the symbols of a piece are single
characters or made by a merge, and that their characters are the piece's bytes in the
byte alphabet, which a merge does not change (`MergeKeepsFlat`). From
there: the alphabet is one-to-one (`CodepointsDiffer`, which counts the unprintable
bytes), a symbol without a token is spelled out in tokens that decode alike
(`SymbolDecodes`), no symbol spells a control token (`SymbolSpellsNothing`, where the
condition is used), and the
characters of a text written in UTF-8 are the text (`CharsWritten`). The flattenings
are recursive: what `FlattenSeq` computes is characterised once by the partial
concatenations (`FlatJoins`, `JoinsOnce`), with arguments by the least place where a
claim fails, and everything else is proved from `FlatConcat`.

Only model-checked:

* liveness (`GenerateTerminates`, `EveryRequestAnswered`, `EveryCallEnds`, and the
  fairness half of `ImplementsLoop`), which is out of the prover's reach;
* the properties of `Protocol`, which compare what chains of folds, filters and
  flattenings over nested bodies compute for different APIs. The folds take operators
  as parameters, which the provers cannot instantiate; each would need a
  characterisation of its own, as `FlattenSeq` has in `TokenizerProofs`.

## Not modelled, and why

* The arithmetic of the kernels (attention, FFN, hyper-connections,
  quantisation, CPU and Metal): floating point, out of TLC's reach. What a
  forward pass does to the session's cache, and how rows are spread over
  threads, is modelled.
* `sys/` (C, Objective-C, shaders) is the code of another project; `MetalGraph`
  models its calls as kernels that succeed or return 0.
* The compressed-attention branch of `encode_decode_layer` (decode.rs 416-819):
  a constant switches it off.
* `try_prefill_logits_from_blocks`: no caller.
* The preview tokenizer, one token per byte, has no state; CLI, health and
  models endpoints, tracing and the wording of canned replies change no state
  the properties speak of.
* Nothing is ever evicted from the continuation store or the KV map; the models
  bound the number of calls instead.

------------------------------ MODULE Session ------------------------------
(***************************************************************************)
(* The inference session of src/session.rs: the one mutable object between *)
(* a prompt and its logits.  A session keeps the token sequence it has     *)
(* consumed (checkpoint), the attention rows computed for it               *)
(* (transformer_kv), the logits of the next token and its context limit.   *)
(* Every operation takes &mut self, so one operation is one atomic step;   *)
(* only generate_argmax_tokens, a loop of decode_next calls, is one step   *)
(* per iteration.                                                          *)
(*                                                                         *)
(* Data abstraction.  A logit vector is not computed: it is represented by *)
(* what it was computed from (LogitsSet).  The transformer cache is the    *)
(* sequence of decode attempts since it was last cleared; the rows a layer *)
(* really holds are those of the attempts that reached the layer           *)
(* (LayerRows).  A forward pass fails on the token (an id outside the      *)
(* embedding table or outside the expert hash table) or on a cache with    *)
(* too few layers.  The session's has one per bound block and infer_logits *)
(* makes one of 61; where blocks were skipped, an index past the session's *)
(* layers fails every pass there and none of infer_logits.  So the engine  *)
(* is three constants: Decodable, Inferable and RowsPushed.                *)
(***************************************************************************)
EXTENDS Integers, Sequences, FiniteSets

CONSTANTS
    Tokens,       \* token ids
    Decodable,    \* tokens whose pass over the session's cache returns Some(logits)
    Inferable,    \* tokens whose pass over infer_logits's cache does
    LayerCount,   \* transformer blocks of the model
    RowsPushed,   \* RowsPushed[t]: layers that get a row before t's pass ends
    CtxSizes,     \* context limits a session is created with
    Boundaries,   \* prefill boundaries a caller may set
    RawPayloads,  \* legacy snapshots: bare token sequences
    Prompts,      \* prompts a caller may sync
    MaxGen,       \* bound: tokens one generate call may ask for
    MaxSaved      \* bound: snapshots kept at a time

ASSUME EngineAssumption ==
    /\ LayerCount \in Nat
    /\ Decodable \subseteq Inferable /\ Inferable \subseteq Tokens
    /\ Decodable # {} => Inferable = Decodable
    /\ RowsPushed \in [Tokens -> 0..LayerCount]
    /\ \A t \in Decodable : RowsPushed[t] = LayerCount

ASSUME CallerAssumption ==
    /\ CtxSizes \subseteq Nat \ {0}
    /\ Boundaries \subseteq Nat
    /\ RawPayloads \subseteq Seq(Tokens)
    /\ Prompts \subseteq Seq(Tokens)
    /\ MaxGen \in Nat
    /\ MaxSaved \in Nat

VARIABLES
    ctx_size,          \* Session.ctx_size
    checkpoint,        \* Session.checkpoint
    transformer_kv,    \* Session.transformer_kv: decode attempts since clear()
    logits,            \* Session.logits, by provenance
    prefill_boundary,  \* Session.prefill_boundary, 0 for None
    saved,             \* the snapshots callers hold
    gen                \* the generate_argmax_tokens call in progress

vars == <<ctx_size, checkpoint, transformer_kv, logits, prefill_boundary,
          saved, gen>>

-----------------------------------------------------------------------------
(* Attention rows and logits.                                              *)

Row == [tok : Tokens, pos : Nat]

\* The decode attempts for the tokens of s at positions start, start + 1, ...
RowsAt(s, start) == [i \in 1..Len(s) |-> [tok |-> s[i], pos |-> start + i - 1]]

\* The rows that layer l of a cache holds: an attempt leaves a row in the
\* layers it reached before it failed, in the order of the attempts.
LayerRows(kv, l) == SelectSeq(kv, LAMBDA r : RowsPushed[r.tok] >= l)

\* The logits of an attempt that succeeded with the cache left at kv.
RefLogits(kv) == [from |-> "reference", rows |-> kv]

\* stub_infer_logits: a hash of the token sequence.
StubLogits(s) == [from |-> "stub", rows |-> RowsAt(s, 0)]

\* vec![0.0; vocab_size], and the vec![0.0; 256] a session starts with.
ZeroLogits == [from |-> "zeros", rows |-> <<>>]
CreateLogits == [from |-> "create", rows |-> <<>>]

LogitsSet == [from : {"create", "zeros", "stub", "reference"}, rows : Seq(Row)]

Last(s) == s[Len(s)]

\* Some(logits) is the outcome of the last token only: the loop overwrites
\* last_logits, so a token in the middle may fail without failing the call.
PrefillSucceeds(s) == s # <<>> /\ Last(s) \in Decodable

\* infer_logits: the last token alone on an empty cache of its own, else the stub.
InferLogits(s) ==
    IF s # <<>> /\ Last(s) \in Inferable
    THEN RefLogits(RowsAt(<<Last(s)>>, Len(s) - 1))
    ELSE StubLogits(s)

-----------------------------------------------------------------------------
(* The state functions of the session's private helpers.                   *)

Live(s, kv, lg) == [checkpoint |-> s, kv |-> kv, logits |-> lg]

\* Mutant: the reset before the prefill is forgotten.
RebuildWithoutReset(prompt) ==
    IF prompt = <<>>
    THEN Live(<<>>, <<>>, ZeroLogits)
    ELSE IF PrefillSucceeds(prompt)
    THEN Live(prompt, transformer_kv \o RowsAt(prompt, 0),
              RefLogits(transformer_kv \o RowsAt(prompt, 0)))
    ELSE Live(prompt, <<>>, InferLogits(prompt))

\* rebuild_prompt_state: reset, then prefill from position 0.  When the
\* reference path fails the attempted rows are dropped again.
RebuildPromptState(prompt) ==
    IF prompt = <<>>
    THEN Live(<<>>, <<>>, ZeroLogits)
    ELSE IF PrefillSucceeds(prompt)
    THEN Live(prompt, RowsAt(prompt, 0), RefLogits(RowsAt(prompt, 0)))
    ELSE Live(prompt, <<>>, InferLogits(prompt))

\* Mutant: the suffix is prefilled at position 0 instead of after the prefix.
ExtendFromZero(prompt, cached) ==
    LET suffix == SubSeq(prompt, cached + 1, Len(prompt))
        kv     == transformer_kv \o RowsAt(suffix, 0)
    IN  IF PrefillSucceeds(suffix)
        THEN Live(prompt, kv, RefLogits(kv))
        ELSE RebuildPromptState(prompt)

\* extend_live_suffix, and the rebuild its caller falls back to.
ExtendLiveSuffix(prompt, cached) ==
    LET suffix == SubSeq(prompt, cached + 1, Len(prompt))
        kv     == transformer_kv \o RowsAt(suffix, cached)
    IN  IF PrefillSucceeds(suffix)
        THEN Live(prompt, kv, RefLogits(kv))
        ELSE RebuildPromptState(prompt)

\* Mutant: the fallback rebuilds the tokens without the new one.
AppendDropsToken(token) ==
    LET kv   == Append(transformer_kv, [tok |-> token, pos |-> Len(checkpoint)])
    IN  IF token \in Decodable
        THEN Live(Append(checkpoint, token), kv, RefLogits(kv))
        ELSE RebuildPromptState(checkpoint)

\* append_token_with_reference_fallback.
AppendToken(token) ==
    LET kv   == Append(transformer_kv, [tok |-> token, pos |-> Len(checkpoint)])
        next == Append(checkpoint, token)
    IN  IF token \in Decodable
        THEN Live(next, kv, RefLogits(kv))
        ELSE RebuildPromptState(next)

\* Mutant: a load trusts the saved logits and leaves the cache empty.
NoRehydrate(s, lg) == Live(s, <<>>, lg)

\* rehydrate_live_state after a load that left the cache clear: the rows are
\* recomputed, and stay in the cache even when the last token fails.
Rehydrate(s, lg) ==
    Live(s, RowsAt(s, 0),
         IF PrefillSucceeds(s) THEN RefLogits(RowsAt(s, 0)) ELSE lg)

SetLive(l) ==
    /\ checkpoint' = l.checkpoint
    /\ transformer_kv' = l.kv
    /\ logits' = l.logits

-----------------------------------------------------------------------------
(* Operations.  No other call can run while generate_argmax_tokens holds   *)
(* the session.                                                            *)

Idle == gen.left = 0
NoGen == [left |-> 0, out |-> <<>>]

Create(ctx) ==
    /\ Idle
    /\ ctx_size' = ctx
    /\ SetLive(Live(<<>>, <<>>, CreateLogits))
    /\ prefill_boundary' = 0
    /\ UNCHANGED <<saved, gen>>

SetPrefillBoundary(b) ==
    /\ Idle
    /\ prefill_boundary' = b
    /\ UNCHANGED <<ctx_size, checkpoint, transformer_kv, logits, saved, gen>>

\* take_while(..).count() over the zipped tokens.
CommonPrefixLen(s, t) ==
    Cardinality({n \in 1..Len(s) : n <= Len(t) /\ \A i \in 1..n : s[i] = t[i]})

\* The live state a prefill of prompt leaves, past its length check.
PrefillState(prompt) ==
    LET common  == CommonPrefixLen(checkpoint, prompt)
        rebuilt == common # Len(checkpoint)
        cached  == IF rebuilt THEN 0 ELSE common
    IN  CASE Len(prompt) = cached /\ ~rebuilt ->
                 Live(checkpoint, transformer_kv, logits)
          [] Len(prompt) = cached /\ rebuilt ->
                 Live(<<>>, <<>>, logits)
          [] Len(prompt) # cached /\ cached = 0 ->
                 RebuildPromptState(prompt)
          [] OTHER -> ExtendLiveSuffix(prompt, cached)

\* Mutant: a prompt that fills the context is accepted.
PrefillFullContext(prompt) ==
    /\ Idle
    /\ Len(prompt) <= ctx_size
    /\ SetLive(PrefillState(prompt))
    /\ prefill_boundary' = 0
    /\ UNCHANGED <<ctx_size, saved, gen>>

\* prefill, and sync, which is prefill.  A prompt as long as the context is
\* refused before anything changes.
Prefill(prompt) ==
    /\ Idle
    /\ Len(prompt) < ctx_size
    /\ SetLive(PrefillState(prompt))
    /\ prefill_boundary' = 0
    /\ UNCHANGED <<ctx_size, saved, gen>>

\* decode_next and eval; ContextExceeded leaves the session as it is.
DecodeNext(token) ==
    /\ Idle
    /\ Len(checkpoint) + 1 < ctx_size
    /\ SetLive(AppendToken(token))
    /\ UNCHANGED <<ctx_size, prefill_boundary, saved, gen>>

Rewind(pos) ==
    /\ Idle
    /\ SetLive(RebuildPromptState(SubSeq(checkpoint, 1, pos)))
    /\ UNCHANGED <<ctx_size, prefill_boundary, saved, gen>>

Invalidate ==
    /\ Idle
    /\ SetLive(Live(<<>>, <<>>, logits))
    /\ UNCHANGED <<ctx_size, prefill_boundary, saved, gen>>

SaveSnapshot ==
    /\ Idle
    /\ Cardinality(saved) < MaxSaved
    /\ saved' = saved \union {[ctx |-> ctx_size, boundary |-> prefill_boundary,
                               tokens |-> checkpoint, logits |-> logits]}
    /\ UNCHANGED <<ctx_size, checkpoint, transformer_kv, logits,
                   prefill_boundary, gen>>

\* A caller drops a snapshot it holds.
DropSnapshot(s) ==
    /\ saved' = saved \ {s}
    /\ UNCHANGED <<ctx_size, checkpoint, transformer_kv, logits,
                   prefill_boundary, gen>>

\* Mutant: the context limit is read from the boundary's header field.
LoadSnapshotShifted(s) ==
    /\ Idle
    /\ ctx_size' = s.boundary
    /\ prefill_boundary' = s.boundary
    /\ SetLive(Rehydrate(s.tokens, s.logits))
    /\ UNCHANGED <<saved, gen>>

\* load_snapshot of a DSV4 payload: the context limit and the boundary come
\* from the payload too.
LoadSnapshot(s) ==
    /\ Idle
    /\ ctx_size' = s.ctx
    /\ prefill_boundary' = s.boundary
    /\ SetLive(Rehydrate(s.tokens, s.logits))
    /\ UNCHANGED <<saved, gen>>

\* load_snapshot of anything else: its bytes are read as bare token ids.
LoadRaw(s) ==
    /\ Idle
    /\ SetLive(Rehydrate(s, IF s = <<>> THEN ZeroLogits ELSE InferLogits(s)))
    /\ UNCHANGED <<ctx_size, prefill_boundary, saved, gen>>

GenerateBegin(max_tokens) ==
    /\ Idle
    /\ gen' = [left |-> max_tokens, out |-> <<>>]
    /\ UNCHANGED <<ctx_size, checkpoint, transformer_kv, logits,
                   prefill_boundary, saved>>

\* One turn of the loop: the argmax token (the values of the logits are
\* abstracted, so any token) is decoded and pushed on the output.
GenerateStep(token) ==
    /\ ~Idle
    /\ Len(checkpoint) + 1 < ctx_size
    /\ SetLive(AppendToken(token))
    /\ gen' = IF gen.left = 1 THEN NoGen
              ELSE [left |-> gen.left - 1, out |-> Append(gen.out, token)]
    /\ UNCHANGED <<ctx_size, prefill_boundary, saved>>

\* Mutant: the loop tries again instead of returning the error.
GenerateRetries ==
    /\ ~Idle
    /\ Len(checkpoint) + 1 >= ctx_size
    /\ UNCHANGED vars

\* decode_next fails inside the loop: the call returns the error, the tokens
\* decoded so far stay in the session.
GenerateErr ==
    /\ ~Idle
    /\ Len(checkpoint) + 1 >= ctx_size
    /\ gen' = NoGen
    /\ UNCHANGED <<ctx_size, checkpoint, transformer_kv, logits,
                   prefill_boundary, saved>>

Init ==
    /\ ctx_size \in CtxSizes
    /\ checkpoint = <<>>
    /\ transformer_kv = <<>>
    /\ logits = CreateLogits
    /\ prefill_boundary = 0
    /\ saved = {}
    /\ gen = NoGen

Generate == (\E token \in Tokens : GenerateStep(token)) \/ GenerateErr

Next ==
    \/ \E ctx \in CtxSizes : Create(ctx)
    \/ \E b \in Boundaries : SetPrefillBoundary(b)
    \/ \E prompt \in Prompts : Prefill(prompt)
    \/ \E token \in Tokens : DecodeNext(token)
    \/ \E pos \in 0..Len(checkpoint) : Rewind(pos)
    \/ Invalidate
    \/ SaveSnapshot
    \/ \E s \in saved : DropSnapshot(s) \/ LoadSnapshot(s)
    \/ \E s \in RawPayloads : LoadRaw(s)
    \/ \E n \in 1..MaxGen : GenerateBegin(n)
    \/ Generate

\* A generate call that has begun runs on: it is a loop without a wait.
Spec == Init /\ [][Next]_vars /\ WF_vars(Generate)
-----------------------------------------------------------------------------
(* Properties.                                                             *)

Snapshot == [ctx : Nat, boundary : Nat, tokens : Seq(Tokens), logits : LogitsSet]

\* The shape of the session: a positive limit, token and row sequences, a
\* logit vector of known provenance, well-formed snapshots.
TypeOK ==
    /\ ctx_size \in Nat \ {0}
    /\ checkpoint \in Seq(Tokens)
    /\ transformer_kv \in Seq(Row)
    /\ logits \in LogitsSet
    /\ prefill_boundary \in Nat
    /\ saved \in SUBSET Snapshot
    /\ gen \in [left : Nat, out : Seq(Tokens)]

\* The checkpoint is always shorter than the context limit, whatever order
\* of syncs, decodes and snapshot loads (which change the limit itself) led
\* here: the bound both ContextExceeded checks of session.rs defend.
CheckpointWithinCtx == Len(checkpoint) < ctx_size

\* kv holds the rows of the last Len(kv) tokens of s, each once and in order.
RowsOfSuffix(s, kv) ==
    LET skip == Len(s) - Len(kv)
    IN  /\ skip >= 0
        /\ \A i \in 1..Len(kv) :
              kv[i] = [tok |-> s[skip + i], pos |-> skip + i - 1]

\* The attention rows in the live cache are those of the last tokens of the
\* checkpoint, each once, at its own position.  No row of a token that was
\* rewound, replaced or refused survives in the cache, and none is doubled
\* by a retry, whichever of the fallbacks of session.rs ran.
NoForeignRows == RowsOfSuffix(checkpoint, transformer_kv)

\* A token sequence on which the engine does not change its mind: every
\* token decodes (a loaded model), or none does (the stub engine, or one whose
\* session cache is too small for its blocks).
AllDecodable(s) == \A i \in 1..Len(s) : s[i] \in Decodable
NoneDecodable(s) == \A i \in 1..Len(s) : s[i] \notin Decodable
Uniform(s) == AllDecodable(s) \/ NoneDecodable(s)

MatchesFresh(s, lg) ==
    s # <<>> /\ Uniform(s) => lg = RebuildPromptState(s).logits

\* The session's logits are a function of its tokens: whatever was prefilled,
\* decoded, rewound, saved and restored before, they equal those of a fresh
\* session that prefills the same tokens.  So do the logits of every
\* snapshot.  This is what the session.rs tests
\* rewind_restores_same_state_as_fresh_prefill and
\* snapshot_restore_matches_fresh_decode sample.
HistoryIndependent ==
    /\ MatchesFresh(checkpoint, logits)
    /\ \A s \in saved : MatchesFresh(s.tokens, s.logits)

\* The logits that the tokens determine: the reference pass over all of them, or what
\* infer_logits gives where none decodes.  Other sequences determine none in particular.
Fresh(s) ==
    CASE s # <<>> /\ AllDecodable(s) -> RefLogits(RowsAt(s, 0))
      [] s # <<>> /\ NoneDecodable(s) -> InferLogits(s)
      [] OTHER -> ZeroLogits
Determined(s, lg) == IF s # <<>> /\ Uniform(s) THEN lg ELSE ZeroLogits

Kept(s) == [limit |-> s.ctx, tokens |-> s.tokens, logits |-> Determined(s.tokens, s.logits)]

Promise == INSTANCE TokenSession WITH
    Limits <- CtxSizes, Payloads <- RawPayloads,
    limit <- ctx_size, tokens <- checkpoint,
    logits <- Determined(checkpoint, logits),
    kept <- {Kept(s) : s \in saved}

\* The session implements its promise: every operation, on each of its paths (a
\* reused prefix, an extended one, a rebuild, the stub after a failed pass), and
\* every turn of a generate loop does to the tokens and to the logits they determine
\* what the one-line operation of TokenSession does, and nothing else.
ImplementsPromise == Promise!Spec

\* While every consumed token decodes, the cache holds one row per consumed
\* token, so an incremental decode attends to the whole prefix.
CacheCoversCheckpoint ==
    AllDecodable(checkpoint) => Len(transformer_kv) = Len(checkpoint)

\* o is the end of c.
TailOf(o, c) ==
    /\ Len(o) <= Len(c)
    /\ \A i \in 1..Len(o) : o[i] = c[Len(c) - Len(o) + i]

\* What a running generate call has collected is the end of the checkpoint:
\* a caller that stops on an error can tell how far the session advanced.
OutputIsCheckpointSuffix == TailOf(gen.out, checkpoint)

\* A generate call returns, by budget or by ContextExceeded.
GenerateTerminates == ~Idle ~> Idle

\* The same claim as HistoryIndependent without its Uniform condition, with
\* logits compared by the rows each layer attended to: after any history the
\* session agrees with a fresh prefill of its tokens.
AlwaysMatchesFreshPrefill ==
    LET fresh == RebuildPromptState(checkpoint).logits
    IN  checkpoint # <<>> =>
           /\ logits.from = fresh.from
           /\ \A l \in 1..LayerCount :
                 LayerRows(logits.rows, l) = LayerRows(fresh.rows, l)
=============================================================================

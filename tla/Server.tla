------------------------------- MODULE Server -------------------------------
(***************************************************************************)
(* The preview server of src/server.rs: every API request runs handle_api  *)
(* on a thread of its own against one session, one KV cache (KvCache) and  *)
(* one continuation store (Continuation), each behind a mutex.  The KV and *)
(* continuation mutexes are held for one call; the session's is held from  *)
(* the load of the continuation to the response, and the other two are     *)
(* taken again under it.                                                   *)
(*                                                                         *)
(* Data abstraction.  A request is a record of what the handler asks of    *)
(* it.  A prompt is a sequence of lines; rendering it is injective, so a   *)
(* rendered prompt, its tokens and its text are the sequence itself.  The  *)
(* session is its checkpoint: the theorems of SessionProofs make the       *)
(* logits a function of it.  A response id is its prefix and the           *)
(* millisecond it was made in.                                             *)
(***************************************************************************)
EXTENDS Integers, Sequences, FiniteSets, SequencesExt

CONSTANTS
    Requests,       \* the requests of a behaviour
    Body,           \* Body[p]: what request p asks for
    CtxSize,        \* ServerConfig.ctx_size
    Budget,         \* tokens generated for a reply, at least 1
    Trust,          \* what the engine a server starts with may say to
                    \* has_real_model and supports_trustworthy_generation
    DiskOn,         \* --kv-disk-dir was given
    Tears,          \* sections after which fs::write may fail
    Panics,         \* a forward pass may panic (the Metal graph: MetalGraph)
    MinGap,         \* least milliseconds between two responses, 0 or 1
    MaxBoots,       \* bound: times the server is started
    AssistantLine,  \* the line of an assistant's tool call
    ResultLine,     \* the line of a tool result
    Gen,            \* a generated token
    None            \* Option::None

VARIABLES
    pc,          \* where in handle_api a request is
    hit,         \* its continuation, as restored
    replay,      \* the tool block it was hydrated with
    resp,        \* its ResponseEnvelope
    answer,      \* what the client got
    holder,      \* the request that holds each mutex
    poisoned,    \* the session's mutex is poisoned
    checkpoint,  \* Session.checkpoint
    by_key,      \* KvCache.by_key
    disk,        \* the files of the KV directory
    by_id, latest_by_conversation, latest_by_tool_call,  \* ContinuationStore
    clock,       \* the last reading of the millisecond clock
    boot,        \* how often the server was started
    trusted      \* its engine may generate

kvVars == <<by_key, disk>>
contVars == <<by_id, latest_by_conversation, latest_by_tool_call>>
vars == <<pc, hit, replay, resp, answer, holder, poisoned, checkpoint, kvVars, contVars,
          clock, boot, trusted>>

Apis == {"chatcmpl", "resp"}
ResponseIds == Apis \X Nat
CallId(id) == <<"call", id>>
CallIds == {"call"} \X ResponseIds
Blocks == {Body[p].block : p \in Requests}
StreamsChat(p) == Body[p].stream /\ Body[p].api = "chatcmpl"

\* rewrite_prompt_with_tool_replay: the first assistant line of the call is
\* replaced by the block and its other ones are dropped; a result line that
\* comes before any such line gets the block put in front of it, once.
RewriteLine(acc, line, block) ==
    CASE line = AssistantLine ->
            IF acc.replaced THEN acc
            ELSE [acc EXCEPT !.out = Append(@, block), !.replaced = TRUE]
      [] line = ResultLine /\ ~acc.replaced /\ ~acc.inserted ->
            [acc EXCEPT !.out = @ \o <<block, line>>, !.inserted = TRUE]
      [] OTHER -> [acc EXCEPT !.out = Append(@, line)]

Rewrite(prompt, block) ==
    FoldLeft(LAMBDA acc, line : RewriteLine(acc, line, block),
             [out |-> <<>>, replaced |-> FALSE, inserted |-> FALSE],
             prompt).out

\* Every prompt that is rendered, with or without a block.
Prompts ==
    {Body[p].prompt : p \in Requests}
      \union {Rewrite(Body[p].prompt, b) : p \in Requests, b \in Blocks}

\* What the decode loop adds to a prompt before it stops at the context limit.
Room(prompt) == CtxSize - 1 - Len(prompt)
Generated(prompt) ==
    [i \in 1..(IF Room(prompt) < Budget THEN Room(prompt) ELSE Budget) |-> Gen]

\* Every checkpoint the session can have.
Snapshots ==
    {<<>>} \union Prompts \union {prompt \o Generated(prompt) : prompt \in Prompts}

Cont == INSTANCE Continuation
          WITH Conversations <- {Body[p].conversation : p \in Requests} \ {None},
               ToolCalls <- CallIds, MaxRemembers <- 0, log <- <<>>

ResponseEnvelope ==
    [id : ResponseIds, sent : ResponseIds, call : BOOLEAN,
     from : Snapshots, gen : {<<>>} \union {Generated(prompt) : prompt \in Prompts}]
HttpAnswer ==
    [code : {0, 200, 500, 503}, boot : Nat, id : ResponseIds \union {None}]

ASSUME BodyAssumption ==
    /\ \A p \in Requests :
          /\ Body[p].api \in Apis
          /\ Body[p].plan \in BOOLEAN           \* should_short_circuit_tool_planning
          /\ Body[p].stream \in BOOLEAN
          /\ Body[p].tool_results \in BOOLEAN
          /\ Body[p].quotes_id \in BOOLEAN      \* sends previous_response_id
          /\ Body[p].after \in Requests \union {None}  \* the answer it quotes
          /\ Body[p].tool_results => ~Body[p].plan
          /\ Body[p].tool_results \/ Body[p].quotes_id => Body[p].after # None
    /\ Budget \in Nat \ {0}
    /\ Trust \subseteq BOOLEAN /\ Panics \in BOOLEAN
    /\ MinGap \in {0, 1}
    /\ MaxBoots \in Nat \ {0}

\* What a client refers to is what it was given: tool results are those of a
\* tool call, an id is not that of a streamed chat (the events carry an id that
\* is never remembered), and any other reference is to a turn of the same
\* conversation or to a tool call outside of one.
ASSUME ReferenceAssumption ==
    \A p \in Requests : LET q == Body[p].after IN
        q # None =>
            /\ Body[p].tool_results => Body[q].plan
            /\ Body[p].quotes_id => Body[q].plan \/ ~StreamsChat(q)
            /\ ~Body[p].quotes_id =>
                  IF Body[p].conversation = None THEN Body[p].tool_results
                  ELSE Body[q].conversation = Body[p].conversation

\* Option::None is no value of its own.
ASSUME NoneAssumption ==
    /\ None \notin Requests \union ResponseIds \union CallIds
    /\ None \notin Cont!ContinuationEntry
    /\ None \notin ResponseEnvelope \union HttpAnswer

Kv == INSTANCE KvCache
        WITH Strings <- {}, Bodies <- {}, Counts <- Nat, Entries <- {},
             Legacy <- {}, MaxStores <- 0,
             ToolIds <- CallIds,
             ret <- None, written <- <<>>, mine <- <<>>,
             latest <- <<>>

-----------------------------------------------------------------------------
(* The request as from_http parses it, and the prompt it is rendered to.   *)

PreviousId(p) == IF Body[p].quotes_id THEN answer[Body[p].after].id ELSE None
ToolCallId(p) ==
    IF Body[p].tool_results THEN CallId(answer[Body[p].after].id) ELSE None

Rendered(p) ==
    IF replay[p] = None THEN Body[p].prompt ELSE Rewrite(Body[p].prompt, replay[p])

\* Mutant: a prompt that is a prefix of the checkpoint is a full cache hit.
SyncKeepsLonger(p) ==
    IF IsPrefix(Rendered(p), checkpoint) THEN checkpoint ELSE Rendered(p)

\* The checkpoint that Session::sync leaves: the prompt, whatever part of it
\* was cached.
SyncResult(p) == Rendered(p)

-----------------------------------------------------------------------------
(* Locks, answers and the clock.                                           *)

\* The mutex that each stage of handle_api begins by locking, and the stage
\* it is in once it has the guard.
Wants == [hydrate |-> "kv", restore |-> "continuations", session |-> "session",
          store |-> "kv", remember |-> "continuations"]
Granted == [hydrate |-> "hydrating", restore |-> "restoring",
            session |-> "loading", store |-> "storing",
            remember |-> "remembering"]

\* Mutant: the guard is taken out of the PoisonError.
AcquirePoisoned(p) ==
    /\ pc[p] \in DOMAIN Wants
    /\ holder[Wants[pc[p]]] = None
    /\ holder' = [holder EXCEPT ![Wants[pc[p]]] = p]
    /\ pc' = [pc EXCEPT ![p] = Granted[pc[p]]]
    /\ UNCHANGED <<hit, replay, resp, answer, checkpoint, kvVars, contVars,
                   clock, boot, trusted, poisoned>>

\* Mutex::lock waits for any guard, the caller's own included; a poisoned one
\* is refused.
Acquire(p) ==
    /\ pc[p] \in DOMAIN Wants
    /\ holder[Wants[pc[p]]] = None
    /\ Wants[pc[p]] = "session" => ~poisoned
    /\ holder' = [holder EXCEPT ![Wants[pc[p]]] = p]
    /\ pc' = [pc EXCEPT ![p] = Granted[pc[p]]]
    /\ UNCHANGED <<hit, replay, resp, answer, checkpoint, kvVars, contVars,
                   clock, boot, trusted, poisoned>>

Release(l) == holder' = [holder EXCEPT ![l] = None]
Goto(p, stage) == pc' = [pc EXCEPT ![p] = stage]

\* handle_api returns: the guards it holds are dropped.
Answer(p, code) ==
    /\ Goto(p, "done")
    /\ holder' = [l \in DOMAIN holder |-> IF holder[l] = p THEN None ELSE holder[l]]
    /\ answer' = [answer EXCEPT ![p] =
                     [code |-> code, boot |-> boot,
                      id |-> IF code = 200 THEN resp[p].sent ELSE None]]

\* "session mutex poisoned"
LockErr(p) ==
    /\ pc[p] = "session" /\ holder["session"] = None /\ poisoned
    /\ Answer(p, 500)
    /\ UNCHANGED <<hit, replay, resp, checkpoint, kvVars, contVars, clock, boot,
                   trusted, poisoned>>

\* What new_message may read from the clock.
Readings == clock + MinGap .. clock + 1

-----------------------------------------------------------------------------
(* handle_api, stage by stage.                                             *)

\* A client sends a request, after it has the answer the request refers to.
Arrive(p) ==
    /\ pc[p] = "idle"
    /\ Body[p].after # None =>
          answer[Body[p].after] # None /\ answer[Body[p].after].code = 200
    /\ Goto(p, IF Body[p].tool_results THEN "hydrate" ELSE "restore")
    /\ UNCHANGED <<hit, replay, resp, answer, holder, checkpoint, kvVars,
                   contVars, clock, boot, trusted, poisoned>>

\* hydrate_tool_replay: a lookup that fails fails the request.
Hydrate(p) ==
    /\ pc[p] = "hydrating"
    /\ \E r \in Kv!FindToolReplayResults(ToolCallId(p)) :
          \/ /\ r = Kv!Err
             /\ Answer(p, 500)
             /\ UNCHANGED replay
          \/ /\ r # Kv!Err
             /\ replay' = [replay EXCEPT ![p] = r.val]
             /\ Goto(p, "restore")
             /\ Release("kv")
             /\ UNCHANGED answer
    /\ UNCHANGED <<hit, resp, checkpoint, kvVars, contVars, clock, boot, trusted, poisoned>>

\* Mutant: the guard of the continuation mutex lives to the end of handle_api.
RestoreKeepsGuard(p) ==
    /\ pc[p] = "restoring"
    /\ hit' = [hit EXCEPT ![p] =
                  Cont!Restore(PreviousId(p), Body[p].conversation, ToolCallId(p))]
    /\ Goto(p, "session")
    /\ UNCHANGED <<replay, resp, answer, holder, checkpoint, kvVars, contVars,
                   clock, boot, trusted, poisoned>>

\* The continuation is read, and its mutex dropped, before the session's is
\* taken.
Restore(p) ==
    /\ pc[p] = "restoring"
    /\ hit' = [hit EXCEPT ![p] =
                  Cont!Restore(PreviousId(p), Body[p].conversation, ToolCallId(p))]
    /\ Goto(p, "session")
    /\ Release("continuations")
    /\ UNCHANGED <<replay, resp, answer, checkpoint, kvVars, contVars, clock, boot, trusted, poisoned>>

\* Under the session's mutex: load_snapshot when there is a continuation.
LoadContinuation(p) ==
    /\ pc[p] = "loading"
    /\ checkpoint' = IF hit[p] = None THEN checkpoint ELSE hit[p].snapshot
    /\ Goto(p, "plan")
    /\ UNCHANGED <<hit, replay, resp, answer, holder, kvVars, contVars, clock, boot, trusted, poisoned>>

Envelope(p, ms, call, from, gen) ==
    [id |-> <<Body[p].api, ms>>, sent |-> <<Body[p].api, ms>>,
     call |-> call, from |-> from, gen |-> gen]

\* A tool call is answered without a sync: nothing of the request is in the
\* session whose snapshot is about to be saved.
ShortCircuit(p) ==
    /\ pc[p] = "plan"
    /\ Body[p].plan
    /\ \E ms \in Readings :
          /\ clock' = ms
          /\ resp' = [resp EXCEPT ![p] = Envelope(p, ms, TRUE, <<>>, <<>>)]
    /\ Goto(p, "store")
    /\ UNCHANGED <<hit, replay, answer, holder, checkpoint, kvVars, contVars, boot, trusted, poisoned>>

\* untrusted_generation_reason.
Gate(p) ==
    /\ pc[p] = "plan"
    /\ ~Body[p].plan /\ ~trusted
    /\ Answer(p, 503)
    /\ UNCHANGED <<hit, replay, resp, checkpoint, kvVars, contVars, clock, boot, trusted, poisoned>>

\* sync refuses a prompt that does not fit.
SyncErr(p) ==
    /\ pc[p] = "plan"
    /\ ~Body[p].plan /\ trusted
    /\ Len(Rendered(p)) >= CtxSize
    /\ Answer(p, 500)
    /\ UNCHANGED <<hit, replay, resp, checkpoint, kvVars, contVars, clock, boot, trusted, poisoned>>

\* sync; stream_chat_completion_sse then makes the envelope whose id goes
\* into the events it sends.
Sync(p) ==
    /\ pc[p] = "plan"
    /\ ~Body[p].plan /\ trusted
    /\ Len(Rendered(p)) < CtxSize
    /\ checkpoint' = SyncResult(p)
    /\ IF StreamsChat(p)
       THEN \E ms \in Readings :
               /\ clock' = ms
               /\ resp' = [resp EXCEPT ![p] = Envelope(p, ms, FALSE, <<>>, <<>>)]
       ELSE UNCHANGED <<clock, resp>>
    /\ Goto(p, "generate")
    /\ UNCHANGED <<hit, replay, answer, holder, kvVars, contVars, boot, trusted, poisoned>>

\* The decode loop stops at the context limit: a stream fails, any other
\* reply falls back to a canned text.  The envelope that is stored and
\* remembered is made after the loop; a stream's was sent before it.
Generate(p) ==
    /\ pc[p] = "generate"
    /\ StreamsChat(p) => Room(checkpoint) >= Budget
    /\ checkpoint' = checkpoint \o Generated(checkpoint)
    /\ \E ms \in Readings :
          /\ clock' = ms
          /\ LET final == Envelope(p, ms, FALSE, checkpoint, Generated(checkpoint))
             IN  resp' = [resp EXCEPT ![p] =
                    IF StreamsChat(p) THEN [final EXCEPT !.sent = resp[p].id]
                    ELSE final]
    /\ Goto(p, "store")
    /\ UNCHANGED <<hit, replay, answer, holder, kvVars, contVars, boot, trusted, poisoned>>

GenerateErr(p) ==
    /\ pc[p] = "generate"
    /\ StreamsChat(p) /\ Room(checkpoint) < Budget
    /\ checkpoint' = checkpoint \o Generated(checkpoint)
    /\ Answer(p, 500)
    /\ UNCHANGED <<hit, replay, resp, kvVars, contVars, clock, boot, trusted, poisoned>>

\* A forward pass panics: the connection is dropped, the guard poisons its mutex
\* and the session stays as it is.  load_snapshot runs one for any snapshot with
\* tokens (rehydrate_live_state), after it has put the snapshot's in the place of
\* its own and before has_real_model is asked for anything; sync and the decode
\* loop leave the tokens as they were, reset, or already replaced.
Panic(p) ==
    /\ Panics
    /\ \/ /\ pc[p] = "loading" /\ hit[p] # None /\ hit[p].snapshot # <<>>
          /\ checkpoint' = hit[p].snapshot
       \/ /\ pc[p] = "plan" /\ ~Body[p].plan /\ trusted
          /\ Len(Rendered(p)) < CtxSize
          /\ checkpoint' \in {checkpoint, <<>>, SyncResult(p)}
       \/ /\ pc[p] = "generate"
          /\ checkpoint' \in {checkpoint, <<>>, checkpoint \o Generated(checkpoint)}
    /\ poisoned' = TRUE
    /\ Answer(p, 0)
    /\ UNCHANGED <<hit, replay, resp, kvVars, contVars, clock, boot, trusted>>

\* Mutant: the replay is filed under the response's id.
VisibleEntryByResponse(p) ==
    LET text == IF resp[p].call THEN <<>> ELSE Rendered(p)
    IN  [text |-> text, tokens |-> Len(text),
         snap |-> Len(checkpoint), body |-> checkpoint,
         replay |-> IF resp[p].call
                    THEN {[id |-> resp[p].id, block |-> Body[p].block]}
                    ELSE {},
         reason |-> Body[p].api]

\* store_visible_kv_entry's entry.  A tool call has no rendered tokens.
VisibleEntry(p) ==
    LET text == IF resp[p].call THEN <<>> ELSE Rendered(p)
    IN  [text |-> text, tokens |-> Len(text),
         snap |-> Len(checkpoint), body |-> checkpoint,
         replay |-> IF resp[p].call
                    THEN {[id |-> CallId(resp[p].id), block |-> Body[p].block]}
                    ELSE {},
         reason |-> Body[p].api]

Store(p) ==
    /\ pc[p] = "storing"
    /\ Kv!WriteFile(VisibleEntry(p), Kv!Whole)
    /\ by_key' = Kv!Insert(by_key, <<resp[p].id, VisibleEntry(p).tokens>>,
                           VisibleEntry(p))
    /\ Goto(p, "remember")
    /\ Release("kv")
    /\ UNCHANGED <<hit, replay, resp, answer, checkpoint, contVars, clock, boot, trusted, poisoned>>

\* Mutant: the snapshot is the one taken before the reply was generated.
RememberedAtSync(p) ==
    [response_id |-> resp[p].id, conversation |-> Body[p].conversation,
     tool_call |-> IF resp[p].call THEN CallId(resp[p].id) ELSE ToolCallId(p),
     snapshot |-> IF resp[p].call THEN checkpoint ELSE resp[p].from]

\* remember_continuation's entry.
RememberedEntry(p) ==
    [response_id |-> resp[p].id, conversation |-> Body[p].conversation,
     tool_call |-> IF resp[p].call THEN CallId(resp[p].id) ELSE ToolCallId(p),
     snapshot |-> checkpoint]

\* Mutant: the continuation is remembered before the entry is stored.
StoreErrRemembers(p, cut) ==
    /\ pc[p] = "storing"
    /\ DiskOn
    /\ Kv!WriteFile(VisibleEntry(p), cut)
    /\ Cont!Remember(RememberedEntry(p))
    /\ Answer(p, 500)
    /\ UNCHANGED <<hit, replay, resp, checkpoint, by_key, clock, boot, trusted, poisoned>>

\* fs::write fails: the request fails with the session already advanced.
StoreErr(p, cut) ==
    /\ pc[p] = "storing"
    /\ DiskOn
    /\ Kv!WriteFile(VisibleEntry(p), cut)
    /\ Answer(p, 500)
    /\ UNCHANGED <<hit, replay, resp, checkpoint, by_key, contVars, clock, boot, trusted, poisoned>>

\* Mutant: the continuation is dropped when the session had one already.
RememberOnce(p) ==
    /\ pc[p] = "remembering"
    /\ IF hit[p] = None THEN Cont!Remember(RememberedEntry(p)) ELSE UNCHANGED contVars
    /\ Answer(p, 200)
    /\ UNCHANGED <<hit, replay, resp, checkpoint, kvVars, clock, boot, trusted, poisoned>>

\* remember_continuation, and the response goes out.
Remember(p) ==
    /\ pc[p] = "remembering"
    /\ Cont!Remember(RememberedEntry(p))
    /\ Answer(p, 200)
    /\ UNCHANGED <<hit, replay, resp, checkpoint, kvVars, clock, boot, trusted, poisoned>>

\* The process ends and starts again: only the files are left, and the
\* clients of the requests under way get no answer.
Restart ==
    /\ boot < MaxBoots
    /\ boot' = boot + 1
    /\ trusted' \in Trust
    /\ pc' = [p \in Requests |-> IF pc[p] = "idle" THEN "idle" ELSE "done"]
    /\ answer' = [p \in Requests |->
                    IF pc[p] \in {"idle", "done"} THEN answer[p]
                    ELSE [code |-> 0, boot |-> boot, id |-> None]]
    /\ holder' = [l \in DOMAIN holder |-> None]
    /\ poisoned' = FALSE
    /\ checkpoint' = <<>>
    /\ by_key' = <<>>
    /\ by_id' = <<>> /\ latest_by_conversation' = <<>> /\ latest_by_tool_call' = <<>>
    /\ UNCHANGED <<hit, replay, resp, disk, clock>>

\* Nothing to do until the next request.
Quiet == (\A p \in Requests : pc[p] \in {"idle", "done"}) /\ UNCHANGED vars

Init ==
    /\ pc = [p \in Requests |-> "idle"]
    /\ hit = [p \in Requests |-> None]
    /\ replay = [p \in Requests |-> None]
    /\ resp = [p \in Requests |-> None]
    /\ answer = [p \in Requests |-> None]
    /\ holder = [l \in {"session", "kv", "continuations"} |-> None]
    /\ poisoned = FALSE
    /\ checkpoint = <<>>
    /\ by_key = <<>> /\ disk = <<>>
    /\ by_id = <<>> /\ latest_by_conversation = <<>> /\ latest_by_tool_call = <<>>
    /\ clock = 0
    /\ boot = 1
    /\ trusted \in Trust

\* The thread of request p.
Handle(p) ==
    \/ Acquire(p) \/ LockErr(p)
    \/ Hydrate(p) \/ Restore(p) \/ LoadContinuation(p)
    \/ ShortCircuit(p) \/ Gate(p) \/ SyncErr(p) \/ Sync(p)
    \/ Generate(p) \/ GenerateErr(p) \/ Panic(p)
    \/ Store(p) \/ (\E cut \in Tears : StoreErr(p, cut)) \/ Remember(p)

Next ==
    \/ \E p \in Requests : Arrive(p) \/ Handle(p)
    \/ Restart
    \/ Quiet

\* Each request has a thread, and handle_api awaits nothing.
Spec == Init /\ [][Next]_vars /\ \A p \in Requests : WF_vars(Handle(p))

-----------------------------------------------------------------------------
(* Properties.                                                             *)

\* A generated reply is computed from exactly the rendered prompt of its own
\* request: not from the snapshot it restored, nor from what other requests
\* left in the shared session between its stages.
ReplyIsOwn ==
    \A p \in Requests :
        (resp[p] # None /\ resp[p].gen # <<>>) => resp[p].from = Rendered(p)

\* The snapshot remembered for a generated reply holds the prompt and the
\* reply of that very response.
SnapshotIsOwn ==
    \A id \in DOMAIN by_id : \E p \in Requests :
        /\ resp[p] # None /\ resp[p].id = id
        /\ resp[p].call \/ by_id[id].snapshot = resp[p].from \o resp[p].gen

\* p, which refers to an earlier answer, has its continuation.
Restored(p) ==
    /\ Body[p].after # None
    /\ pc[p] \notin {"idle", "hydrate", "hydrating", "restore", "restoring", "done"}

\* A client that waits for an answer before it refers to it, by response id,
\* conversation or tool call, continues from that answer or from a later one
\* of the same reference, whatever ran in between.
ContinuesItsAnswer ==
    \A p \in Requests : LET q == Body[p].after IN
        (Restored(p) /\ answer[q].boot = boot) =>
            /\ hit[p] # None
            /\ hit[p].response_id[2] >= answer[q].id[2]
            /\ Body[p].quotes_id => hit[p] = [hit[p] EXCEPT
                    !.response_id = answer[q].id,
                    !.conversation = Body[q].conversation]

\* A request that was answered with an error can never be continued from.
ErrorsAreForgotten ==
    \A p \in Requests :
        (answer[p] # None /\ answer[p].code # 200 /\ resp[p] # None) =>
            resp[p].id \notin DOMAIN by_id

\* A follow-up to a tool call of this process is given the very block the
\* call was answered with.
FollowUpHydrated ==
    \A p \in Requests : LET q == Body[p].after IN
        (Body[p].tool_results /\ Restored(p) /\ answer[q].boot = boot) =>
            replay[p] = Body[q].block

\* A session that a panic left in the middle of an operation is never used
\* again: until the server is restarted nothing changes it, and nothing is
\* stored or remembered from it, whatever is requested.
BrokenSessionIsLeft ==
    [][poisoned => \/ ~poisoned'
                   \/ UNCHANGED <<checkpoint, by_key, disk, contVars>>]_vars

\* Every request that reached the server is answered, or lost in a panic or a
\* restart: no handlers wait for each other's mutex.  (A request comes once, so
\* that none is under way again and again says it of each.)
EveryRequestAnswered == []<>(\A p \in Requests : pc[p] \in {"idle", "done"})

\* Claim of README.md:72-74, "tool-result follow-up requests now hydrate exact
\* tool replay blocks from KTM before render/sync, so restarted continuation
\* paths no longer depend only on canonical JSON-to-prompt projection": a
\* follow-up that is not lost is hydrated, after a restart too.
FollowUpHydratedAfterRestart ==
    \A p \in Requests :
        (/\ Body[p].tool_results
         /\ pc[p] \notin {"idle", "hydrate", "hydrating"}
         /\ answer[p] # None => answer[p].code # 0) =>
             replay[p] = Body[Body[p].after].block
=============================================================================

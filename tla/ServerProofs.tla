---------------------------- MODULE ServerProofs ----------------------------
(***************************************************************************)
(* Proofs about Server: what the handlers of any number of requests, with  *)
(* any bodies, may do to the session, the KV cache and the continuation    *)
(* store they share.                                                       *)
(***************************************************************************)
EXTENDS Server, TLAPS

-----------------------------------------------------------------------------
(* The inductive invariant.                                                *)

Locks == {"session", "kv", "continuations"}

\* The stages between two locks of the session, those that have the reply's
\* envelope, and those before it is made.
Serving == {"loading", "plan", "generate", "store", "storing", "remember", "remembering"}
Keeping == {"store", "storing", "remember", "remembering"}
Early == {"idle", "hydrate", "hydrating", "restore", "restoring", "session",
          "loading", "plan"}
Stages == Early \union Keeping \union {"generate", "done"}

\* What a tool block is filed as.
ReplayOf(id, q) == [id |-> CallId(id), block |-> Body[q].block]

BlocksIn(items) == \A x \in items : x.block \in Blocks

\* What the variables hold.
Shape ==
    /\ pc \in [Requests -> Stages]
    /\ hit \in [Requests -> Cont!ContinuationEntry \union {None}]
    /\ replay \in [Requests -> Blocks \union {None}]
    /\ resp \in [Requests -> ResponseEnvelope \union {None}]
    /\ answer \in [Requests -> HttpAnswer \union {None}]
    /\ holder \in [Locks -> Requests \union {None}]
    /\ checkpoint \in Snapshots
    /\ clock \in Nat /\ boot \in Nat
    /\ \A k \in DOMAIN by_key : BlocksIn(by_key[k].replay)
    /\ \A t \in DOMAIN disk : BlocksIn(disk[t].entry.replay)
    /\ \A id \in DOMAIN by_id : by_id[id] \in Cont!ContinuationEntry

\* A stage that uses what a mutex guards holds it.
Guarded ==
    \A p \in Requests :
        /\ pc[p] \in Serving => holder["session"] = p
        /\ pc[p] \in {"hydrating", "storing"} => holder["kv"] = p
        /\ pc[p] \in {"restoring", "remembering"} => holder["continuations"] = p

\* Nobody is inside a poisoned session.
PoisonedIsEmpty == poisoned => \A p \in Requests : pc[p] \notin Serving

\* The session between the stages of the request that holds it, and the
\* envelope that goes with it.
SessionIsOwn ==
    \A p \in Requests :
        /\ pc[p] \in Early => resp[p] = None
        /\ pc[p] = "generate" =>
              /\ checkpoint = Rendered(p)
              /\ ~Body[p].plan
              /\ resp[p] = None <=> ~StreamsChat(p)
              /\ resp[p] # None => resp[p].gen = <<>>
        /\ pc[p] \in Keeping =>
              /\ resp[p] # None
              /\ resp[p].call \/ checkpoint = resp[p].from \o resp[p].gen
        /\ resp[p] # None =>
              /\ resp[p].call = Body[p].plan
              /\ resp[p].call \/ ~StreamsChat(p) => resp[p].sent = resp[p].id

\* An answer is final and is the envelope's; a request that refers to one is
\* only sent once it is there.
AnswersAreFinal ==
    \A p \in Requests :
        /\ answer[p] # None => pc[p] = "done" /\ answer[p].boot <= boot
        /\ (answer[p] # None /\ answer[p].code = 200) =>
              resp[p] # None /\ answer[p].id = resp[p].sent
        /\ (pc[p] # "idle" /\ Body[p].after # None) =>
              answer[Body[p].after] # None /\ answer[Body[p].after].code = 200

\* p was answered by this process.
Answered(p) == answer[p] # None /\ answer[p].code = 200 /\ answer[p].boot = boot

\* The continuation of an id is that of a request answered by this process.
EntriesAreAnswers ==
    \A id \in DOMAIN by_id :
        /\ by_id[id].response_id = id
        /\ \E p \in Requests :
              /\ Answered(p)
              /\ resp[p].id = id
              /\ by_id[id].conversation = Body[p].conversation
              /\ resp[p].call \/ by_id[id].snapshot = resp[p].from \o resp[p].gen

CoreInv ==
    /\ Shape
    /\ Guarded
    /\ PoisonedIsEmpty
    /\ SessionIsOwn
    /\ ReplyIsOwn
    /\ AnswersAreFinal
    /\ EntriesAreAnswers

(* What holds while no two envelopes are made in the same millisecond.     *)

\* Ids are told apart by their time, and the one being answered is the newest.
IdsAreFresh ==
    /\ \A p \in Requests : resp[p] # None =>
          /\ resp[p].id[2] <= clock
          /\ resp[p].sent[2] <= resp[p].id[2]
    /\ \A p, q \in Requests :
          (resp[p] # None /\ resp[q] # None /\ resp[p].id[2] = resp[q].id[2]) => p = q
    /\ \A p \in Requests : pc[p] \in Keeping => resp[p].id[2] = clock

\* The blocks in memory are those of tool calls, and a call that was answered,
\* or is about to be, is there.
BlocksAreFiled ==
    /\ \A k \in DOMAIN by_key : \A x \in by_key[k].replay :
          \E q \in Requests : /\ resp[q] # None /\ resp[q].call
                              /\ x = ReplayOf(resp[q].id, q)
    /\ \A q \in Requests :
          (/\ resp[q] # None /\ resp[q].call
           /\ pc[q] \in {"remember", "remembering"} \/ Answered(q)) =>
               /\ <<resp[q].id, 0>> \in DOMAIN by_key
               /\ ReplayOf(resp[q].id, q) \in by_key[<<resp[q].id, 0>>].replay

\* A follow-up past its lookup has the block of its call.
Hydrated ==
    \A p \in Requests : LET q == Body[p].after IN
        (/\ Body[p].tool_results
         /\ pc[p] \notin {"idle", "hydrate", "hydrating", "done"}
         /\ answer[q].boot = boot) => replay[p] = Body[q].block

\* The key names, in an alias map, a remembered response no older than id.
NamesNoOlder(map, key, id) ==
    /\ key \in DOMAIN map
    /\ map[key] \in DOMAIN by_id
    /\ map[key][2] >= id[2]

\* An answered request is found under its id and its aliases.
AnswersAreFound ==
    \A q \in Requests : Answered(q) =>
        /\ resp[q].id \in DOMAIN by_id
        /\ Body[q].conversation # None =>
              NamesNoOlder(latest_by_conversation, Body[q].conversation, resp[q].id)
        /\ resp[q].call =>
              NamesNoOlder(latest_by_tool_call, CallId(resp[q].id), resp[q].id)

FreshInv ==
    /\ IdsAreFresh
    /\ BlocksAreFiled
    /\ Hydrated
    /\ AnswersAreFound
    /\ ContinuesItsAnswer

-----------------------------------------------------------------------------
(* What a step of one request leaves alone.                                *)

Step(p) == Arrive(p) \/ Handle(p)

Frame(p) ==
    /\ boot' = boot
    /\ \A q \in Requests \ {p} :
          /\ pc'[q] = pc[q] /\ hit'[q] = hit[q] /\ replay'[q] = replay[q]
          /\ resp'[q] = resp[q] /\ answer'[q] = answer[q]

\* A handler writes its own request's state only, and never starts the server.
LEMMA StepFrame ==
    ASSUME Shape, NEW p \in Requests, Step(p)
    PROVE  Frame(p)
<1> USE DEF Frame, Shape, Goto, Answer
<1>1. CASE Arrive(p)
  BY <1>1 DEF Arrive
<1>2. CASE Acquire(p) \/ LockErr(p)
  BY <1>2 DEF Acquire, LockErr
<1>3. CASE Hydrate(p)
  BY <1>3 DEF Hydrate
<1>4. CASE Restore(p) \/ LoadContinuation(p)
  BY <1>4 DEF Restore, LoadContinuation
<1>5. CASE ShortCircuit(p)
  BY <1>5 DEF ShortCircuit
<1>6. CASE Gate(p) \/ SyncErr(p)
  BY <1>6 DEF Gate, SyncErr
<1>7. CASE Sync(p)
  BY <1>7 DEF Sync
<1>8. CASE Generate(p)
  BY <1>8 DEF Generate
<1>9. CASE GenerateErr(p) \/ Panic(p)
  BY <1>9 DEF GenerateErr, Panic
<1>10. CASE Store(p) \/ Remember(p)
  BY <1>10 DEF Store, Remember
<1>11. CASE \E cut \in Tears : StoreErr(p, cut)
  BY <1>11 DEF StoreErr
<1> QED
  BY <1>1, <1>2, <1>3, <1>4, <1>5, <1>6, <1>7, <1>8, <1>9, <1>10, <1>11 DEF Step, Handle

\* Outside the session a request changes nothing the others can see.
LEMMA StepOutside ==
    ASSUME Shape, NEW p \in Requests, Step(p), pc[p] \notin Serving
    PROVE  /\ UNCHANGED <<checkpoint, clock, poisoned, resp>>
           /\ UNCHANGED kvVars /\ UNCHANGED contVars
<1> USE DEF Serving
<1>1. CASE Arrive(p)
  BY <1>1 DEF Arrive
<1>2. CASE Acquire(p) \/ LockErr(p)
  BY <1>2 DEF Acquire, LockErr
<1>3. CASE Hydrate(p)
  BY <1>3 DEF Hydrate
<1>4. CASE Restore(p)
  BY <1>4 DEF Restore
<1>5. CASE LoadContinuation(p) \/ ShortCircuit(p) \/ Gate(p) \/ SyncErr(p) \/ Sync(p)
  BY <1>5 DEF LoadContinuation, ShortCircuit, Gate, SyncErr, Sync
<1>6. CASE Generate(p) \/ GenerateErr(p) \/ Panic(p)
  BY <1>6 DEF Generate, GenerateErr, Panic
<1>7. CASE Store(p) \/ Remember(p) \/ \E cut \in Tears : StoreErr(p, cut)
  BY <1>7 DEF Store, Remember, StoreErr
<1> QED
  BY <1>1, <1>2, <1>3, <1>4, <1>5, <1>6, <1>7 DEF Step, Handle

\* How far a step takes its request.
Moves == [idle |-> {"hydrate", "restore"}, hydrate |-> {"hydrating"},
          hydrating |-> {"restore", "done"}, restore |-> {"restoring"},
          restoring |-> {"session"}, session |-> {"loading", "done"},
          loading |-> {"plan", "done"}, plan |-> {"generate", "store", "done"},
          generate |-> {"store", "done"}, store |-> {"storing"},
          storing |-> {"remember", "done"}, remember |-> {"remembering"},
          remembering |-> {"done"}]

\* handle_api goes from stage to stage, or returns.
LEMMA StepMoves ==
    ASSUME Shape, NEW p \in Requests, Step(p)
    PROVE  pc[p] # "done" /\ pc'[p] \in Moves[pc[p]]
<1> USE DEF Shape, Goto, Answer, Moves
<1>1. CASE Arrive(p)
  BY <1>1 DEF Arrive
<1>2. CASE Acquire(p)
  BY <1>2 DEF Acquire, Wants, Granted
<1>2a. CASE LockErr(p)
  BY <1>2a DEF LockErr
<1>3. CASE Hydrate(p)
  BY <1>3 DEF Hydrate
<1>4. CASE Restore(p) \/ LoadContinuation(p)
  BY <1>4 DEF Restore, LoadContinuation
<1>5. CASE ShortCircuit(p) \/ Gate(p) \/ SyncErr(p) \/ Sync(p)
  <2>1. pc[p] = "plan" /\ pc'[p] \in {"generate", "store", "done"}
    <3>1. CASE ShortCircuit(p)
      BY <3>1 DEF ShortCircuit
    <3>2. CASE Gate(p) \/ SyncErr(p)
      BY <3>2 DEF Gate, SyncErr
    <3>3. CASE Sync(p)
      BY <3>3 DEF Sync
    <3> QED
      BY <1>5, <3>1, <3>2, <3>3
  <2> QED
    BY <2>1
<1>6. CASE Generate(p) \/ GenerateErr(p)
  <2>1. pc[p] = "generate" /\ pc'[p] \in {"store", "done"}
    <3>1. CASE Generate(p)
      BY <3>1 DEF Generate
    <3>2. CASE GenerateErr(p)
      BY <3>2 DEF GenerateErr
    <3> QED
      BY <1>6, <3>1, <3>2
  <2> QED
    BY <2>1
<1>7. CASE Panic(p)
  <2>1. pc[p] \in {"loading", "plan", "generate"} /\ pc'[p] = "done"
    BY <1>7 DEF Panic
  <2> QED
    BY <2>1
<1>8. CASE Store(p) \/ Remember(p) \/ \E cut \in Tears : StoreErr(p, cut)
  BY <1>8 DEF Store, Remember, StoreErr
<1> QED
  BY <1>1, <1>2, <1>2a, <1>3, <1>4, <1>5, <1>6, <1>7, <1>8 DEF Step, Handle

-----------------------------------------------------------------------------
(* The values a step computes.                                             *)

\* A rendered prompt is one of Prompts, whatever block it was hydrated with.
LEMMA RenderedIsPrompt ==
    ASSUME Shape, NEW p \in Requests
    PROVE  Rendered(p) \in Prompts
BY DEF Shape, Rendered, Prompts

\* find_tool_replay yields a block of some request, or none.
LEMMA FoundIsBlock ==
    ASSUME Shape, NEW id, NEW r \in Kv!FindToolReplayResults(id), r # Kv!Err
    PROVE  r.val \in Blocks \union {None}
<1> DEFINE items == UNION {by_key[k].replay : k \in DOMAIN by_key}
           found == {x \in items : x.id = id}
<1>1. CASE found # {}
  <2>1. r \in {Kv!Ok(x.block) : x \in found}
    BY <1>1 DEF Kv!FindToolReplayResults
  <2>2. \A x \in found : x.block \in Blocks
    BY DEF Shape, BlocksIn
  <2> QED
    BY <2>1, <2>2 DEF Kv!Ok
<1>2. CASE found = {}
  <2>1. r \in Kv!DiskFind(id)
    BY <1>2 DEF Kv!FindToolReplayResults
  <2> DEFINE kvc == {t \in DOMAIN disk : Kv!IsKvc(disk[t])}
             bad == {t \in kvc : Kv!LoadKvcEntry(disk[t]) = Kv!Err}
             dItems == UNION {Kv!LoadKvcEntry(disk[t]).val.replay : t \in kvc \ bad}
             dFound == {x \in dItems : x.id = id}
  <2>2. r \in {Kv!Ok(x.block) : x \in dFound} \union {Kv!Err, Kv!Ok(None)}
    BY <2>1 DEF Kv!DiskFind
  <2>3. \A t \in kvc \ bad : Kv!LoadKvcEntry(disk[t]).val.replay = disk[t].entry.replay
    <3> SUFFICES ASSUME NEW t \in kvc \ bad
                 PROVE  Kv!LoadKvcEntry(disk[t]).val.replay = disk[t].entry.replay
      OBVIOUS
    <3>1. Kv!LoadKvcEntry(disk[t]) # Kv!Err
      OBVIOUS
    <3> QED
      BY <3>1 DEF Kv!LoadKvcEntry, Kv!Ok
  <2>4. \A x \in dFound : x.block \in Blocks
    BY <2>3 DEF Shape, BlocksIn
  <2> QED
    BY <2>2, <2>4 DEF Kv!Ok
<1> QED
  BY <1>1, <1>2

\* The reading of the clock is a time, later when milliseconds are told apart.
LEMMA ReadingIsLater ==
    ASSUME clock \in Nat, NEW ms \in Readings
    PROVE  ms \in Nat /\ ms >= clock /\ (MinGap = 1 => ms = clock + 1)
BY BodyAssumption DEF Readings

\* An envelope is one.
LEMMA EnvelopeIsOne ==
    ASSUME NEW p \in Requests, NEW ms \in Nat, NEW call \in BOOLEAN,
           NEW from \in Snapshots,
           NEW gen \in {<<>>} \union {Generated(prompt) : prompt \in Prompts}
    PROVE  Envelope(p, ms, call, from, gen) \in ResponseEnvelope
<1>1. <<Body[p].api, ms>> \in ResponseIds
  BY BodyAssumption DEF ResponseIds
<1> QED
  BY <1>1 DEF Envelope, ResponseEnvelope

\* The envelopes that ShortCircuit, a streaming Sync and Generate make.
Planned(p, ms) == Envelope(p, ms, TRUE, <<>>, <<>>)
Opened(p, ms) == Envelope(p, ms, FALSE, <<>>, <<>>)
Final(p, ms) ==
    LET final == Envelope(p, ms, FALSE, checkpoint, Generated(checkpoint))
    IN  IF StreamsChat(p) THEN [final EXCEPT !.sent = resp[p].id] ELSE final

\* The last is one too, with the id a stream was sent.
LEMMA FinalIsEnvelope ==
    ASSUME Shape, SessionIsOwn, NEW p \in Requests, pc[p] = "generate", NEW ms \in Nat
    PROVE  Final(p, ms) \in ResponseEnvelope
<1> DEFINE final == Envelope(p, ms, FALSE, checkpoint, Generated(checkpoint))
<1>1. checkpoint \in Prompts /\ checkpoint \in Snapshots
  BY RenderedIsPrompt DEF SessionIsOwn, Snapshots
<1>2. final \in ResponseEnvelope
  BY <1>1, EnvelopeIsOne
<1>3. StreamsChat(p) => resp[p].id \in ResponseIds
  BY DEF SessionIsOwn, Shape, ResponseEnvelope
<1> HIDE DEF final
<1>4. (IF StreamsChat(p) THEN [final EXCEPT !.sent = resp[p].id] ELSE final)
          \in ResponseEnvelope
  BY <1>2, <1>3 DEF ResponseEnvelope
<1> QED
  BY <1>4 DEF Final, final

\* The tool call a follow-up names is an id.
LEMMA ToolCallIsId ==
    ASSUME Shape, AnswersAreFinal, NEW p \in Requests, pc[p] # "idle",
           Body[p].tool_results
    PROVE  /\ ToolCallId(p) = CallId(answer[Body[p].after].id)
           /\ ToolCallId(p) \in CallIds
<1>1. Body[p].after \in Requests
  BY BodyAssumption
<1>2. answer[Body[p].after].id \in ResponseIds
  BY <1>1, BodyAssumption DEF Shape, AnswersAreFinal, ResponseEnvelope
<1> QED
  BY <1>2 DEF ToolCallId, CallId, CallIds

\* What is remembered is an entry.
LEMMA RememberedIsEntry ==
    ASSUME Shape, AnswersAreFinal, NEW p \in Requests, pc[p] # "idle", resp[p] # None
    PROVE  RememberedEntry(p) \in Cont!ContinuationEntry
<1>1. resp[p].id \in ResponseIds
  BY DEF Shape, ResponseEnvelope
<1>2. CallId(resp[p].id) \in CallIds
  BY <1>1 DEF CallId, CallIds
<1>3. ToolCallId(p) \in CallIds \union {None}
  BY ToolCallIsId DEF ToolCallId
<1>4. checkpoint \in Snapshots
  BY DEF Shape
<1> QED
  BY <1>1, <1>2, <1>3, <1>4 DEF RememberedEntry, Cont!ContinuationEntry

-----------------------------------------------------------------------------
(* Shape is kept.                                                          *)

\* Returning from handle_api keeps the shape of what it writes.
LEMMA AnswerShape ==
    ASSUME Shape, NEW p \in Requests, NEW code \in {0, 200, 500, 503}, Answer(p, code),
           code = 200 => resp[p] # None
    PROVE  /\ pc' \in [Requests -> Stages]
           /\ answer' \in [Requests -> HttpAnswer \union {None}]
           /\ holder' \in [Locks -> Requests \union {None}]
<1>1. resp[p] # None => resp[p].sent \in ResponseIds
  BY DEF Shape, ResponseEnvelope
<1>2. [code |-> code, boot |-> boot,
       id |-> IF code = 200 THEN resp[p].sent ELSE None] \in HttpAnswer
  BY <1>1 DEF Shape, HttpAnswer
<1>3. pc' \in [Requests -> Stages]
  BY DEF Shape, Answer, Goto, Stages
<1>4. answer' \in [Requests -> HttpAnswer \union {None}]
  BY <1>2 DEF Shape, Answer
<1>5. holder' \in [Locks -> Requests \union {None}]
  BY DEF Shape, Answer
<1> QED
  BY <1>3, <1>4, <1>5

\* Filing an entry with blocks of requests.
LEMMA VisibleEntryBlocks ==
    ASSUME NEW p \in Requests
    PROVE  BlocksIn(VisibleEntry(p).replay)
BY DEF VisibleEntry, BlocksIn, Blocks

\* fs::write keeps the blocks of the directory those of requests.
LEMMA WriteFileBlocks ==
    ASSUME Shape, NEW p \in Requests, NEW cut, Kv!WriteFile(VisibleEntry(p), cut)
    PROVE  \A t \in DOMAIN disk' : BlocksIn(disk'[t].entry.replay)
BY VisibleEntryBlocks DEF Shape, Kv!WriteFile, Kv!Insert, Kv!File

\* Every step of a request keeps the shape.
LEMMA ShapeStep ==
    ASSUME CoreInv, NEW p \in Requests, Step(p)
    PROVE  Shape'
<1> USE DEF CoreInv
<1>1. CASE Arrive(p)
  <2>1. pc' \in [Requests -> Stages]
    BY <1>1 DEF Arrive, Shape, Goto, Stages, Early
  <2> QED
    BY <1>1, <2>1 DEF Arrive, Shape, kvVars, contVars
<1>2. CASE Acquire(p)
  <2>1. pc' \in [Requests -> Stages] /\ holder' \in [Locks -> Requests \union {None}]
    BY <1>2 DEF Acquire, Shape, Wants, Granted, Stages, Early, Keeping, Locks
  <2> QED
    BY <1>2, <2>1 DEF Acquire, Shape, kvVars, contVars
<1>3. CASE LockErr(p)
  BY <1>3, AnswerShape DEF LockErr, Shape, kvVars, contVars
<1>4. CASE Hydrate(p)
  <2> PICK r \in Kv!FindToolReplayResults(ToolCallId(p)) :
          \/ r = Kv!Err /\ Answer(p, 500) /\ UNCHANGED replay
          \/ /\ r # Kv!Err
             /\ replay' = [replay EXCEPT ![p] = r.val]
             /\ Goto(p, "restore") /\ Release("kv") /\ UNCHANGED answer
    BY <1>4 DEF Hydrate
  <2>1. CASE r = Kv!Err
    BY <1>4, <2>1, AnswerShape DEF Hydrate, Shape, kvVars, contVars
  <2>2. CASE r # Kv!Err
    <3>1. r.val \in Blocks \union {None}
      BY <2>2, FoundIsBlock
    <3>2. replay' \in [Requests -> Blocks \union {None}]
      BY <2>2, <3>1 DEF Shape
    <3>3. pc' \in [Requests -> Stages]
      BY <2>2 DEF Shape, Goto, Stages, Early
    <3>4. holder' \in [Locks -> Requests \union {None}]
      BY <2>2 DEF Shape, Release, Locks
    <3> QED
      BY <1>4, <2>2, <3>2, <3>3, <3>4 DEF Hydrate, Shape, kvVars, contVars
  <2> QED
    BY <2>1, <2>2
<1>5. CASE Restore(p)
  <2>1. Cont!Restore(PreviousId(p), Body[p].conversation, ToolCallId(p))
            \in Cont!ContinuationEntry \union {None}
    BY DEF Shape, Cont!Restore, Cont!Get
  <2>2. hit' \in [Requests -> Cont!ContinuationEntry \union {None}]
    BY <1>5, <2>1 DEF Restore, Shape
  <2>3. pc' \in [Requests -> Stages] /\ holder' \in [Locks -> Requests \union {None}]
    BY <1>5 DEF Restore, Shape, Goto, Release, Stages, Early, Locks
  <2> QED
    BY <1>5, <2>2, <2>3 DEF Restore, Shape, kvVars, contVars
<1>6. CASE LoadContinuation(p)
  <2>1. checkpoint' \in Snapshots
    BY <1>6 DEF LoadContinuation, Shape, Cont!ContinuationEntry
  <2>2. pc' \in [Requests -> Stages]
    BY <1>6 DEF LoadContinuation, Shape, Goto, Stages, Early
  <2> QED
    BY <1>6, <2>1, <2>2 DEF LoadContinuation, Shape, kvVars, contVars
<1>7. CASE ShortCircuit(p)
  <2> PICK ms \in Readings :
          clock' = ms /\ resp' = [resp EXCEPT ![p] = Envelope(p, ms, TRUE, <<>>, <<>>)]
    BY <1>7 DEF ShortCircuit
  <2>1. ms \in Nat
    BY ReadingIsLater DEF Shape
  <2>2. Envelope(p, ms, TRUE, <<>>, <<>>) \in ResponseEnvelope
    BY <2>1, EnvelopeIsOne DEF Snapshots
  <2>3. resp' \in [Requests -> ResponseEnvelope \union {None}]
    BY <2>2 DEF Shape
  <2>4. pc' \in [Requests -> Stages]
    BY <1>7 DEF ShortCircuit, Shape, Goto, Stages, Keeping
  <2> QED
    BY <1>7, <2>1, <2>3, <2>4 DEF ShortCircuit, Shape, kvVars, contVars
<1>8. CASE Gate(p) \/ SyncErr(p)
  BY <1>8, AnswerShape DEF Gate, SyncErr, Shape, kvVars, contVars
<1>9. CASE Sync(p)
  <2>1. checkpoint' \in Snapshots
    BY <1>9, RenderedIsPrompt DEF Sync, SyncResult, Snapshots
  <2>2. pc' \in [Requests -> Stages]
    BY <1>9 DEF Sync, Shape, Goto, Stages
  <2>3. clock' \in Nat /\ resp' \in [Requests -> ResponseEnvelope \union {None}]
    <3>1. CASE StreamsChat(p)
      <4> PICK ms \in Readings :
              clock' = ms /\ resp' = [resp EXCEPT ![p] = Envelope(p, ms, FALSE, <<>>, <<>>)]
        BY <1>9, <3>1 DEF Sync
      <4>1. ms \in Nat
        BY ReadingIsLater DEF Shape
      <4>2. Envelope(p, ms, FALSE, <<>>, <<>>) \in ResponseEnvelope
        BY <4>1, EnvelopeIsOne DEF Snapshots
      <4> QED
        BY <4>1, <4>2 DEF Shape
    <3>2. CASE ~StreamsChat(p)
      BY <1>9, <3>2 DEF Sync, Shape
    <3> QED
      BY <3>1, <3>2
  <2> QED
    BY <1>9, <2>1, <2>2, <2>3 DEF Sync, Shape, kvVars, contVars
<1>10. pc[p] = "generate" => checkpoint \o Generated(checkpoint) \in Snapshots
  BY RenderedIsPrompt DEF SessionIsOwn, Snapshots
<1>11. CASE Generate(p)
  <2> PICK ms \in Readings : clock' = ms /\ resp' = [resp EXCEPT ![p] = Final(p, ms)]
    BY <1>11 DEF Generate, Final
  <2>1. ms \in Nat
    BY ReadingIsLater DEF Shape
  <2>2. resp' \in [Requests -> ResponseEnvelope \union {None}]
    BY <1>11, <2>1, FinalIsEnvelope DEF Generate, Shape
  <2>3. pc' \in [Requests -> Stages]
    BY <1>11 DEF Generate, Shape, Goto, Stages, Keeping
  <2> QED
    BY <1>10, <1>11, <2>1, <2>2, <2>3 DEF Generate, Shape, kvVars, contVars
<1>12. CASE GenerateErr(p)
  BY <1>10, <1>12, AnswerShape DEF GenerateErr, Shape, kvVars, contVars
<1>13. CASE Panic(p)
  <2>1. checkpoint' \in Snapshots
    <3>1. CASE pc[p] = "loading"
      <4>1. hit[p] \in Cont!ContinuationEntry
        BY <1>13, <3>1 DEF Panic, Shape
      <4> QED
        BY <1>13, <3>1, <4>1 DEF Panic, Cont!ContinuationEntry
    <3>2. CASE pc[p] # "loading"
      BY <1>10, <1>13, <3>2, RenderedIsPrompt DEF Panic, SyncResult, Snapshots, Shape
    <3> QED
      BY <3>1, <3>2
  <2> QED
    BY <1>13, <2>1, AnswerShape DEF Panic, Shape, kvVars, contVars
<1>14. CASE Store(p)
  <2>1. \A k \in DOMAIN by_key' : BlocksIn(by_key'[k].replay)
    BY <1>14, VisibleEntryBlocks DEF Store, Shape, Kv!Insert
  <2>2. \A t \in DOMAIN disk' : BlocksIn(disk'[t].entry.replay)
    BY <1>14, WriteFileBlocks DEF Store
  <2>3. pc' \in [Requests -> Stages] /\ holder' \in [Locks -> Requests \union {None}]
    BY <1>14 DEF Store, Shape, Goto, Release, Stages, Keeping, Locks
  <2> QED
    BY <1>14, <2>1, <2>2, <2>3 DEF Store, Shape, contVars
<1>15. CASE \E cut \in Tears : StoreErr(p, cut)
  <2> PICK cut \in Tears : StoreErr(p, cut)
    BY <1>15
  <2>1. \A t \in DOMAIN disk' : BlocksIn(disk'[t].entry.replay)
    BY WriteFileBlocks DEF StoreErr
  <2> QED
    BY <2>1, AnswerShape DEF StoreErr, Shape, contVars
<1>16. CASE Remember(p)
  <2>1. resp[p] # None /\ RememberedEntry(p) \in Cont!ContinuationEntry
    BY <1>16, RememberedIsEntry DEF Remember, SessionIsOwn, Keeping
  <2>2. \A id \in DOMAIN by_id' : by_id'[id] \in Cont!ContinuationEntry
    BY <1>16, <2>1 DEF Remember, Shape, Cont!Remember, Cont!Insert
  <2> QED
    BY <1>16, <2>1, <2>2, AnswerShape DEF Remember, Shape, kvVars
<1> QED
  BY <1>1, <1>2, <1>3, <1>4, <1>5, <1>6, <1>7, <1>8, <1>9, <1>11, <1>12, <1>13,
     <1>14, <1>15, <1>16 DEF Step, Handle

-----------------------------------------------------------------------------
(* The mutexes.                                                            *)

GuardedAt(p) ==
    /\ pc[p] \in Serving => holder["session"] = p
    /\ pc[p] \in {"hydrating", "storing"} => holder["kv"] = p
    /\ pc[p] \in {"restoring", "remembering"} => holder["continuations"] = p

\* A request takes a free mutex, drops its own, and still holds what its next
\* stage needs.
LEMMA StepLocks ==
    ASSUME CoreInv, NEW p \in Requests, Step(p)
    PROVE  /\ \A l \in Locks : holder[l] \notin {None, p} => holder'[l] = holder[l]
           /\ GuardedAt(p)'
<1> USE DEF CoreInv, Shape, GuardedAt
<1>0. GuardedAt(p)
  BY DEF Guarded
<1>1. CASE Arrive(p)
  BY <1>1 DEF Arrive, Goto, Serving
<1>2. CASE Acquire(p)
  <2>1. \A l \in Locks : holder[l] \notin {None, p} => holder'[l] = holder[l]
    BY <1>2 DEF Acquire, Wants, Locks
  <2>2. CASE pc[p] = "hydrate"
    BY <1>2, <2>2, <1>0 DEF Acquire, Wants, Granted, Serving, Locks
  <2>3. CASE pc[p] = "restore"
    BY <1>2, <2>3, <1>0 DEF Acquire, Wants, Granted, Serving, Locks
  <2>4. CASE pc[p] = "session"
    BY <1>2, <2>4, <1>0 DEF Acquire, Wants, Granted, Serving, Locks
  <2>5. CASE pc[p] = "store"
    BY <1>2, <2>5, <1>0 DEF Acquire, Wants, Granted, Serving, Locks
  <2>6. CASE pc[p] = "remember"
    BY <1>2, <2>6, <1>0 DEF Acquire, Wants, Granted, Serving, Locks
  <2> QED
    BY <1>2, <2>1, <2>2, <2>3, <2>4, <2>5, <2>6 DEF Acquire, Wants
<1>3. ASSUME NEW code, Answer(p, code)
      PROVE  /\ \A l \in Locks : holder[l] \notin {None, p} => holder'[l] = holder[l]
             /\ GuardedAt(p)'
  BY <1>3 DEF Answer, Goto, Serving
<1>4. CASE LockErr(p) \/ Gate(p) \/ SyncErr(p) \/ GenerateErr(p) \/ Remember(p)
  BY <1>3, <1>4 DEF LockErr, Gate, SyncErr, GenerateErr, Remember
<1>5. CASE Panic(p)
  BY <1>3, <1>5 DEF Panic
<1>6. CASE \E cut \in Tears : StoreErr(p, cut)
  BY <1>3, <1>6 DEF StoreErr
<1>7. CASE Hydrate(p)
  <2>1. CASE Answer(p, 500)
    BY <1>3, <2>1
  <2>2. CASE Goto(p, "restore") /\ Release("kv")
    BY <1>0, <1>7, <2>2 DEF Hydrate, Goto, Release, Serving, Locks
  <2> QED
    BY <1>7, <2>1, <2>2 DEF Hydrate
<1>8. CASE Restore(p)
  BY <1>0, <1>8 DEF Restore, Goto, Release, Serving, Locks
<1>9. CASE LoadContinuation(p)
  BY <1>0, <1>9 DEF LoadContinuation, Goto, Serving
<1>10. CASE ShortCircuit(p)
  BY <1>0, <1>10 DEF ShortCircuit, Goto, Serving
<1>11. CASE Sync(p)
  BY <1>0, <1>11 DEF Sync, Goto, Serving
<1>12. CASE Generate(p)
  BY <1>0, <1>12 DEF Generate, Goto, Serving
<1>13. CASE Store(p)
  BY <1>0, <1>13 DEF Store, Goto, Release, Serving, Locks
<1> QED
  BY <1>1, <1>2, <1>4, <1>5, <1>6, <1>7, <1>8, <1>9, <1>10, <1>11, <1>12, <1>13
     DEF Step, Handle

\* The guards are kept by every step of a request.
LEMMA GuardedStep ==
    ASSUME CoreInv, NEW p \in Requests, Step(p)
    PROVE  Guarded'
<1> SUFFICES ASSUME NEW q \in Requests
             PROVE  GuardedAt(q)'
  BY DEF Guarded, GuardedAt
<1>1. CASE q = p
  BY <1>1, StepLocks
<1>2. CASE q # p
  <2>1. pc'[q] = pc[q]
    BY <1>2, StepFrame DEF CoreInv, Frame
  <2>2. \A l \in Locks : holder[l] = q => holder'[l] = q
    BY <1>2, StepLocks, NoneAssumption
  <2> QED
    BY <2>1, <2>2 DEF CoreInv, Guarded, GuardedAt, Locks
<1> QED
  BY <1>1, <1>2

\* The session is one request's at a time.
LEMMA OneInSession ==
    ASSUME Guarded, NEW p \in Requests, NEW q \in Requests,
           pc[p] \in Serving, pc[q] \in Serving
    PROVE  p = q
BY DEF Guarded

\* A session that was poisoned stays empty.
LEMMA PoisonedStep ==
    ASSUME CoreInv, NEW p \in Requests, Step(p)
    PROVE  PoisonedIsEmpty'
<1> USE DEF CoreInv
<1>1. CASE pc[p] \in Serving
  <2>1. ~poisoned
    BY <1>1 DEF PoisonedIsEmpty
  <2>2. \A q \in Requests \ {p} : pc'[q] \notin Serving
    BY <1>1, OneInSession, StepFrame DEF Frame
  <2>3. poisoned' => pc'[p] = "done"
    <3>1. CASE Panic(p)
      BY <3>1 DEF Panic, Answer, Goto, Shape
    <3>2. CASE UNCHANGED poisoned
      BY <2>1, <3>2
    <3>3. Panic(p) \/ UNCHANGED poisoned
      BY DEF Step, Handle, Arrive, Acquire, LockErr, Hydrate, Restore, LoadContinuation,
             ShortCircuit, Gate, SyncErr, Sync, Generate, GenerateErr, Store, StoreErr,
             Remember
    <3> QED
      BY <3>1, <3>2, <3>3
  <2> QED
    BY <2>2, <2>3 DEF PoisonedIsEmpty, Serving
<1>2. CASE pc[p] \notin Serving
  <2>1. poisoned' = poisoned
    BY <1>2, StepOutside
  <2>2. \A q \in Requests \ {p} : pc'[q] = pc[q]
    BY StepFrame DEF Frame
  <2>3. poisoned => pc'[p] \notin Serving
    <3> SUFFICES ASSUME poisoned, pc'[p] \in Serving PROVE FALSE
      OBVIOUS
    <3>1. pc[p] = "session" /\ pc'[p] = "loading"
      BY <1>2, StepMoves DEF Moves, Serving, Shape, Stages, Early, Keeping
    <3>2. Acquire(p) \/ LockErr(p)
      BY <3>1 DEF Step, Handle, Arrive, Hydrate, Restore, LoadContinuation,
             ShortCircuit, Gate, SyncErr, Sync, Generate, GenerateErr, Panic, Store,
             StoreErr, Remember
    <3> QED
      BY <3>1, <3>2 DEF Acquire, LockErr, Wants, Answer, Goto, Shape
  <2> QED
    BY <2>1, <2>2, <2>3 DEF PoisonedIsEmpty
<1> QED
  BY <1>1, <1>2

-----------------------------------------------------------------------------
(* The session and the envelope.                                           *)

SessionOwnAt(p) ==
    /\ pc[p] \in Early => resp[p] = None
    /\ pc[p] = "generate" =>
          /\ checkpoint = Rendered(p)
          /\ ~Body[p].plan
          /\ resp[p] = None <=> ~StreamsChat(p)
          /\ resp[p] # None => resp[p].gen = <<>>
    /\ pc[p] \in Keeping =>
          /\ resp[p] # None
          /\ resp[p].call \/ checkpoint = resp[p].from \o resp[p].gen
    /\ resp[p] # None =>
          /\ resp[p].call = Body[p].plan
          /\ resp[p].call \/ ~StreamsChat(p) => resp[p].sent = resp[p].id
    /\ (resp[p] # None /\ resp[p].gen # <<>>) => resp[p].from = Rendered(p)

\* Nobody else's step reaches the session or the envelope of a request.
LEMMA SessionOfOthers ==
    ASSUME CoreInv, NEW p \in Requests, Step(p), NEW q \in Requests, q # p
    PROVE  SessionOwnAt(q)'
<1> USE DEF CoreInv
<1>1. pc'[q] = pc[q] /\ resp'[q] = resp[q] /\ replay'[q] = replay[q]
  BY StepFrame DEF Frame
<1>2. Rendered(q)' = Rendered(q)
  BY <1>1 DEF Rendered
<1>3. pc[q] \in Serving => checkpoint' = checkpoint
  BY OneInSession, StepOutside
<1> QED
  BY <1>1, <1>2, <1>3 DEF SessionIsOwn, ReplyIsOwn, SessionOwnAt, Keeping, Serving

\* The request's own step leaves the session as its next stage expects it.
LEMMA SessionOfStep ==
    ASSUME CoreInv, NEW p \in Requests, Step(p)
    PROVE  SessionOwnAt(p)'
<1> USE DEF CoreInv
<1>0. SessionOwnAt(p)
  BY DEF SessionIsOwn, ReplyIsOwn, SessionOwnAt
<1>a. ASSUME resp' = resp, replay' = replay, checkpoint' = checkpoint,
             \/ pc[p] \in Early /\ pc'[p] \in Early
             \/ pc[p] \in Keeping /\ pc'[p] \in Keeping
      PROVE  SessionOwnAt(p)'
  BY <1>0, <1>a DEF SessionOwnAt, Rendered, Early, Keeping
<1>b. ASSUME resp' = resp, replay' = replay, pc'[p] = "done"
      PROVE  SessionOwnAt(p)'
  BY <1>0, <1>b DEF SessionOwnAt, Rendered, Early, Keeping
<1>c. ASSUME resp'[p] = None, pc'[p] \in Early
      PROVE  SessionOwnAt(p)'
  BY <1>c DEF SessionOwnAt, Early, Keeping
<1>d. ASSUME NEW code, Answer(p, code)
      PROVE  pc'[p] = "done"
  BY <1>d DEF Answer, Goto, Shape
<1>1. CASE Arrive(p)
  BY <1>0, <1>1, <1>c DEF Arrive, Goto, Shape, Early, SessionOwnAt
<1>2. CASE Acquire(p)
  <2>1. \/ pc[p] \in Early /\ pc'[p] \in Early
        \/ pc[p] \in Keeping /\ pc'[p] \in Keeping
    BY <1>2 DEF Acquire, Wants, Granted, Early, Keeping, Shape
  <2> QED
    BY <1>2, <1>a, <2>1 DEF Acquire
<1>3. CASE LockErr(p) \/ Gate(p) \/ SyncErr(p) \/ GenerateErr(p) \/ Remember(p)
  BY <1>3, <1>b, <1>d DEF LockErr, Gate, SyncErr, GenerateErr, Remember
<1>4. CASE Panic(p)
  BY <1>4, <1>b, <1>d DEF Panic
<1>5. CASE \E cut \in Tears : StoreErr(p, cut)
  BY <1>5, <1>b, <1>d DEF StoreErr
<1>6. CASE Hydrate(p)
  <2>1. resp'[p] = None
    BY <1>0, <1>6 DEF Hydrate, SessionOwnAt, Early
  <2>2. pc'[p] \in Early \union {"done"}
    BY <1>6, <1>d DEF Hydrate, Goto, Shape, Early
  <2> QED
    BY <2>1, <2>2 DEF SessionOwnAt, Early, Keeping
<1>7. CASE Restore(p) \/ LoadContinuation(p)
  BY <1>0, <1>7, <1>c DEF Restore, LoadContinuation, Goto, Shape, Early, SessionOwnAt
<1>8. CASE ShortCircuit(p)
  <2> PICK ms \in Readings :
          resp' = [resp EXCEPT ![p] = Envelope(p, ms, TRUE, <<>>, <<>>)]
    BY <1>8 DEF ShortCircuit
  <2>1. resp'[p] = Envelope(p, ms, TRUE, <<>>, <<>>)
    BY DEF Shape
  <2>2. resp'[p] \in ResponseEnvelope
    BY <2>1, EnvelopeIsOne, ReadingIsLater DEF Shape, Snapshots
  <2>3. resp'[p] # None
    BY <2>2, NoneAssumption
  <2>4. pc'[p] = "store" /\ Body[p].plan = TRUE
    BY <1>8, BodyAssumption DEF ShortCircuit, Goto, Shape
  <2>5. resp'[p].call = TRUE /\ resp'[p].gen = <<>> /\ resp'[p].sent = resp'[p].id
    BY <2>1 DEF Envelope
  <2> QED
    BY <2>3, <2>4, <2>5 DEF SessionOwnAt, Early, Keeping
<1>9. CASE Sync(p)
  <2>1. checkpoint' = Rendered(p)' /\ pc'[p] = "generate" /\ Body[p].plan = FALSE
    BY <1>9, BodyAssumption DEF Sync, SyncResult, Rendered, Goto, Shape
  <2>2. CASE ~StreamsChat(p)
    <3>1. resp'[p] = None
      BY <1>0, <1>9, <2>2 DEF Sync, SessionOwnAt, Early
    <3> QED
      BY <2>1, <2>2, <3>1 DEF SessionOwnAt, Early, Keeping
  <2>3. CASE StreamsChat(p)
    <3> PICK ms \in Readings :
            resp' = [resp EXCEPT ![p] = Envelope(p, ms, FALSE, <<>>, <<>>)]
      BY <1>9, <2>3 DEF Sync
    <3>1. resp'[p] = Envelope(p, ms, FALSE, <<>>, <<>>)
      BY DEF Shape
    <3>2. resp'[p] \in ResponseEnvelope
      BY <3>1, EnvelopeIsOne, ReadingIsLater DEF Shape, Snapshots
    <3>3. resp'[p] # None
      BY <3>2, NoneAssumption
    <3>4. resp'[p].call = FALSE /\ resp'[p].gen = <<>>
      BY <3>1 DEF Envelope
    <3> QED
      BY <2>1, <2>3, <3>3, <3>4 DEF SessionOwnAt, Early, Keeping
  <2> QED
    BY <2>2, <2>3
<1>10. CASE Generate(p)
  <2> PICK ms \in Readings : resp' = [resp EXCEPT ![p] = Final(p, ms)]
    BY <1>10 DEF Generate, Final
  <2>0. resp'[p] = Final(p, ms)
    BY DEF Shape
  <2>1. /\ resp'[p].call = FALSE
        /\ resp'[p].from = checkpoint
        /\ resp'[p].gen = Generated(checkpoint)
        /\ ~StreamsChat(p) => resp'[p].sent = resp'[p].id
    BY <2>0 DEF Final, Envelope
  <2>2. resp'[p] # None
    BY <1>10, <2>0, FinalIsEnvelope, ReadingIsLater, NoneAssumption DEF Generate, Shape
  <2>3. pc'[p] = "store" /\ Body[p].plan = FALSE
    BY <1>0, <1>10, BodyAssumption DEF Generate, Goto, Shape, SessionOwnAt
  <2>4. checkpoint' = checkpoint \o Generated(checkpoint)
    BY <1>10 DEF Generate
  <2>5. checkpoint = Rendered(p)'
    BY <1>0, <1>10 DEF Generate, SessionOwnAt, Rendered
  <2> QED
    BY <2>1, <2>2, <2>3, <2>4, <2>5 DEF SessionOwnAt, Early, Keeping
<1>11. CASE Store(p)
  BY <1>11, <1>a DEF Store, Goto, Shape, Keeping
<1> QED
  BY <1>1, <1>2, <1>3, <1>4, <1>5, <1>6, <1>7, <1>8, <1>9, <1>10, <1>11 DEF Step, Handle

\* The session of the request that holds it is its own, and so is its reply.
LEMMA SessionStep ==
    ASSUME CoreInv, NEW p \in Requests, Step(p)
    PROVE  SessionIsOwn' /\ ReplyIsOwn'
<1>1. \A q \in Requests : SessionOwnAt(q)'
  BY SessionOfOthers, SessionOfStep
<1> QED
  BY <1>1 DEF SessionIsOwn, ReplyIsOwn, SessionOwnAt

-----------------------------------------------------------------------------
(* The answers, and what is remembered of them.                            *)

\* A request is answered when it ends, and with 200 only once it has been
\* remembered.
LEMMA StepAnswers ==
    ASSUME CoreInv, NEW p \in Requests, Step(p)
    PROVE  \/ answer' = answer
           \/ /\ pc'[p] = "done" /\ resp' = resp
              /\ answer'[p].boot = boot
              /\ answer'[p].code = 200 => Remember(p) /\ answer'[p].id = resp[p].sent
<1> USE DEF CoreInv, Shape
<1>1. ASSUME NEW code, Answer(p, code)
      PROVE  /\ pc'[p] = "done"
             /\ answer'[p].boot = boot /\ answer'[p].code = code
             /\ code = 200 => answer'[p].id = resp[p].sent
  BY <1>1 DEF Answer, Goto
<1>2. CASE Remember(p)
  BY <1>1, <1>2 DEF Remember
<1>3. CASE LockErr(p) \/ Gate(p) \/ SyncErr(p) \/ GenerateErr(p)
  BY <1>1, <1>3 DEF LockErr, Gate, SyncErr, GenerateErr
<1>4. CASE Panic(p)
  BY <1>1, <1>4 DEF Panic
<1>5. CASE Hydrate(p)
  BY <1>1, <1>5 DEF Hydrate
<1>6. CASE \E cut \in Tears : StoreErr(p, cut)
  BY <1>1, <1>6 DEF StoreErr
<1>7. CASE Arrive(p) \/ Acquire(p) \/ Restore(p) \/ LoadContinuation(p)
  BY <1>7 DEF Arrive, Acquire, Restore, LoadContinuation
<1>8. CASE ShortCircuit(p) \/ Sync(p) \/ Generate(p) \/ Store(p)
  BY <1>8 DEF ShortCircuit, Sync, Generate, Store
<1> QED
  BY <1>2, <1>3, <1>4, <1>5, <1>6, <1>7, <1>8 DEF Step, Handle

\* An answered request is no longer touched.
LEMMA AnsweredIsStable ==
    ASSUME CoreInv, NEW p \in Requests, Step(p), NEW q \in Requests, answer[q] # None
    PROVE  /\ q # p /\ answer'[q] = answer[q] /\ resp'[q] = resp[q]
           /\ Answered(q)' = Answered(q)
<1>1. q # p
  BY StepMoves DEF CoreInv, AnswersAreFinal
<1> QED
  BY <1>1, StepFrame DEF CoreInv, Frame, Answered

\* Answers are final, and a reference stays good.
LEMMA AnswersStep ==
    ASSUME CoreInv, NEW p \in Requests, Step(p)
    PROVE  AnswersAreFinal'
<1> USE DEF CoreInv
<1> SUFFICES ASSUME NEW r \in Requests
             PROVE  /\ answer'[r] # None => pc'[r] = "done" /\ answer'[r].boot <= boot'
                    /\ (answer'[r] # None /\ answer'[r].code = 200) =>
                          resp'[r] # None /\ answer'[r].id = resp'[r].sent
                    /\ (pc'[r] # "idle" /\ Body[r].after # None) =>
                          /\ answer'[Body[r].after] # None
                          /\ answer'[Body[r].after].code = 200
  BY DEF AnswersAreFinal
<1>1. answer'[r] # None => pc'[r] = "done" /\ answer'[r].boot <= boot'
  <2>1. CASE r # p
    BY <2>1, StepFrame DEF Frame, AnswersAreFinal
  <2>2. CASE r = p
    <3>1. answer[p] = None
      BY StepMoves DEF AnswersAreFinal
    <3>2. boot' = boot /\ boot \in Nat
      BY StepFrame DEF Frame, Shape
    <3> QED
      BY <2>2, <3>1, <3>2, StepAnswers
  <2> QED
    BY <2>1, <2>2
<1>2. (answer'[r] # None /\ answer'[r].code = 200) =>
          resp'[r] # None /\ answer'[r].id = resp'[r].sent
  <2>1. CASE r # p
    BY <2>1, StepFrame DEF Frame, AnswersAreFinal
  <2>2. CASE r = p
    <3>1. answer[p] = None
      BY StepMoves DEF AnswersAreFinal
    <3>2. Remember(p) => resp[p] # None
      BY DEF Remember, SessionIsOwn, Keeping
    <3> QED
      BY <2>2, <3>1, <3>2, StepAnswers
  <2> QED
    BY <2>1, <2>2
<1>3. ASSUME pc'[r] # "idle", Body[r].after # None
      PROVE  answer'[Body[r].after] # None /\ answer'[Body[r].after].code = 200
  <2>1. Body[r].after \in Requests
    BY <1>3, BodyAssumption
  <2>2. answer[Body[r].after] # None /\ answer[Body[r].after].code = 200
    <3>1. CASE pc[r] # "idle"
      BY <1>3, <3>1 DEF AnswersAreFinal
    <3>2. CASE pc[r] = "idle"
      <4>1. r = p
        BY <1>3, <3>2, StepFrame DEF Frame
      <4>2. Arrive(p)
        BY <3>2, <4>1 DEF Step, Handle, Acquire, Wants, LockErr, Hydrate, Restore,
              LoadContinuation, ShortCircuit, Gate, SyncErr, Sync, Generate, GenerateErr,
              Panic, Store, StoreErr, Remember
      <4> QED
        BY <1>3, <4>1, <4>2 DEF Arrive
    <3> QED
      BY <3>1, <3>2
  <2> QED
    BY <2>1, <2>2, AnsweredIsStable
<1> QED
  BY <1>1, <1>2, <1>3

\* The continuation store is written by the last stage only.
LEMMA StepRemembers ==
    ASSUME NEW p \in Requests, Step(p), ~Remember(p)
    PROVE  UNCHANGED contVars
BY DEF Step, Handle, Arrive, Acquire, LockErr, Hydrate, Restore, LoadContinuation,
       ShortCircuit, Gate, SyncErr, Sync, Generate, GenerateErr, Panic, Store, StoreErr

\* The maps after remember_continuation.
LEMMA RememberMaps ==
    ASSUME CoreInv, NEW p \in Requests, Remember(p)
    PROVE  /\ DOMAIN by_id' = DOMAIN by_id \union {resp[p].id}
           /\ by_id'[resp[p].id] = RememberedEntry(p)
           /\ \A x \in DOMAIN by_id : x # resp[p].id => by_id'[x] = by_id[x]
           /\ Answered(p)' /\ resp' = resp /\ resp[p] # None
           /\ resp[p].call \/ checkpoint = resp[p].from \o resp[p].gen
<1> USE DEF CoreInv
<1>1. resp[p] # None /\ (resp[p].call \/ checkpoint = resp[p].from \o resp[p].gen)
  BY DEF Remember, SessionIsOwn, Keeping
<1>2. RememberedEntry(p).response_id = resp[p].id
  BY DEF RememberedEntry
<1>3. /\ DOMAIN by_id' = DOMAIN by_id \union {resp[p].id}
      /\ by_id'[resp[p].id] = RememberedEntry(p)
      /\ \A x \in DOMAIN by_id : x # resp[p].id => by_id'[x] = by_id[x]
  BY <1>2 DEF Remember, Cont!Remember, Cont!Insert
<1>4. answer'[p] = [code |-> 200, boot |-> boot, id |-> resp[p].sent] /\ boot' = boot
  BY DEF Remember, Answer, Shape
<1>5. answer'[p] \in HttpAnswer
  BY <1>1, <1>4 DEF Shape, ResponseEnvelope, HttpAnswer
<1>6. Answered(p)'
  BY <1>4, <1>5, NoneAssumption DEF Answered
<1> QED
  BY <1>1, <1>3, <1>6 DEF Remember

\* Every continuation is that of an answer of this process.
LEMMA EntriesStep ==
    ASSUME CoreInv, NEW p \in Requests, Step(p)
    PROVE  EntriesAreAnswers'
<1> USE DEF CoreInv
<1> DEFINE Source(id, q) == /\ Answered(q)
                            /\ resp[q].id = id
                            /\ by_id[id].conversation = Body[q].conversation
                            /\ resp[q].call \/ by_id[id].snapshot = resp[q].from \o resp[q].gen
<1> SUFFICES ASSUME NEW id \in DOMAIN by_id'
             PROVE  by_id'[id].response_id = id /\ \E q \in Requests : Source(id, q)'
  BY DEF EntriesAreAnswers
<1>1. ASSUME id \in DOMAIN by_id, by_id'[id] = by_id[id]
      PROVE  by_id'[id].response_id = id /\ \E q \in Requests : Source(id, q)'
  <2> PICK q \in Requests : Source(id, q)
    BY <1>1 DEF EntriesAreAnswers
  <2>1. answer[q] # None
    BY DEF Answered
  <2>2. resp'[q] = resp[q] /\ Answered(q)'
    BY <2>1, AnsweredIsStable
  <2> QED
    BY <1>1, <2>2 DEF EntriesAreAnswers
<1>2. CASE ~Remember(p)
  BY <1>1, <1>2, StepRemembers DEF contVars
<1>3. CASE Remember(p) /\ id # resp[p].id
  BY <1>1, <1>3, RememberMaps
<1>4. CASE Remember(p) /\ id = resp[p].id
  <2>1. /\ by_id'[id].response_id = id
        /\ by_id'[id].conversation = Body[p].conversation
        /\ by_id'[id].snapshot = checkpoint
    <3>1. by_id'[id] = RememberedEntry(p)
      BY <1>4, RememberMaps
    <3> QED
      BY <1>4, <3>1 DEF RememberedEntry
  <2>2. Answered(p)' /\ resp'[p] = resp[p]
    BY <1>4, RememberMaps
  <2>3. resp[p].call \/ checkpoint = resp[p].from \o resp[p].gen
    BY <1>4, RememberMaps
  <2>4. Source(id, p)'
    BY <1>4, <2>1, <2>2, <2>3
  <2> QED
    BY <2>1, <2>4
<1> QED
  BY <1>2, <1>3, <1>4

-----------------------------------------------------------------------------
(* The restart of the process, and the first three results.                *)

\* A restarted process has nobody in it and nothing in memory.
LEMMA RestartedServer ==
    ASSUME CoreInv, Restart
    PROVE  /\ \A p \in Requests : pc'[p] = IF pc[p] = "idle" THEN "idle" ELSE "done"
           /\ \A p \in Requests : answer[p] # None =>
                 answer'[p] = answer[p] /\ answer[p].boot < boot'
           /\ \A p \in Requests : answer'[p] # answer[p] =>
                 /\ pc'[p] = "done" /\ answer'[p].boot < boot'
                 /\ answer'[p].code # 200
           /\ \A p \in Requests : ~Answered(p)'
           /\ boot \in Nat /\ boot' = boot + 1
<1> USE DEF CoreInv
<1>1. boot \in Nat /\ boot' = boot + 1
  BY DEF Restart, Shape
<1>2. \A p \in Requests : pc'[p] = IF pc[p] = "idle" THEN "idle" ELSE "done"
  BY DEF Restart
<1>3. \A p \in Requests : answer[p] # None =>
          answer'[p] = answer[p] /\ answer[p].boot <= boot /\ answer[p].boot \in Nat
  BY DEF Restart, AnswersAreFinal, Shape, HttpAnswer
<1>4. \A p \in Requests : answer'[p] # answer[p] =>
          pc'[p] = "done" /\ answer'[p].boot = boot /\ answer'[p].code = 0
  BY <1>2 DEF Restart
<1>5. \A p \in Requests : ~Answered(p)'
  BY <1>1, <1>3, <1>4 DEF Answered
<1> QED
  BY <1>1, <1>2, <1>3, <1>4, <1>5

\* The restart keeps the invariant.
LEMMA CoreRestart ==
    ASSUME CoreInv, Restart
    PROVE  CoreInv'
<1> USE DEF CoreInv
<1>0. \A p \in Requests : pc'[p] \in {"idle", "done"}
  BY RestartedServer
<1>1. Shape'
  <2>1. [code |-> 0, boot |-> boot, id |-> None] \in HttpAnswer
    BY DEF Shape, HttpAnswer
  <2>2. answer' \in [Requests -> HttpAnswer \union {None}]
    BY <2>1 DEF Restart, Shape
  <2>3. pc' \in [Requests -> Stages] /\ holder' \in [Locks -> Requests \union {None}]
    BY DEF Restart, Shape, Stages, Early
  <2>4. checkpoint' \in Snapshots /\ boot' \in Nat
    BY DEF Restart, Shape, Snapshots
  <2> QED
    BY <2>2, <2>3, <2>4 DEF Restart, Shape
<1>2. Guarded' /\ PoisonedIsEmpty'
  BY <1>0 DEF Guarded, PoisonedIsEmpty, Serving
<1>3. SessionIsOwn'
  <2> SUFFICES ASSUME NEW p \in Requests
               PROVE  /\ pc'[p] \in Early => resp'[p] = None
                      /\ pc'[p] # "generate" /\ pc'[p] \notin Keeping
                      /\ resp'[p] # None =>
                            /\ resp'[p].call = Body[p].plan
                            /\ resp'[p].call \/ ~StreamsChat(p) => resp'[p].sent = resp'[p].id
    BY DEF SessionIsOwn
  <2>1. resp' = resp
    BY DEF Restart
  <2>2. /\ pc[p] \in Early => resp[p] = None
        /\ resp[p] # None =>
              /\ resp[p].call = Body[p].plan
              /\ resp[p].call \/ ~StreamsChat(p) => resp[p].sent = resp[p].id
    BY DEF SessionIsOwn
  <2>3. pc'[p] = IF pc[p] = "idle" THEN "idle" ELSE "done"
    BY RestartedServer
  <2>4. pc'[p] # "generate" /\ pc'[p] \notin Keeping /\ (pc'[p] \in Early => pc[p] \in Early)
    BY <2>3 DEF Early, Keeping
  <2> QED
    BY <2>1, <2>2, <2>4
<1>4. ReplyIsOwn'
  BY DEF Restart, ReplyIsOwn, Rendered
<1>5. AnswersAreFinal'
  <2> SUFFICES ASSUME NEW r \in Requests
               PROVE  /\ answer'[r] # None => pc'[r] = "done" /\ answer'[r].boot <= boot'
                      /\ (answer'[r] # None /\ answer'[r].code = 200) =>
                            resp'[r] # None /\ answer'[r].id = resp'[r].sent
                      /\ (pc'[r] # "idle" /\ Body[r].after # None) =>
                            /\ answer'[Body[r].after] # None
                            /\ answer'[Body[r].after].code = 200
    BY DEF AnswersAreFinal
  <2>1. answer'[r] # None => pc'[r] = "done" /\ answer'[r].boot <= boot'
    <3>1. CASE answer'[r] = answer[r]
      BY <3>1, RestartedServer DEF AnswersAreFinal, Shape, HttpAnswer
    <3>2. CASE answer'[r] # answer[r]
      <4>1. answer'[r].boot = boot
        BY <3>2 DEF Restart
      <4> QED
        BY <3>2, <4>1, RestartedServer
    <3> QED
      BY <3>1, <3>2
  <2>2. (answer'[r] # None /\ answer'[r].code = 200) =>
            resp'[r] # None /\ answer'[r].id = resp'[r].sent
    BY RestartedServer DEF AnswersAreFinal, Restart
  <2>3. (pc'[r] # "idle" /\ Body[r].after # None) =>
            answer'[Body[r].after] # None /\ answer'[Body[r].after].code = 200
    BY RestartedServer, BodyAssumption DEF AnswersAreFinal
  <2> QED
    BY <2>1, <2>2, <2>3
<1>6. EntriesAreAnswers'
  BY DEF EntriesAreAnswers, Restart
<1> QED
  BY <1>1, <1>2, <1>3, <1>4, <1>5, <1>6

\* The server starts in the invariant.
LEMMA CoreInit == Init => CoreInv
<1> SUFFICES ASSUME Init PROVE CoreInv
  OBVIOUS
<1> USE DEF Init
<1>1. Shape
  BY DEF Shape, Stages, Early, Locks, Snapshots
<1>2. Guarded /\ PoisonedIsEmpty
  BY DEF Guarded, PoisonedIsEmpty, Serving
<1>3. SessionIsOwn /\ ReplyIsOwn
  BY DEF SessionIsOwn, ReplyIsOwn, Early, Keeping
<1>4. AnswersAreFinal /\ EntriesAreAnswers
  BY DEF AnswersAreFinal, EntriesAreAnswers
<1> QED
  BY <1>1, <1>2, <1>3, <1>4 DEF CoreInv

\* A step that changes nothing keeps it.
LEMMA CoreStutter ==
    ASSUME CoreInv, UNCHANGED vars
    PROVE  CoreInv'
<1> USE DEF CoreInv, vars, kvVars, contVars
<1>1. Shape' /\ Guarded' /\ PoisonedIsEmpty'
  BY DEF Shape, Guarded, PoisonedIsEmpty
<1>2. SessionIsOwn' /\ ReplyIsOwn'
  BY DEF SessionIsOwn, ReplyIsOwn, Rendered
<1>3. AnswersAreFinal'
  BY DEF AnswersAreFinal
<1>4. EntriesAreAnswers'
  <2>1. \A p : Answered(p)' = Answered(p)
    BY DEF Answered
  <2> QED
    BY <2>1 DEF EntriesAreAnswers
<1> QED
  BY <1>1, <1>2, <1>3, <1>4

\* Every step keeps it.
LEMMA CoreNext ==
    ASSUME CoreInv, [Next]_vars
    PROVE  CoreInv'
<1>1. ASSUME NEW p \in Requests, Step(p)
      PROVE  CoreInv'
  BY <1>1, ShapeStep, GuardedStep, PoisonedStep, SessionStep, AnswersStep, EntriesStep
     DEF CoreInv
<1>2. CASE Restart
  BY <1>2, CoreRestart
<1>3. CASE Quiet \/ UNCHANGED vars
  BY <1>3, CoreStutter DEF Quiet
<1> QED
  BY <1>1, <1>2, <1>3 DEF Next, Step

\* The invariant of the server, whatever the clock does.
LEMMA CoreAlways == Spec => []CoreInv
BY CoreInit, CoreNext, PTL DEF Spec

\* ReplyIsOwn: handle_api computes a reply from its own rendered prompt,
\* however the requests interleave.
THEOREM ReplyAlwaysOwn == Spec => []ReplyIsOwn
<1>1. CoreInv => ReplyIsOwn
  BY DEF CoreInv
<1> QED
  BY <1>1, CoreAlways, PTL

\* SnapshotIsOwn: what remember_continuation filed under an id is the prompt
\* and the reply of that id, even when ids collide.
THEOREM SnapshotAlwaysOwn == Spec => []SnapshotIsOwn
<1>1. CoreInv => SnapshotIsOwn
  <2> SUFFICES ASSUME CoreInv, NEW id \in DOMAIN by_id
               PROVE  \E p \in Requests :
                          /\ resp[p] # None /\ resp[p].id = id
                          /\ resp[p].call \/ by_id[id].snapshot = resp[p].from \o resp[p].gen
    BY DEF SnapshotIsOwn
  <2> PICK p \in Requests :
          /\ Answered(p)
          /\ resp[p].id = id
          /\ resp[p].call \/ by_id[id].snapshot = resp[p].from \o resp[p].gen
    BY DEF CoreInv, EntriesAreAnswers
  <2>1. resp[p] # None
    BY DEF CoreInv, AnswersAreFinal, Answered
  <2> QED
    BY <2>1
<1> QED
  BY <1>1, CoreAlways, PTL

\* BrokenSessionIsLeft: no request gets into a poisoned session, so none
\* changes it or files anything from it before the next start.
THEOREM BrokenSessionAlwaysLeft == Spec => BrokenSessionIsLeft
<1>1. ASSUME CoreInv, [Next]_vars
      PROVE  [poisoned => \/ ~poisoned'
                          \/ UNCHANGED <<checkpoint, by_key, disk, contVars>>]_vars
  <2>1. ASSUME NEW p \in Requests, Step(p), poisoned
        PROVE  UNCHANGED <<checkpoint, by_key, disk, contVars>>
    <3>1. pc[p] \notin Serving
      BY <1>1, <2>1 DEF CoreInv, PoisonedIsEmpty
    <3> QED
      BY <1>1, <2>1, <3>1, StepOutside DEF CoreInv, kvVars
  <2>2. CASE Restart
    BY <2>2 DEF Restart
  <2>3. CASE Quiet \/ UNCHANGED vars
    BY <2>3 DEF Quiet, vars, kvVars
  <2> QED
    BY <1>1, <2>1, <2>2, <2>3 DEF Next, Step
<1> QED
  BY <1>1, CoreAlways, PTL DEF Spec, BrokenSessionIsLeft

-----------------------------------------------------------------------------
(* While no two envelopes are made in the same millisecond.                *)

\* Making an envelope reads the clock; nothing else does.
LEMMA StepClock ==
    ASSUME CoreInv, FreshInv, MinGap = 1, NEW p \in Requests, Step(p)
    PROVE  \/ clock' = clock /\ resp' = resp /\ pc'[p] # "store"
           \/ /\ pc[p] \in {"plan", "generate"}
              /\ clock' = clock + 1 /\ clock \in Nat
              /\ resp'[p].id[2] = clock'
              /\ resp'[p].sent[2] <= clock'
<1> USE DEF CoreInv, Shape
<1>1. CASE ShortCircuit(p)
  <2> PICK ms \in Readings :
          clock' = ms /\ resp' = [resp EXCEPT ![p] = Planned(p, ms)]
    BY <1>1 DEF ShortCircuit, Planned
  <2>1. ms = clock + 1 /\ ms \in Nat
    BY ReadingIsLater
  <2>2. resp'[p] = Planned(p, ms)
    OBVIOUS
  <2>3. resp'[p].id[2] = ms /\ resp'[p].sent[2] = ms
    BY <2>2 DEF Envelope, Planned
  <2>4. pc[p] = "plan" /\ clock' = ms
    BY <1>1 DEF ShortCircuit
  <2> QED
    BY <2>1, <2>3, <2>4
<1>2. CASE Sync(p)
  <2>1. CASE StreamsChat(p)
    <3> PICK ms \in Readings :
            clock' = ms /\ resp' = [resp EXCEPT ![p] = Opened(p, ms)]
      BY <1>2, <2>1 DEF Sync, Opened
    <3>1. ms = clock + 1 /\ ms \in Nat
      BY ReadingIsLater
    <3>2. resp'[p] = Opened(p, ms)
      OBVIOUS
    <3>3. resp'[p].id[2] = ms /\ resp'[p].sent[2] = ms
      BY <3>2 DEF Envelope, Opened
    <3>4. pc[p] = "plan" /\ clock' = ms
      BY <1>2 DEF Sync
    <3> QED
      BY <3>1, <3>3, <3>4
  <2>2. CASE ~StreamsChat(p)
    BY <1>2, <2>2 DEF Sync, Goto
  <2> QED
    BY <2>1, <2>2
<1>3. CASE Generate(p)
  <2> PICK ms \in Readings : clock' = ms /\ resp' = [resp EXCEPT ![p] = Final(p, ms)]
    BY <1>3 DEF Generate, Final
  <2>1. ms = clock + 1 /\ ms \in Nat
    BY ReadingIsLater
  <2>2. resp'[p] = Final(p, ms)
    OBVIOUS
  <2>3. resp'[p].id[2] = ms /\ resp'[p].sent = IF StreamsChat(p) THEN resp[p].id
                                              ELSE resp'[p].id
    BY <2>2 DEF Final, Envelope
  <2>4. StreamsChat(p) => resp[p].id[2] <= clock /\ resp[p].id[2] \in Nat
    BY <1>3 DEF Generate, SessionIsOwn, FreshInv, IdsAreFresh, ResponseEnvelope, ResponseIds
  <2>5. pc[p] = "generate" /\ clock' = ms
    BY <1>3 DEF Generate
  <2> QED
    BY <2>1, <2>3, <2>4, <2>5
<1>4. CASE Arrive(p) \/ Restore(p) \/ LoadContinuation(p) \/ Store(p)
  BY <1>4 DEF Arrive, Restore, LoadContinuation, Store, Goto
<1>5. CASE Acquire(p)
  BY <1>5 DEF Acquire, Granted, Wants
<1>6. ASSUME NEW code, Answer(p, code) PROVE pc'[p] # "store"
  BY <1>6 DEF Answer, Goto
<1>7. CASE Hydrate(p)
  BY <1>6, <1>7 DEF Hydrate, Goto
<1>8. CASE LockErr(p) \/ Gate(p) \/ SyncErr(p) \/ GenerateErr(p) \/ Remember(p)
  BY <1>6, <1>8 DEF LockErr, Gate, SyncErr, GenerateErr, Remember
<1>9. CASE Panic(p)
  BY <1>6, <1>9 DEF Panic
<1>10. CASE \E cut \in Tears : StoreErr(p, cut)
  BY <1>6, <1>10 DEF StoreErr
<1> QED
  BY <1>1, <1>2, <1>3, <1>4, <1>5, <1>7, <1>8, <1>9, <1>10 DEF Step, Handle

\* The time of an id is a number.
LEMMA IdTimes ==
    ASSUME Shape, NEW p \in Requests, resp[p] # None
    PROVE  /\ resp[p].id \in ResponseIds /\ resp[p].sent \in ResponseIds
           /\ resp[p].id[2] \in Nat /\ resp[p].sent[2] \in Nat
BY DEF Shape, ResponseEnvelope, ResponseIds

\* New ids are newer than all others.
LEMMA IdsStep ==
    ASSUME CoreInv, FreshInv, MinGap = 1, NEW p \in Requests, Step(p)
    PROVE  IdsAreFresh'
<1> USE DEF CoreInv, FreshInv
<1>0. Shape' /\ clock \in Nat
  BY ShapeStep DEF Shape
<1>1. \A q \in Requests \ {p} : resp'[q] = resp[q] /\ pc'[q] = pc[q]
  BY StepFrame DEF Frame
<1>2. CASE clock' = clock /\ resp' = resp /\ pc'[p] # "store"
  <2>1. ASSUME NEW q \in Requests, pc'[q] \in Keeping PROVE resp'[q].id[2] = clock'
    <3>1. pc[q] \in Keeping
      <4>1. CASE q = p
        BY <1>2, <2>1, <4>1, StepMoves
           DEF Moves, Shape, Stages, Early, Keeping
      <4>2. CASE q # p
        BY <1>1, <2>1, <4>2
      <4> QED
        BY <4>1, <4>2
    <3> QED
      BY <1>2, <3>1 DEF IdsAreFresh
  <2> QED
    BY <1>2, <2>1 DEF IdsAreFresh
<1>3. CASE /\ pc[p] \in {"plan", "generate"}
           /\ clock' = clock + 1
           /\ resp'[p].id[2] = clock'
           /\ resp'[p].sent[2] <= clock'
  <2>1. \A q \in Requests \ {p} : resp[q] # None => resp[q].id[2] < clock'
    BY <1>0, <1>3, IdTimes DEF IdsAreFresh
  <2>2. \A q \in Requests : resp'[q] # None =>
            resp'[q].id[2] <= clock' /\ resp'[q].sent[2] <= resp'[q].id[2]
    BY <1>0, <1>1, <1>3, <2>1, IdTimes DEF IdsAreFresh
  <2>3. \A q, r \in Requests :
            (resp'[q] # None /\ resp'[r] # None /\ resp'[q].id[2] = resp'[r].id[2]) => q = r
    BY <1>0, <1>1, <1>3, <2>1, IdTimes DEF IdsAreFresh
  <2>4. \A q \in Requests : pc'[q] \in Keeping => resp'[q].id[2] = clock'
    <3>1. pc[p] \in Serving
      BY <1>3 DEF Serving
    <3>2. \A q \in Requests \ {p} : pc'[q] \notin Serving
      BY <1>1, <3>1, OneInSession
    <3> QED
      BY <1>3, <3>2 DEF Serving, Keeping
  <2> QED
    BY <2>2, <2>3, <2>4 DEF IdsAreFresh
<1> QED
  BY <1>2, <1>3, StepClock

\* Two requests with the same response id are one.
LEMMA SameId ==
    ASSUME IdsAreFresh, NEW p \in Requests, NEW q \in Requests,
           resp[p] # None, resp[q] # None, resp[p].id = resp[q].id
    PROVE  p = q
BY DEF IdsAreFresh

\* The envelope of a tool call is never replaced.
LEMMA CallIsStable ==
    ASSUME CoreInv, FreshInv, MinGap = 1, NEW p \in Requests, Step(p),
           NEW q \in Requests, resp[q] # None, resp[q].call
    PROVE  resp'[q] = resp[q]
<1> USE DEF CoreInv
<1>1. CASE q # p
  BY <1>1, StepFrame DEF Frame
<1>2. CASE q = p
  <2>1. pc[p] \notin {"plan", "generate"}
    BY <1>2 DEF SessionIsOwn, Early
  <2> QED
    BY <1>2, <2>1, StepClock
<1> QED
  BY <1>1, <1>2

-----------------------------------------------------------------------------
(* Tool blocks.                                                            *)

\* The KV cache is written by Store only.
LEMMA StepStores ==
    ASSUME NEW p \in Requests, Step(p), ~Store(p)
    PROVE  by_key' = by_key
BY DEF Step, Handle, Arrive, Acquire, LockErr, Hydrate, Restore, LoadContinuation,
       ShortCircuit, Gate, SyncErr, Sync, Generate, GenerateErr, Panic, StoreErr,
       Remember, kvVars

\* What Store files.
LEMMA StoredBlocks ==
    ASSUME CoreInv, NEW p \in Requests, Store(p)
    PROVE  /\ resp[p] # None /\ resp' = resp
           /\ \A x \in VisibleEntry(p).replay :
                 resp[p].call /\ x = ReplayOf(resp[p].id, p)
           /\ resp[p].call => /\ ReplayOf(resp[p].id, p) \in VisibleEntry(p).replay
                              /\ VisibleEntry(p).tokens = 0
<1>1. resp[p] # None
  BY DEF Store, CoreInv, SessionIsOwn, Keeping
<1>2. \A x \in VisibleEntry(p).replay :
          resp[p].call /\ x = ReplayOf(resp[p].id, p)
  BY DEF VisibleEntry, ReplayOf
<1>3. resp[p].call => ReplayOf(resp[p].id, p) \in VisibleEntry(p).replay
  BY DEF VisibleEntry, ReplayOf
<1>4. resp[p].call => VisibleEntry(p).tokens = 0
  BY DEF VisibleEntry
<1> QED
  BY <1>1, <1>2, <1>3, <1>4 DEF Store

\* Where it files it.
LEMMA StoredMap ==
    ASSUME CoreInv, NEW p \in Requests, Step(p)
    PROVE  LET key == <<resp[p].id, VisibleEntry(p).tokens>>
           IN  /\ \A k \in DOMAIN by_key : k \in DOMAIN by_key'
               /\ \A k \in DOMAIN by_key' :
                     \/ k \in DOMAIN by_key /\ by_key'[k] = by_key[k]
                     \/ Store(p) /\ k = key /\ by_key'[k] = VisibleEntry(p)
               /\ Store(p) => key \in DOMAIN by_key' /\ by_key'[key] = VisibleEntry(p)
<1>1. CASE Store(p)
  <2> DEFINE key == <<resp[p].id, VisibleEntry(p).tokens>>
  <2>1. by_key' = Kv!Insert(by_key, key, VisibleEntry(p))
    BY <1>1 DEF Store
  <2> HIDE DEF key
  <2>2. /\ DOMAIN by_key' = DOMAIN by_key \union {key}
        /\ by_key'[key] = VisibleEntry(p)
        /\ \A k \in DOMAIN by_key : k # key => by_key'[k] = by_key[k]
    BY <2>1 DEF Kv!Insert
  <2> QED
    BY <1>1, <2>2 DEF key
<1>2. CASE ~Store(p)
  BY <1>2, StepStores
<1> QED
  BY <1>1, <1>2

FiledAt(q) ==
    (/\ resp[q] # None /\ resp[q].call
     /\ pc[q] \in {"remember", "remembering"} \/ Answered(q)) =>
         /\ <<resp[q].id, 0>> \in DOMAIN by_key
         /\ ReplayOf(resp[q].id, q) \in by_key[<<resp[q].id, 0>>].replay

\* Blocks in memory stay those of tool calls, and no call's is lost.
LEMMA BlocksStep ==
    ASSUME CoreInv, FreshInv, MinGap = 1, NEW p \in Requests, Step(p)
    PROVE  BlocksAreFiled'
<1> USE DEF CoreInv, FreshInv
<1>1. ASSUME NEW k \in DOMAIN by_key', NEW x \in by_key'[k].replay
      PROVE  \E q \in Requests : /\ resp'[q] # None /\ resp'[q].call
                                 /\ x = ReplayOf(resp'[q].id, q)
  <2>1. CASE k \in DOMAIN by_key /\ x \in by_key[k].replay
    <3> PICK q \in Requests : resp[q] # None /\ resp[q].call /\ x = ReplayOf(resp[q].id, q)
      BY <2>1 DEF BlocksAreFiled
    <3>1. resp'[q] = resp[q]
      BY CallIsStable
    <3> QED
      BY <3>1
  <2>2. CASE Store(p) /\ x \in VisibleEntry(p).replay
    BY <2>2, StoredBlocks
  <2>3. \/ k \in DOMAIN by_key /\ x \in by_key[k].replay
        \/ Store(p) /\ x \in VisibleEntry(p).replay
    BY <1>1, StoredMap
  <2> QED
    BY <2>1, <2>2, <2>3
<1>2. ASSUME NEW q \in Requests
      PROVE  FiledAt(q)'
  <2>0. FiledAt(q)
    BY DEF BlocksAreFiled, FiledAt
  <2> SUFFICES ASSUME resp'[q] # None, resp'[q].call,
                      pc'[q] \in {"remember", "remembering"} \/ Answered(q)'
               PROVE  /\ <<resp'[q].id, 0>> \in DOMAIN by_key'
                      /\ ReplayOf(resp'[q].id, q) \in by_key'[<<resp'[q].id, 0>>].replay
    BY DEF FiledAt
  <2>1. CASE q # p
    <3>1. resp'[q] = resp[q] /\ pc'[q] = pc[q] /\ Answered(q)' = Answered(q)
      BY <2>1, StepFrame DEF Frame, Answered
    <3>2. /\ <<resp[q].id, 0>> \in DOMAIN by_key
          /\ ReplayOf(resp[q].id, q) \in by_key[<<resp[q].id, 0>>].replay
      BY <2>0, <3>1 DEF FiledAt
    <3>3. Store(p) => resp[p].id # resp[q].id
      BY <2>1, <3>1, StoredBlocks, SameId
    <3>4. <<resp[q].id, 0>> \in DOMAIN by_key' /\
          by_key'[<<resp[q].id, 0>>] = by_key[<<resp[q].id, 0>>]
      BY <3>2, <3>3, StoredMap
    <3> QED
      BY <3>1, <3>2, <3>4
  <2>2. CASE q = p /\ Store(p)
    <3>1. resp' = resp /\ VisibleEntry(p).tokens = 0
      BY <2>2, StoredBlocks
    <3> QED
      BY <2>2, <3>1, StoredBlocks, StoredMap
  <2>3. CASE q = p /\ ~Store(p)
    <3>1. pc[p] \in {"remember", "remembering"}
      <4>1. CASE pc'[p] = "remembering"
        BY <4>1, StepMoves DEF Moves, Shape, Stages, Early, Keeping
      <4>2. CASE pc'[p] = "remember"
        <5>1. pc[p] = "storing"
          BY <4>2, StepMoves DEF Moves, Shape, Stages, Early, Keeping
        <5>2. \E cut \in Tears : StoreErr(p, cut)
          BY <2>3, <5>1 DEF Step, Handle, Arrive, Acquire, Wants, LockErr, Hydrate,
                Restore, LoadContinuation, ShortCircuit, Gate, SyncErr, Sync, Generate,
                GenerateErr, Panic, Remember
        <5> QED
          BY <4>2, <5>2 DEF StoreErr, Answer, Goto, Shape
      <4>3. CASE Answered(q)'
        <5>1. answer[p] = None
          BY StepMoves DEF AnswersAreFinal
        <5>2. Remember(p)
          BY <2>3, <4>3, <5>1, StepAnswers DEF Answered
        <5> QED
          BY <5>2 DEF Remember
      <4> QED
        BY <2>3, <4>1, <4>2, <4>3
    <3>2. resp'[p] = resp[p] /\ by_key' = by_key
      BY <2>3, <3>1, StepClock, StepStores
    <3> QED
      BY <2>0, <2>3, <3>1, <3>2 DEF FiledAt
  <2> QED
    BY <2>1, <2>2, <2>3
<1> QED
  BY <1>1, <1>2 DEF BlocksAreFiled, FiledAt

\* The answer a request refers to, once it was sent.
LEMMA ReferredAnswer ==
    ASSUME CoreInv, NEW p \in Requests, pc[p] # "idle", Body[p].after # None
    PROVE  LET q == Body[p].after IN
               /\ q \in Requests /\ answer[q] # None /\ answer[q].code = 200
               /\ answer[q].id = resp[q].sent /\ resp[q] # None
               /\ resp[q].id \in ResponseIds /\ resp[q].sent \in ResponseIds
               /\ Body[p].tool_results =>
                     resp[q].call /\ answer[q].id = resp[q].id
               /\ Body[p].quotes_id => answer[q].id = resp[q].id
<1> USE DEF CoreInv
<1> DEFINE q == Body[p].after
<1>1. q \in Requests
  BY BodyAssumption
<1>2. answer[q] # None /\ answer[q].code = 200
  BY DEF AnswersAreFinal
<1>3. answer[q].id = resp[q].sent /\ resp[q] # None
  BY <1>1, <1>2 DEF AnswersAreFinal
<1>4. resp[q].id \in ResponseIds /\ resp[q].sent \in ResponseIds
  BY <1>1, <1>3, IdTimes
<1>5. /\ resp[q].call = Body[q].plan
      /\ resp[q].call \/ ~StreamsChat(q) => resp[q].sent = resp[q].id
  BY <1>1, <1>3 DEF SessionIsOwn
<1>6. Body[p].tool_results => resp[q].call
  BY <1>1, <1>5, ReferenceAssumption
<1>7. Body[p].quotes_id => resp[q].call \/ ~StreamsChat(q)
  BY <1>1, <1>5, ReferenceAssumption
<1> HIDE DEF q
<1>8. /\ q \in Requests /\ answer[q] # None /\ answer[q].code = 200
      /\ answer[q].id = resp[q].sent /\ resp[q] # None
      /\ resp[q].id \in ResponseIds /\ resp[q].sent \in ResponseIds
  BY <1>1, <1>2, <1>3, <1>4
<1>9. Body[p].tool_results => resp[q].call /\ answer[q].id = resp[q].id
  BY <1>3, <1>5, <1>6
<1>10. Body[p].quotes_id => answer[q].id = resp[q].id
  BY <1>3, <1>5, <1>7
<1> QED
  BY <1>8, <1>9, <1>10 DEF q

\* hydrate_tool_replay finds the block of the call, and only that.
LEMMA LookupFindsBlock ==
    ASSUME CoreInv, FreshInv, NEW p \in Requests, pc[p] # "idle", Body[p].tool_results,
           answer[Body[p].after].boot = boot,
           NEW r \in Kv!FindToolReplayResults(ToolCallId(p))
    PROVE  r.val = Body[Body[p].after].block
<1> USE DEF CoreInv, FreshInv
<1> DEFINE q == Body[p].after
           id == ToolCallId(p)
           items == UNION {by_key[k].replay : k \in DOMAIN by_key}
           found == {x \in items : x.id = id}
<1>0. Body[p].after # None
  BY BodyAssumption
<1>1. q \in Requests /\ resp[q] # None /\ resp[q].call /\ Answered(q)
  BY <1>0, ReferredAnswer DEF Answered
<1>2. id = CallId(resp[q].id)
  BY <1>0, ReferredAnswer DEF ToolCallId
<1>3. ReplayOf(resp[q].id, q) \in items
  BY <1>1 DEF BlocksAreFiled
<1>4. ReplayOf(resp[q].id, q) \in found
  BY <1>2, <1>3 DEF ReplayOf
<1>5. ASSUME NEW x \in found PROVE x.block = Body[q].block
  <2> PICK c \in Requests : resp[c] # None /\ resp[c].call /\ x = ReplayOf(resp[c].id, c)
    BY DEF BlocksAreFiled
  <2>1. CallId(resp[c].id) = CallId(resp[q].id)
    BY <1>2 DEF ReplayOf
  <2>2. resp[c].id = resp[q].id
    BY <2>1 DEF CallId
  <2>3. c = q
    BY <1>1, <2>2, SameId
  <2> QED
    BY <2>3 DEF ReplayOf
<1>6. r \in {Kv!Ok(x.block) : x \in found}
  BY <1>4 DEF Kv!FindToolReplayResults
<1> QED
  BY <1>5, <1>6 DEF Kv!Ok

\* A hydrated follow-up stays hydrated.
LEMMA HydratedStep ==
    ASSUME CoreInv, FreshInv, MinGap = 1, NEW p \in Requests, Step(p)
    PROVE  Hydrated'
<1> USE DEF CoreInv, FreshInv
<1> SUFFICES ASSUME NEW r \in Requests, Body[r].tool_results,
                    pc'[r] \notin {"idle", "hydrate", "hydrating", "done"},
                    answer'[Body[r].after].boot = boot'
             PROVE  replay'[r] = Body[Body[r].after].block
  BY DEF Hydrated
<1>0. Body[r].after # None
  BY BodyAssumption
<1>1. pc[r] # "idle"
  <2>1. CASE r # p
    BY <2>1, StepFrame DEF Frame
  <2>2. CASE r = p
    <3> SUFFICES ASSUME pc[p] = "idle" PROVE FALSE
      BY <2>2
    <3>1. Arrive(p)
      BY DEF Step, Handle, Acquire, Wants, LockErr, Hydrate, Restore,
            LoadContinuation, ShortCircuit, Gate, SyncErr, Sync, Generate, GenerateErr,
            Panic, Store, StoreErr, Remember
    <3> QED
      BY <2>2, <3>1 DEF Arrive, Goto, Shape
  <2> QED
    BY <2>1, <2>2
<1>2. answer[Body[r].after].boot = boot
  <2>1. Body[r].after \in Requests /\ answer[Body[r].after] # None
    BY <1>0, <1>1, ReferredAnswer
  <2> QED
    BY <2>1, AnsweredIsStable, StepFrame DEF Frame
<1>3. CASE r # p
  BY <1>2, <1>3, StepFrame DEF Frame, Hydrated
<1>4. CASE r = p /\ Hydrate(p)
  <2> PICK f \in Kv!FindToolReplayResults(ToolCallId(p)) :
          (f = Kv!Err /\ Answer(p, 500)) \/ replay' = [replay EXCEPT ![p] = f.val]
    BY <1>4 DEF Hydrate
  <2>1. ~Answer(p, 500)
    BY <1>4 DEF Answer, Goto, Shape
  <2>2. replay'[p] = f.val
    BY <2>1 DEF Shape
  <2> QED
    BY <1>1, <1>2, <1>4, <2>2, LookupFindsBlock
<1>5. CASE r = p /\ ~Hydrate(p)
  <2>1. replay' = replay
    BY <1>5 DEF Step, Handle, Arrive, Acquire, LockErr, Restore, LoadContinuation,
          ShortCircuit, Gate, SyncErr, Sync, Generate, GenerateErr, Panic, Store,
          StoreErr, Remember
  <2>2. pc[p] # "hydrating"
    <3> SUFFICES ASSUME pc[p] = "hydrating" PROVE FALSE
      OBVIOUS
    <3> QED
      BY <1>5 DEF Step, Handle, Arrive, Acquire, Wants, LockErr, Restore, LoadContinuation,
          ShortCircuit, Gate, SyncErr, Sync, Generate, GenerateErr, Panic, Store,
          StoreErr, Remember
  <2>3. pc[p] # "hydrate"
    BY <1>5, StepMoves DEF Moves
  <2> QED
    BY <1>1, <1>2, <1>5, <2>1, <2>2, <2>3, StepMoves DEF Hydrated
<1> QED
  BY <1>3, <1>4, <1>5

-----------------------------------------------------------------------------
(* Continuations.                                                          *)

\* An alias map after remember: the alias of the entry is its id, the others
\* are as they were.
LEMMA RememberAliases ==
    ASSUME NEW p \in Requests, Remember(p)
    PROVE  /\ Body[p].conversation # None =>
                 /\ Body[p].conversation \in DOMAIN latest_by_conversation'
                 /\ latest_by_conversation'[Body[p].conversation] = resp[p].id
           /\ \A c \in DOMAIN latest_by_conversation :
                 /\ c \in DOMAIN latest_by_conversation'
                 /\ \/ latest_by_conversation'[c] = latest_by_conversation[c]
                    \/ latest_by_conversation'[c] = resp[p].id
           /\ (resp[p].call /\ CallId(resp[p].id) # None) =>
                 /\ CallId(resp[p].id) \in DOMAIN latest_by_tool_call'
                 /\ latest_by_tool_call'[CallId(resp[p].id)] = resp[p].id
           /\ \A t \in DOMAIN latest_by_tool_call :
                 /\ t \in DOMAIN latest_by_tool_call'
                 /\ \/ latest_by_tool_call'[t] = latest_by_tool_call[t]
                    \/ latest_by_tool_call'[t] = resp[p].id
<1> DEFINE e == RememberedEntry(p)
<1>1. /\ e.conversation = Body[p].conversation
      /\ e.response_id = resp[p].id
      /\ resp[p].call => e.tool_call = CallId(resp[p].id)
  BY DEF RememberedEntry
<1> HIDE DEF e
<1>2. latest_by_conversation' =
          IF e.conversation = None THEN latest_by_conversation
          ELSE Cont!Insert(latest_by_conversation, e.conversation, e.response_id)
  BY DEF Remember, Cont!Remember, e
<1>3. latest_by_tool_call' =
          IF e.tool_call = None THEN latest_by_tool_call
          ELSE Cont!Insert(latest_by_tool_call, e.tool_call, e.response_id)
  BY DEF Remember, Cont!Remember, e
<1>4. /\ Body[p].conversation # None =>
            /\ Body[p].conversation \in DOMAIN latest_by_conversation'
            /\ latest_by_conversation'[Body[p].conversation] = resp[p].id
      /\ \A c \in DOMAIN latest_by_conversation :
            /\ c \in DOMAIN latest_by_conversation'
            /\ \/ latest_by_conversation'[c] = latest_by_conversation[c]
               \/ latest_by_conversation'[c] = resp[p].id
  BY <1>1, <1>2 DEF Cont!Insert
<1>5. (resp[p].call /\ CallId(resp[p].id) # None) =>
          /\ CallId(resp[p].id) \in DOMAIN latest_by_tool_call'
          /\ latest_by_tool_call'[CallId(resp[p].id)] = resp[p].id
  BY <1>1, <1>3 DEF Cont!Insert
<1>6. \A t \in DOMAIN latest_by_tool_call :
          /\ t \in DOMAIN latest_by_tool_call'
          /\ \/ latest_by_tool_call'[t] = latest_by_tool_call[t]
             \/ latest_by_tool_call'[t] = resp[p].id
  BY <1>1, <1>3 DEF Cont!Insert
<1> QED
  BY <1>4, <1>5, <1>6

\* The names of an answered request.
FoundAt(q) ==
    /\ resp[q].id \in DOMAIN by_id
    /\ Body[q].conversation # None =>
          NamesNoOlder(latest_by_conversation, Body[q].conversation, resp[q].id)
    /\ resp[q].call =>
          NamesNoOlder(latest_by_tool_call, CallId(resp[q].id), resp[q].id)

\* Answered requests are found under names that only move to newer ones.
LEMMA FoundStep ==
    ASSUME CoreInv, FreshInv, MinGap = 1, NEW p \in Requests, Step(p)
    PROVE  AnswersAreFound'
<1> USE DEF CoreInv, FreshInv
<1> SUFFICES ASSUME NEW q \in Requests, Answered(q)'
             PROVE  FoundAt(q)'
  BY DEF AnswersAreFound, FoundAt
<1>1. CASE q # p
  <2>1. Answered(q) /\ resp'[q] = resp[q] /\ resp[q] # None
    BY <1>1, StepFrame DEF Frame, Answered, AnswersAreFinal
  <2>2. FoundAt(q)
    BY <2>1 DEF AnswersAreFound, FoundAt
  <2>3. CASE ~Remember(p)
    BY <2>1, <2>2, <2>3, StepRemembers DEF FoundAt, NamesNoOlder, contVars
  <2>4. CASE Remember(p)
    <3>1. resp[p].id[2] >= resp[q].id[2] /\ resp[p].id \in DOMAIN by_id'
      <4>1. resp[p].id[2] = clock
        BY <2>4 DEF Remember, IdsAreFresh, Keeping
      <4>2. resp[q].id[2] <= clock /\ resp[q].id[2] \in Nat /\ clock \in Nat
        BY <2>1, IdTimes DEF IdsAreFresh, Shape
      <4> QED
        BY <2>4, <4>1, <4>2, RememberMaps
    <3>2. resp[q].id \in DOMAIN by_id'
      BY <2>2, <2>4, RememberMaps DEF FoundAt
    <3>3. \A x \in DOMAIN by_id : x \in DOMAIN by_id'
      BY <2>4, RememberMaps
    <3>4. Body[q].conversation # None =>
              NamesNoOlder(latest_by_conversation, Body[q].conversation, resp[q].id)'
      BY <2>1, <2>2, <2>4, <3>1, <3>3, RememberAliases DEF FoundAt, NamesNoOlder
    <3>5. resp[q].call =>
              NamesNoOlder(latest_by_tool_call, CallId(resp[q].id), resp[q].id)'
      BY <2>1, <2>2, <2>4, <3>1, <3>3, RememberAliases DEF FoundAt, NamesNoOlder
    <3> QED
      BY <2>1, <3>2, <3>4, <3>5 DEF FoundAt
  <2> QED
    BY <2>3, <2>4
<1>2. CASE q = p
  <2>1. answer[p] = None
    BY StepMoves DEF AnswersAreFinal
  <2>2. Remember(p)
    BY <1>2, <2>1, StepAnswers DEF Answered
  <2>3. resp' = resp /\ resp[p].id \in DOMAIN by_id' /\ resp[p] # None
    BY <2>2, RememberMaps
  <2>4. resp[p].id[2] \in Nat /\ CallId(resp[p].id) # None
    BY <2>3, IdTimes, NoneAssumption DEF CallId, CallIds
  <2>5. Body[p].conversation # None =>
            NamesNoOlder(latest_by_conversation, Body[p].conversation, resp[p].id)'
    BY <2>2, <2>3, <2>4, RememberAliases DEF NamesNoOlder
  <2>6. resp[p].call =>
            NamesNoOlder(latest_by_tool_call, CallId(resp[p].id), resp[p].id)'
    BY <2>2, <2>3, <2>4, RememberAliases DEF NamesNoOlder
  <2> QED
    BY <1>2, <2>3, <2>5, <2>6 DEF FoundAt
<1> QED
  BY <1>1, <1>2

\* p continues from the answer of q.
ContinuesFrom(entry, p, q) ==
    /\ entry # None
    /\ entry.response_id[2] >= answer[q].id[2]
    /\ Body[p].quotes_id => entry = [entry EXCEPT !.response_id = answer[q].id,
                                                  !.conversation = Body[q].conversation]

\* What an alias or an id restores.
LEMMA RestoreFinds ==
    ASSUME CoreInv, FreshInv, NEW p \in Requests, pc[p] # "idle", Body[p].after # None,
           answer[Body[p].after].boot = boot
    PROVE  ContinuesFrom(Cont!Restore(PreviousId(p), Body[p].conversation, ToolCallId(p)),
                         p, Body[p].after)
<1> USE DEF CoreInv, FreshInv
<1> DEFINE q == Body[p].after
           entry == Cont!Restore(PreviousId(p), Body[p].conversation, ToolCallId(p))
<1>1. /\ q \in Requests /\ resp[q] # None /\ answer[q].id = resp[q].sent
      /\ resp[q].id \in ResponseIds /\ resp[q].sent \in ResponseIds
  BY ReferredAnswer
<1>2. Answered(q)
  BY ReferredAnswer DEF Answered
<1>3. FoundAt(q)
  BY <1>1, <1>2 DEF AnswersAreFound, FoundAt
<1>4. /\ answer[q].id[2] <= resp[q].id[2]
      /\ answer[q].id[2] \in Nat /\ resp[q].id[2] \in Nat
  BY <1>1, IdTimes DEF IdsAreFresh
<1>5. ASSUME NEW id \in DOMAIN by_id
      PROVE  by_id[id] # None /\ by_id[id].response_id = id /\ id[2] \in Nat
  <2>1. by_id[id] \in Cont!ContinuationEntry /\ by_id[id].response_id = id
    BY DEF Shape, EntriesAreAnswers
  <2>2. id \in ResponseIds
    BY <2>1 DEF Cont!ContinuationEntry
  <2> QED
    BY <2>1, <2>2, NoneAssumption DEF ResponseIds
<1>6. CASE Body[p].quotes_id
  <2>1. PreviousId(p) = resp[q].id /\ answer[q].id = resp[q].id /\ resp[q].id # None
    BY <1>1, <1>6, ReferredAnswer, NoneAssumption DEF PreviousId
  <2>2. entry = by_id[resp[q].id]
    BY <1>3, <2>1 DEF Cont!Restore, Cont!Get, FoundAt
  <2>3. entry # None /\ entry.response_id = answer[q].id
    BY <1>3, <1>5, <2>1, <2>2 DEF FoundAt
  <2>4. entry.conversation = Body[q].conversation
    <3> PICK c \in Requests :
            /\ Answered(c) /\ resp[c].id = resp[q].id
            /\ by_id[resp[q].id].conversation = Body[c].conversation
      BY <1>3 DEF EntriesAreAnswers, FoundAt
    <3>1. c = q
      BY <1>1, SameId DEF Answered, AnswersAreFinal
    <3> QED
      BY <2>2, <3>1
  <2>5. entry \in Cont!ContinuationEntry
    BY <1>3, <2>2 DEF Shape, FoundAt
  <2> HIDE DEF entry
  <2>6. entry = [entry EXCEPT !.response_id = answer[q].id,
                              !.conversation = Body[q].conversation]
    BY <2>3, <2>4, <2>5 DEF Cont!ContinuationEntry
  <2> QED
    BY <1>4, <2>3, <2>6 DEF ContinuesFrom, entry
<1>7. CASE ~Body[p].quotes_id /\ Body[p].conversation # None
  <2>1. Body[q].conversation = Body[p].conversation
    BY <1>7, ReferenceAssumption
  <2> DEFINE id == latest_by_conversation[Body[p].conversation]
  <2>2. /\ Body[p].conversation \in DOMAIN latest_by_conversation
        /\ id \in DOMAIN by_id /\ id[2] >= resp[q].id[2]
    BY <1>3, <1>7, <2>1 DEF FoundAt, NamesNoOlder
  <2>3. entry = by_id[id]
    BY <1>7, <2>2 DEF Cont!Restore, Cont!Get, PreviousId
  <2>4. entry # None /\ entry.response_id = id /\ id[2] \in Nat
    BY <1>5, <2>2, <2>3
  <2> QED
    BY <1>4, <1>7, <2>2, <2>4 DEF ContinuesFrom
<1>8. CASE ~Body[p].quotes_id /\ Body[p].conversation = None
  <2>1. Body[p].tool_results
    BY <1>8, ReferenceAssumption
  <2>2. resp[q].call /\ ToolCallId(p) = CallId(resp[q].id) /\ ToolCallId(p) # None
    BY <2>1, ReferredAnswer, ToolCallIsId, NoneAssumption
  <2> DEFINE id == latest_by_tool_call[CallId(resp[q].id)]
  <2>3. /\ CallId(resp[q].id) \in DOMAIN latest_by_tool_call
        /\ id \in DOMAIN by_id /\ id[2] >= resp[q].id[2]
    BY <1>3, <2>2 DEF FoundAt, NamesNoOlder
  <2>4. entry = by_id[id]
    BY <1>8, <2>2, <2>3 DEF Cont!Restore, Cont!Get, PreviousId
  <2>5. entry # None /\ entry.response_id = id /\ id[2] \in Nat
    BY <1>5, <2>3, <2>4
  <2> QED
    BY <1>4, <1>8, <2>3, <2>5 DEF ContinuesFrom
<1> QED
  BY <1>6, <1>7, <1>8

\* A restored continuation stays that of the answer.
LEMMA ContinuesStep ==
    ASSUME CoreInv, FreshInv, MinGap = 1, NEW p \in Requests, Step(p)
    PROVE  ContinuesItsAnswer'
<1> USE DEF CoreInv, FreshInv
<1> SUFFICES ASSUME NEW r \in Requests, Restored(r)', answer'[Body[r].after].boot = boot'
             PROVE  ContinuesFrom(hit[r], r, Body[r].after)'
  BY DEF ContinuesItsAnswer, ContinuesFrom
<1>0. /\ Body[r].after # None
      /\ pc'[r] \notin {"idle", "hydrate", "hydrating", "restore", "restoring", "done"}
  BY DEF Restored
<1>1. pc[r] # "idle"
  <2>1. CASE r # p
    BY <1>0, <2>1, StepFrame DEF Frame
  <2>2. CASE r = p
    BY <1>0, <2>2, StepMoves DEF Moves
  <2> QED
    BY <2>1, <2>2
<1>2. /\ answer'[Body[r].after] = answer[Body[r].after]
      /\ answer[Body[r].after].boot = boot
  <2>1. Body[r].after \in Requests /\ answer[Body[r].after] # None
    BY <1>0, <1>1, ReferredAnswer
  <2> QED
    BY <2>1, AnsweredIsStable, StepFrame DEF Frame
<1>3. ASSUME NEW entry, ContinuesFrom(entry, r, Body[r].after), hit'[r] = entry
      PROVE  ContinuesFrom(hit[r], r, Body[r].after)'
  BY <1>2, <1>3 DEF ContinuesFrom
<1>4. CASE hit'[r] = hit[r] /\ Restored(r)
  <2>1. ContinuesFrom(hit[r], r, Body[r].after)
    BY <1>2, <1>4 DEF ContinuesItsAnswer, ContinuesFrom
  <2> QED
    BY <1>3, <1>4, <2>1
<1>5. CASE r = p /\ Restore(p)
  BY <1>0, <1>1, <1>2, <1>3, <1>5, RestoreFinds DEF Restore, Shape
<1>6. CASE r # p
  BY <1>0, <1>4, <1>6, StepFrame DEF Frame, Restored
<1>7. CASE r = p /\ ~Restore(p)
  <2>1. hit' = hit
    BY <1>7 DEF Step, Handle, Arrive, Acquire, LockErr, Hydrate, LoadContinuation,
          ShortCircuit, Gate, SyncErr, Sync, Generate, GenerateErr, Panic, Store,
          StoreErr, Remember
  <2>2. pc[p] # "restoring"
    <3> SUFFICES ASSUME pc[p] = "restoring" PROVE FALSE
      OBVIOUS
    <3> QED
      BY <1>7 DEF Step, Handle, Arrive, Acquire, Wants, LockErr, Hydrate, LoadContinuation,
          ShortCircuit, Gate, SyncErr, Sync, Generate, GenerateErr, Panic, Store,
          StoreErr, Remember
  <2>3. pc[p] \notin {"idle", "hydrate", "hydrating", "restore", "done"}
    BY <1>0, <1>7, StepMoves DEF Moves
  <2> QED
    BY <1>0, <1>4, <1>7, <2>1, <2>2, <2>3 DEF Restored
<1> QED
  BY <1>5, <1>6, <1>7

\* After a restart nobody refers to this process yet.
LEMMA FreshRestart ==
    ASSUME CoreInv, FreshInv, Restart
    PROVE  FreshInv'
<1> USE DEF CoreInv, FreshInv
<1>0. \A p \in Requests : pc'[p] \in {"idle", "done"} /\ ~Answered(p)'
  BY RestartedServer
<1>1. IdsAreFresh'
  BY <1>0 DEF IdsAreFresh, Restart, Keeping
<1>2. BlocksAreFiled'
  BY <1>0 DEF BlocksAreFiled, Restart
<1>3. Hydrated' /\ AnswersAreFound'
  BY <1>0 DEF Hydrated, AnswersAreFound
<1>4. \A p \in Requests : ~Restored(p)'
  BY <1>0 DEF Restored
<1>5. ContinuesItsAnswer'
  BY <1>4 DEF ContinuesItsAnswer
<1> QED
  BY <1>1, <1>2, <1>3, <1>5

\* The server starts in the invariant.
LEMMA FreshInit == Init => FreshInv
<1> SUFFICES ASSUME Init PROVE FreshInv
  OBVIOUS
<1> USE DEF Init
<1>1. IdsAreFresh
  BY DEF IdsAreFresh, Keeping
<1>2. BlocksAreFiled
  BY DEF BlocksAreFiled
<1>3. Hydrated /\ AnswersAreFound
  BY DEF Hydrated, AnswersAreFound, Answered
<1>4. \A p \in Requests : ~Restored(p)
  BY DEF Restored
<1>5. ContinuesItsAnswer
  BY <1>4 DEF ContinuesItsAnswer
<1> QED
  BY <1>1, <1>2, <1>3, <1>5 DEF FreshInv

\* A step that changes nothing keeps it.
LEMMA FreshStutter ==
    ASSUME FreshInv, UNCHANGED vars
    PROVE  FreshInv'
<1> USE DEF FreshInv, vars, kvVars, contVars
<1>1. IdsAreFresh' /\ BlocksAreFiled'
  BY DEF IdsAreFresh, BlocksAreFiled, Answered
<1>2. Hydrated' /\ AnswersAreFound'
  BY DEF Hydrated, AnswersAreFound, NamesNoOlder, Answered
<1>3. \A p \in Requests : Restored(p)' = Restored(p)
  BY DEF Restored
<1>4. ContinuesItsAnswer'
  BY <1>3 DEF ContinuesItsAnswer
<1> QED
  BY <1>1, <1>2, <1>4

\* Every step keeps it.
LEMMA FreshNext ==
    ASSUME CoreInv, FreshInv, MinGap = 1, [Next]_vars
    PROVE  FreshInv'
<1>1. ASSUME NEW p \in Requests, Step(p)
      PROVE  FreshInv'
  BY <1>1, IdsStep, BlocksStep, HydratedStep, FoundStep, ContinuesStep DEF FreshInv
<1>2. CASE Restart
  BY <1>2, FreshRestart
<1>3. CASE Quiet \/ UNCHANGED vars
  BY <1>3, FreshStutter DEF Quiet
<1> QED
  BY <1>1, <1>2, <1>3 DEF Next, Step

\* The invariant of a server that makes at most one response a millisecond.
LEMMA FreshAlways == ASSUME MinGap = 1 PROVE Spec => []FreshInv
<1>1. CoreInv /\ FreshInv /\ [Next]_vars => FreshInv'
  BY FreshNext
<1> QED
  BY <1>1, CoreAlways, FreshInit, PTL DEF Spec

\* ErrorsAreForgotten: a request answered with an error left no continuation,
\* at whatever stage it failed.
THEOREM ErrorsAlwaysForgotten == ASSUME MinGap = 1 PROVE Spec => []ErrorsAreForgotten
<1>1. CoreInv /\ FreshInv => ErrorsAreForgotten
  <2> SUFFICES ASSUME CoreInv, FreshInv, NEW p \in Requests, answer[p] # None,
                      answer[p].code # 200, resp[p] # None, resp[p].id \in DOMAIN by_id
               PROVE  FALSE
    BY DEF ErrorsAreForgotten
  <2> PICK q \in Requests : Answered(q) /\ resp[q].id = resp[p].id
    BY DEF CoreInv, EntriesAreAnswers
  <2>1. resp[q] # None
    BY DEF CoreInv, AnswersAreFinal, Answered
  <2>2. q = p
    BY <2>1, SameId DEF FreshInv
  <2> QED
    BY <2>2 DEF Answered
<1> QED
  BY <1>1, CoreAlways, FreshAlways, PTL

\* FollowUpHydrated: hydrate_tool_replay gives a follow-up the block of the
\* very call its process answered.
THEOREM FollowUpAlwaysHydrated == ASSUME MinGap = 1 PROVE Spec => []FollowUpHydrated
<1>1. FreshInv => FollowUpHydrated
  BY DEF FreshInv, Hydrated, FollowUpHydrated, Restored
<1> QED
  BY <1>1, FreshAlways, PTL

\* ContinuesItsAnswer: restore gives a request the continuation of the answer
\* it refers to, or of a later one under the same name.
THEOREM AlwaysContinuesItsAnswer == ASSUME MinGap = 1 PROVE Spec => []ContinuesItsAnswer
<1>1. FreshInv => ContinuesItsAnswer
  BY DEF FreshInv
<1> QED
  BY <1>1, FreshAlways, PTL
=============================================================================

------------------------------ MODULE Protocol ------------------------------
(***************************************************************************)
(* The protocol layer: RequestEnvelope::from_http parses a request of one  *)
(* of four APIs (src/protocol/parse.rs), the server plans a tool call or a *)
(* message (src/server/tools.rs), and ResponseEnvelope renders it as JSON, *)
(* as a script of server-sent events, and, for a tool call, as the DSML    *)
(* block replayed later (src/protocol/render.rs).                          *)
(*                                                                         *)
(* Data abstraction.  A text is a sequence of symbols: the characters that *)
(* an escape treats specially, the words that detect_tool_intent looks     *)
(* for, "User: ", and letters.  A request body is the list of its          *)
(* messages, items or blocks, each with the fields the parsers ask for, a  *)
(* missing text being <<>>; a prompt is the sequence of its lines, each    *)
(* with the prefix that opens it.  An answer is the fields a client reads. *)
(***************************************************************************)
EXTENDS Integers, Sequences, FiniteSets, SequencesExt

CONSTANTS
    Bodies,     \* the request bodies, Bodies[api] a set of bodies
    Generated,  \* the sequences of token texts the model may generate
    Preview,    \* the text of preview_text_reply
    ChunkLen,   \* characters of a streamed chunk (24)
    None        \* Option::None

VARIABLES
    phase,      \* "parse", "plan", "answer" or "gated"
    api, body,  \* the request
    request,    \* its RequestEnvelope
    response,   \* the ResponseEnvelope
    live,       \* the token texts of stream_chat_completion_sse, or None
    sent,       \* events of the answer's script the client has read
    client      \* what it made of them

vars == <<phase, api, body, request, response, live, sent, client>>

Apis == {"chat", "responses", "completions", "messages"}
Kinds == <<"shell", "read", "search", "glob">>

ASSUME ProtocolAssumption ==
    /\ ChunkLen \in Nat \ {0}
    /\ DOMAIN Bodies \subseteq Apis

-----------------------------------------------------------------------------
(* Parsing.  An item: [type, role, text, array, id, args], type "message", *)
(* "call", "result" or "reasoning"; text <<>> and id and args None where   *)
(* the field is missing, array if the text stands in an array of parts,    *)
(* args a call's arguments as the client wrote them, with the white space  *)
(* ("blank", "newline") that JSON allows between two tokens.               *)
Unknown == "call_unknown"
Parsed == [system |-> <<>>, prompt |-> <<>>, call |-> None,
           results |-> FALSE, result |-> None]

IdOf(item) == IF item.id = None THEN Unknown ELSE item.id

\* str::lines of a text that opens with the prefix who.
Lines(who, text) ==
    LET cuts == SetToSortSeq({i \in DOMAIN text : text[i] = "newline"}
                               \union {0, Len(text) + 1}, <)
        line(i) == SubSeq(text, cuts[i] + 1, cuts[i + 1] - 1)
    IN [i \in 1..(Len(cuts) - 1) |->
          IF i = 1 THEN <<who, line(1)>>
          ELSE IF line(i) # <<>> /\ line(i)[1] = "User: " THEN <<"User", Tail(line(i))>>
          ELSE <<"", line(i)>>]

\* as_str yields nothing for an array; only the Messages parser reads the parts of
\* a message, each as an item of its own.
TextOf(a, item) ==
    IF item.array /\ ~(a = "messages" /\ item.type = "message") THEN <<>> ELSE item.text

\* The arguments of a call: two parsers copy a string, the third prints an object
\* again, without white space.  (It sorts the keys too; the bodies have one.)
ArgsOf(a, item) ==
    IF a # "messages" THEN IF item.args = None THEN <<>> ELSE item.args
    ELSE IF item.args = None THEN <<"open", "close">>
    ELSE SelectSeq(item.args, LAMBDA c : c \notin {"blank", "newline"})

ItemsOf(a, b) ==
    [i \in DOMAIN b.items |->
        [b.items[i] EXCEPT !.text = TextOf(a, b.items[i]), !.args = ArgsOf(a, b.items[i])]]

Say(p, who, text) ==
    IF text = <<>> THEN p
    ELSE IF who = "System" THEN [p EXCEPT !.system = Append(@, text)]
    ELSE [p EXCEPT !.prompt = @ \o Lines(who, text)]

ToolCall(p, item) ==
    [p EXCEPT !.prompt = @ \o Lines("AssistantToolCall", <<IdOf(item)>> \o item.args),
              !.call = IdOf(item)]

\* Mutant: the result of an empty output is the empty text.
ToolResultAlways(p, item) ==
    [Say(p, "ToolResult", item.text) EXCEPT
        !.result = item.text, !.call = IdOf(item), !.results = TRUE]

ToolResult(p, item) ==
    [Say(p, "ToolResult", item.text) EXCEPT
        !.result = IF item.text = <<>> THEN @ ELSE item.text,
        !.call = IdOf(item),
        !.results = TRUE]

\* A chat's result is its message of role "tool".
ChatItem(p, item) ==
    CASE item.type = "call" -> ToolCall(Say(p, "Assistant", item.text), item)
      [] item.type = "result" -> ToolResult(p, item)
      [] item.type = "message" /\ item.role \in {"system", "developer"} -> Say(p, "System", item.text)
      [] item.type = "message" /\ item.role = "user" -> Say(p, "User", item.text)
      [] item.type = "message" /\ item.role = "assistant" -> Say(p, "Assistant", item.text)
      [] OTHER -> p

\* Everyone who is neither the system nor the assistant is the user.
Speaker(role) == CASE role \in {"system", "developer"} -> "System"
                   [] role = "assistant" -> "Assistant"
                   [] OTHER -> "User"

\* Mutant: an output is stored without its call.
ResponsesItemForgets(p, item) ==
    CASE item.type = "message" -> Say(p, Speaker(item.role), item.text)
      [] item.type = "call" -> ToolCall(p, item)
      [] item.type = "result" -> [ToolResult(p, item) EXCEPT !.call = p.call]
      [] item.type = "reasoning" -> Say(p, "Assistant", item.text)

ResponsesItem(p, item) ==
    CASE item.type = "message" -> Say(p, Speaker(item.role), item.text)
      [] item.type = "call" -> ToolCall(p, item)
      [] item.type = "result" -> ToolResult(p, item)
      [] item.type = "reasoning" -> Say(p, "Assistant", item.text)

MessagesItem(p, item) ==
    CASE item.type = "message" -> Say(p, Speaker(item.role), item.text)
      [] item.type = "call" -> ToolCall(p, item)
      [] item.type = "result" -> ToolResult(p, item)
      [] OTHER -> p

\* instructions of a Responses body, system of a Messages body.
Preamble(b) == Say(Parsed, "System", b.system)

ParseItems(a, b) ==
    CASE a = "chat" -> FoldLeft(ChatItem, Parsed, ItemsOf(a, b))
      [] a = "responses" -> FoldLeft(ResponsesItem, Preamble(b), ItemsOf(a, b))
      [] a = "messages" -> FoldLeft(MessagesItem, Preamble(b), ItemsOf(a, b))
      [] a = "completions" -> Parsed

DefaultSystem == <<"default">>
Or(x, default) == IF x = <<>> THEN default ELSE x
OrElse(x, default) == IF x = None THEN default ELSE x

\* The raw body, whatever its API, has "role":"tool" or "tool_call_id" in it: as the
\* id of a chat's result, as the legacy field at its top, or anywhere else (marked),
\* such as the role of a message of another API or a property of a tool's schema.
RawHasResults(a, b) ==
    \/ b.callId # None
    \/ b.marked
    \/ a = "chat" /\ \E i \in DOMAIN b.items : b.items[i].type = "result" /\ b.items[i].id # None

\* extract_tools finds a name at the top of a tool or inside its "function"
\* (wrapped), a schema at the top only.
ExtractTools(tools) ==
    [i \in DOMAIN tools |->
        IF tools[i].wrapped THEN [tools[i] EXCEPT !.arg = None, !.described = FALSE]
        ELSE tools[i]]

\* A body that says nothing is taken for its prompt or input string; only the
\* Responses parser keeps what it has seen of the tools.
FromHttp(a, b) ==
    LET p == ParseItems(a, b)
        silent == p.system = <<>> /\ p.prompt = <<>>
        seen == IF silent /\ ~(a = "responses" /\ b.prompt # <<>>) THEN Parsed ELSE p
        raw == RawHasResults(a, b)
    IN [system |-> Or(p.system, <<IF silent THEN Or(b.system, DefaultSystem) ELSE DefaultSystem>>),
        prompt |-> Or(p.prompt, Lines("", IF silent THEN Or(b.prompt, <<"hello">>)
                                                    ELSE <<"hello">>)),
        call |-> OrElse(seen.call, b.callId),
        results |-> seen.results \/ raw,
        result |-> OrElse(seen.result, IF raw THEN b.content ELSE None),
        tools |-> ExtractTools(b.tools),
        stream |-> b.stream]

-----------------------------------------------------------------------------
(* Planning.  A tool: [kind, common, arg, described, wrapped], kind one of *)
(* Kinds or "other", common if its name is one of the last find_tool's,    *)
(* arg the first property of its schema or None, described if the schema   *)
(* has a description, wrapped if name and schema stand in its "function".  *)
LatestUserText(prompt) ==
    LET said == {i \in DOMAIN prompt : prompt[i][1] = "User"}
    IN IF said # {} THEN prompt[Max(said)][2]
       ELSE FlattenSeq([i \in DOMAIN prompt |-> prompt[i][2]])

\* Words of detect_tool_intent.
Needles == [shell |-> {"run ", "ls"}, read |-> {"open "}, search |-> {"grep"}, glob |-> {"glob"}]

Intent(text) == {k \in Range(Kinds) : Needles[k] \intersect Range(text) # {}}

ShortCircuits(r) ==
    /\ r.tools # <<>>
    /\ ~r.results
    /\ Intent(LatestUserText(r.prompt)) # {}

FirstTool(tools, fits) == IF fits = {} THEN None ELSE tools[Min(fits)]

OfKind(tools, k) == {i \in DOMAIN tools : tools[i].kind = k}

\* Mutant: the tools every client has go first.
ChooseToolCommonFirst(tools, text) ==
    OrElse(FirstTool(tools, {i \in DOMAIN tools : tools[i].common}), tools[1])

ChooseTool(tools, text) ==
    LET wanted == {i \in DOMAIN Kinds : /\ Kinds[i] \in Intent(text)
                                        /\ OfKind(tools, Kinds[i]) # {}}
        common == FirstTool(tools, {i \in DOMAIN tools : tools[i].common})
    IN IF wanted # {} THEN FirstTool(tools, OfKind(tools, Kinds[Min(wanted)]))
       ELSE OrElse(common, tools[1])

JsonEscape(text) ==
    FlattenSeq([i \in DOMAIN text |->
        CASE text[i] = "quote" -> <<"backslash", "quote">>
          [] text[i] = "backslash" -> <<"backslash", "backslash">>
          [] text[i] = "newline" -> <<"backslash", "n">>
          [] text[i] = "control" -> <<"backslash", "u", "hex">>
          [] OTHER -> <<text[i]>>])

Quoted(text) == <<"quote">> \o text \o <<"quote">>

\* Mutant: the key is escaped and the prompt is not.
MemberUnescaped(key, text) == Quoted(JsonEscape(key)) \o <<"colon">> \o Quoted(text)

Member(key, text) == Quoted(JsonEscape(key)) \o <<"colon">> \o Quoted(JsonEscape(text))

ShellCommand(text) == IF "ls" \in Range(text) THEN <<"ls -la">> ELSE text

InferPath(text) ==
    LET quotes == {i \in DOMAIN text : text[i] = "quote"}
        start == Min(quotes)
        end == Min(quotes \ {start})
    IN IF Cardinality(quotes) < 2 \/ end = start + 1 THEN text
       ELSE SubSeq(text, start + 1, end - 1)

\* What the arguments of a call must say: pairs of a key and a text.
Arguments(tool, text) ==
    LET key(default) == IF tool.arg = None THEN <<default>> ELSE tool.arg IN
    CASE tool.kind = "shell" /\ tool.described ->
            << <<<<"command">>, ShellCommand(text)>>, <<<<"description">>, <<"runs">>>> >>
      [] tool.kind = "shell" /\ ~tool.described -> << <<<<"command">>, ShellCommand(text)>> >>
      [] tool.kind = "read" -> << <<key("file_path"), InferPath(text)>> >>
      [] tool.kind = "search" -> << <<key("pattern"), text>> >>
      [] OTHER -> << <<IF tool.arg = <<>> THEN <<"input">> ELSE key("input"), text>> >>

BuildArguments(pairs) ==
    LET members == [i \in DOMAIN pairs |-> Member(pairs[i][1], pairs[i][2])]
        comma(i) == IF i = 1 THEN <<>> ELSE <<"comma">>
    IN <<"open">> \o FlattenSeq([i \in DOMAIN members |-> comma(i) \o members[i]])
         \o <<"close">>

-----------------------------------------------------------------------------
(* Rendering.  A response: [call, message], call None or [name, args].  An *)
(* event: [name, text], text the JSON text of the string it carries.       *)
NewMessage(text) == [call |-> None, message |-> text]

NewToolCall(name, args) == [call |-> [name |-> name, args |-> args], message |-> <<>>]

\* Mutant: the characters after the last full chunk are left out.
StreamChunksFull(text) ==
    LET n == Len(text) \div ChunkLen
    IN IF n = 0 THEN <<<<>>>>
       ELSE [i \in 1..n |-> SubSeq(text, (i - 1) * ChunkLen + 1, Min({i * ChunkLen, Len(text)}))]

StreamChunks(text) ==
    LET n == (Len(text) + ChunkLen - 1) \div ChunkLen
    IN IF n = 0 THEN <<<<>>>>
       ELSE [i \in 1..n |-> SubSeq(text, (i - 1) * ChunkLen + 1, Min({i * ChunkLen, Len(text)}))]

Event(name, text) == [name |-> name, text |-> JsonEscape(text)]
Deltas(name, chunks) == [i \in DOMAIN chunks |-> Event(name, chunks[i])]
Marks(names) == [i \in DOMAIN names |-> Event(names[i], <<>>)]

ChatSse(r) ==
    Marks(<<"role">>)
    \o (IF r.call # None
          THEN <<Event("tool_call", <<r.call.name>>)>>
               \o Deltas("arguments", StreamChunks(r.call.args))
               \o <<Event("finish", <<"tool_calls">>)>>
          ELSE Deltas("content", StreamChunks(r.message))
               \o <<Event("finish", <<"stop">>)>>)
    \o Marks(<<"[DONE]">>)

ResponsesSse(r) ==
    LET text == IF r.call # None THEN r.call.args ELSE r.message
        all(names) == [i \in DOMAIN names |-> Event(names[i], text)]
    IN Marks(<<"response.created", "response.in_progress", "output_item.added">>)
       \o (IF r.call # None
             THEN Deltas("function_call_arguments.delta", StreamChunks(text))
                  \o all(<<"function_call_arguments.done">>)
             ELSE Marks(<<"content_part.added">>)
                  \o Deltas("output_text.delta", StreamChunks(text))
                  \o all(<<"output_text.done", "content_part.done">>))
       \o all(<<"output_item.done", "response.completed">>)

\* A tool call is not part of this API: its answer is the empty message.
CompletionsSse(r) ==
    Deltas("text", StreamChunks(r.message)) \o <<Event("finish", <<"stop">>)>>
    \o Marks(<<"[DONE]">>)

MessagesSse(r) ==
    Marks(<<"message_start", "content_block_start">>)
    \o (IF r.call # None THEN Deltas("input_json_delta", StreamChunks(r.call.args))
                         ELSE Deltas("text_delta", StreamChunks(r.message)))
    \o Marks(<<"content_block_stop">>)
    \o <<Event("message_delta", <<IF r.call # None THEN "tool_use" ELSE "end_turn">>)>>
    \o Marks(<<"message_stop">>)

ToSse(a, r) ==
    CASE a = "chat" -> ChatSse(r) [] a = "responses" -> ResponsesSse(r)
      [] a = "completions" -> CompletionsSse(r) [] a = "messages" -> MessagesSse(r)

\* The text and the reason to stop of the JSON answer, as its reader decodes
\* them; raw_json_or_string leaves an object as it is.
ToJson(a, r) ==
    IF a = "completions" \/ r.call = None
      THEN [text |-> JsonEscape(r.message), raw |-> FALSE,
            stop |-> CASE a \in {"chat", "completions"} -> "stop"
                       [] a = "responses" -> "completed" [] a = "messages" -> "end_turn"]
      ELSE [text |-> IF a = "messages" THEN r.call.args ELSE JsonEscape(r.call.args),
            raw |-> a = "messages",
            stop |-> CASE a = "chat" -> "tool_calls" [] a = "responses" -> "completed"
                       [] a = "messages" -> "tool_use"]

\* stream_chat_completion_sse: a token whose text is empty or a terminal marker
\* is decoded and not sent.
Kept(pieces) == SelectSeq(pieces, LAMBDA p : p \notin {<<>>, <<"</think>">>, <<"newline">>})

LiveSse(pieces) ==
    Marks(<<"role">>) \o Deltas("content", Kept(pieces))
    \o <<Event("finish", <<"stop">>)>> \o Marks(<<"[DONE]">>)

-----------------------------------------------------------------------------
(* The DSML block of a tool call, as the list of its parameters.           *)
Decoded(c) == IF c = "n" THEN "newline" ELSE c

\* The string that opens at start and the place after it, or None.
ParseString(input, start) ==
    LET step(s, c) ==
            IF s.closed THEN s
            ELSE IF s.escaped
              THEN [s EXCEPT !.text = Append(@, Decoded(c)), !.escaped = FALSE, !.next = @ + 1]
            ELSE IF c = "backslash" THEN [s EXCEPT !.escaped = TRUE, !.next = @ + 1]
            ELSE IF c = "quote" THEN [s EXCEPT !.closed = TRUE, !.next = @ + 1]
            ELSE [s EXCEPT !.text = Append(@, c), !.next = @ + 1]
        end == FoldLeft(step, [text |-> <<>>, escaped |-> FALSE, closed |-> FALSE,
                               next |-> start + 1],
                        SubSeq(input, start + 1, Len(input)))
    IN IF start <= Len(input) /\ input[start] = "quote" /\ end.closed THEN end ELSE None

ParseObject(input) ==
    LET n == Len(input)
        at(pos, c) == pos <= n /\ input[pos] = c
        members[pos \in 1..(n + 1)] ==
            LET key == ParseString(input, pos)
                value == ParseString(input, key.next + 1)
                arg == <<<<key.text, value.text>>>>
            IN IF at(pos, "close") THEN <<>>
               ELSE IF key = None THEN None
               ELSE IF ~at(key.next, "colon") THEN None
               ELSE IF value = None THEN None
               ELSE IF at(value.next, "close") THEN arg
               ELSE IF ~at(value.next, "comma") THEN None
               ELSE IF members[value.next + 1] = None THEN None
               ELSE arg \o members[value.next + 1]
    IN IF at(1, "open") /\ input[n] = "close" THEN members[2] ELSE None

EscapeDsmlAttr(text) ==
    [i \in DOMAIN text |-> IF text[i] = "quote" THEN "&quot;" ELSE text[i]]

EscapeDsmlText(text) ==
    [i \in DOMAIN text |-> IF text[i] = "</parameter>" THEN "&lt;/parameter>" ELSE text[i]]

DsmlParameters(pairs) ==
    [i \in DOMAIN pairs |-> <<EscapeDsmlAttr(pairs[i][1]), EscapeDsmlText(pairs[i][2])>>]

CanonicalDsml(call) ==
    DsmlParameters(OrElse(ParseObject(call.args), <<<<<<"arguments">>, call.args>>>>))

-----------------------------------------------------------------------------
(* A client of the four event protocols, outside this repository: it reads *)
(* JSON strings, keeps the stack of what is open and the text so far.      *)
Unescape(text) ==
    LET step(s, c) ==
            CASE s.mode = "char" /\ c = "backslash" -> [s EXCEPT !.mode = "escape"]
              [] s.mode = "char" /\ c # "backslash" -> [s EXCEPT !.text = Append(@, c)]
              [] s.mode = "escape" /\ c = "u" -> [s EXCEPT !.mode = "hex"]
              [] s.mode = "escape" /\ c # "u" ->
                    [mode |-> "char", text |-> Append(s.text, Decoded(c))]
              [] s.mode = "hex" -> [mode |-> "char", text |-> Append(s.text, "control")]
    IN FoldLeft(step, [mode |-> "char", text |-> <<>>], text).text

Closer == [x \in {"role", "response.created", "output_item.added", "content_part.added",
                   "message_start", "content_block_start"} |->
    CASE x = "role" -> "[DONE]" [] x = "response.created" -> "response.completed"
      [] x = "output_item.added" -> "output_item.done" [] x = "content_part.added" -> "content_part.done"
      [] x = "message_start" -> "message_stop" [] x = "content_block_start" -> "content_block_stop"]

\* What must be innermost for a delta, and for the reason to stop.
Inside == [x \in {"content", "arguments", "text", "finish", "output_text.delta",
                   "function_call_arguments.delta", "text_delta", "input_json_delta",
                   "message_delta"} |->
    CASE x \in {"content", "arguments", "text", "finish"} -> "role"
      [] x = "output_text.delta" -> "content_part.added"
      [] x = "function_call_arguments.delta" -> "output_item.added"
      [] x \in {"text_delta", "input_json_delta"} -> "content_block_start"
      [] x = "message_delta" -> "message_start"]

Totals == {"output_text.done", "content_part.done", "function_call_arguments.done",
           "output_item.done", "response.completed"}
Stops == {"finish", "message_delta", "response.completed"}

Fresh(a) == [open |-> IF a = "completions" THEN <<"role">> ELSE <<>>,
             text |-> <<>>, stop |-> None, bad |-> FALSE]

ReadEvent(c, e) ==
    LET text == Unescape(e.text)
        innermost == IF c.open = <<>> THEN "" ELSE Last(c.open)
        closes == e.name \in Range(Closer)
        delta == e.name \in DOMAIN Inside \ Stops
    IN [open |-> IF e.name \in DOMAIN Closer THEN Append(c.open, e.name)
                 ELSE IF closes /\ c.open # <<>> THEN Front(c.open) ELSE c.open,
        text |-> IF delta THEN c.text \o text ELSE c.text,
        stop |-> CASE e.name = "response.completed" -> "completed"
                   [] e.name \in {"finish", "message_delta"} -> text[1]
                   [] OTHER -> c.stop,
        bad |-> \/ c.bad
                \/ closes /\ (innermost = "" \/ Closer[innermost] # e.name)
                \/ e.name \in DOMAIN Inside /\ innermost # Inside[e.name]
                \/ delta /\ c.stop # None
                \/ e.name \in Totals /\ text # c.text]

-----------------------------------------------------------------------------
(* One request.                                                            *)
Init ==
    /\ phase = "parse" /\ request = None /\ response = None /\ live = None /\ sent = 0
    /\ api \in DOMAIN Bodies
    /\ body \in Bodies[api]
    /\ client = Fresh(api)

Parse ==
    /\ phase = "parse"
    /\ request' = FromHttp(api, body)
    /\ phase' = "plan"
    /\ UNCHANGED <<api, body, response, live, sent, client>>

\* should_short_circuit_tool_planning and choose_tool_call.
PlanTool ==
    LET text == LatestUserText(request.prompt)
        tool == ChooseTool(request.tools, text)
    IN /\ phase = "plan"
       /\ ShortCircuits(request)
       /\ response' = NewToolCall(tool.kind, BuildArguments(Arguments(tool, text)))
       /\ phase' = "answer"
       /\ UNCHANGED <<api, body, request, live, sent, client>>

\* No model, or one whose blocks are not all bound: 503.
Gate ==
    /\ phase = "plan"
    /\ ~ShortCircuits(request)
    /\ phase' = "gated"
    /\ UNCHANGED <<api, body, request, response, live, sent, client>>

\* A streamed chat sends the tokens as they are; any other answer falls back
\* on the preview when the generation fails or makes no sense.
Generate ==
    /\ phase = "plan"
    /\ ~ShortCircuits(request)
    /\ \E pieces \in Generated :
        IF request.stream /\ api = "chat"
          THEN /\ live' = pieces
               /\ response' = NewMessage(FlattenSeq(Kept(pieces)))
          ELSE /\ \E text \in {FlattenSeq(pieces), Preview} : response' = NewMessage(text)
               /\ UNCHANGED live
    /\ phase' = "answer"
    /\ UNCHANGED <<api, body, request, sent, client>>

Script == IF live # None THEN LiveSse(live) ELSE ToSse(api, response)

ReadNext ==
    /\ phase = "answer"
    /\ sent < Len(Script)
    /\ client' = ReadEvent(client, Script[sent + 1])
    /\ sent' = sent + 1
    /\ UNCHANGED <<phase, api, body, request, response, live>>

Next == Parse \/ PlanTool \/ Gate \/ Generate \/ ReadNext

Spec == Init /\ [][Next]_vars

-----------------------------------------------------------------------------
TextAt(i) == TextOf(api, body.items[i])
Items == {i \in DOMAIN body.items : body.items[i].type \in {"call", "result"}}
Outputs == {i \in DOMAIN body.items : body.items[i].type = "result"}
Visible == {i \in Outputs : TextAt(i) # <<>>}

\* What the server continues from (from_http with the three parsers): whatever
\* the order and the number of calls and results, the envelope names the call
\* spoken of last, shows the last result with a text the parser reads, and has
\* results iff the conversation does or the raw body looks like it (parse.rs:53).
\* (A body with nothing to say is left to its prompt, and legacy fields fill in for
\* what the items do not say.)
EnvelopeFollowsConversation ==
    phase # "parse" /\ api # "completions" /\ body.callId = None /\ body.content = None
      /\ (ParseItems(api, body).system # <<>> \/ ParseItems(api, body).prompt # <<>>)
    => /\ request.results <=> Outputs # {} \/ body.marked
       /\ request.call = IF Items = {} THEN None ELSE IdOf(body.items[Max(Items)])
       /\ request.result = IF Visible = {} THEN None ELSE TextAt(Max(Visible))

\* Items that the three conversation APIs all have and all read: texts that are
\* strings, and arguments that are there, without white space.
Portable ==
    /\ body.callId = None /\ body.content = None /\ ~body.marked
    /\ body.system = <<>> /\ body.prompt = <<>>
    /\ \A i \in DOMAIN body.items : LET item == body.items[i] IN
        /\ item.type # "reasoning" /\ ~item.array
        /\ item.type = "call" =>
              /\ item.text = <<>>
              /\ item.args # None /\ {"blank", "newline"} \intersect Range(item.args) = {}
        /\ item.role \in {"system", "user", "assistant"}
    /\ \E i \in DOMAIN body.items : body.items[i].text # <<>>

\* The body as a client of the API writes it: a chat's tools are wrapped.
Written(a, b) ==
    [b EXCEPT !.tools = [i \in DOMAIN @ |-> [@[i] EXCEPT !.wrapped = (a = "chat")]]]

\* An envelope without the schemas of its tools.
Unschemed(r) ==
    [r EXCEPT !.tools = [i \in DOMAIN @ |-> [kind |-> @[i].kind, common |-> @[i].common]]]

\* parse_chat_request, parse_responses_request and parse_messages_request are
\* three loops over three layouts: the same conversation gives the same
\* envelope through each of them, but for the schemas of its tools, which a chat
\* loses (ExtractTools).
ApisAgree ==
    phase # "parse" /\ Portable =>
        \A a \in {"chat", "responses", "messages"} :
            Unschemed(FromHttp(a, Written(a, body)))
              = Unschemed(FromHttp("chat", Written("chat", body)))

UserItems == {i \in DOMAIN body.items : /\ body.items[i].type = "message"
                                        /\ body.items[i].role = "user"
                                        /\ TextAt(i) # <<>>}
QuotesUser(text) ==
    \E i \in 1..(Len(text) - 1) : text[i] = "newline" /\ text[i + 1] = "User: "

\* select_best_tool and latest_user_text: a planned call answers the first line
\* of the last thing the parser has read of the user, not an earlier message,
\* another speaker or a result, with a tool of a kind that line asks for when one
\* is offered.  (Unless some text has a line that opens with "User: ".)
ToolServesIntent ==
    phase = "answer" /\ response.call # None /\ api # "completions" /\ UserItems # {}
      /\ (\A i \in DOMAIN body.items :
            /\ ~QuotesUser(body.items[i].text) /\ ~QuotesUser(ArgsOf(api, body.items[i]))
            /\ body.items[i].role \in {"system", "user", "assistant"})
    => LET text == Lines("", TextAt(Max(UserItems)))[1][2]
       IN /\ Intent(text) # {}
          /\ (\E i \in DOMAIN body.tools : body.tools[i].kind \in Intent(text))
                => response.call.name \in Intent(text)

\* build_tool_arguments_for_tool against parse_json_object_arguments: the DSML
\* block kept for replay has the parameters the call was built from, none of
\* which closes its element early.  (json_escape writes a control character as
\* \u00XX, which parse_json_string_at does not read back: those texts are not
\* covered.)
ReplayArgsFaithful ==
    phase = "answer" /\ response.call # None =>
        LET text == LatestUserText(request.prompt)
            pairs == Arguments(ChooseTool(request.tools, text), text)
            dsml == CanonicalDsml(response.call)
        IN "control" \notin Range(text) =>
            /\ dsml = DsmlParameters(pairs)
            /\ \A i \in DOMAIN dsml : "</parameter>" \notin Range(dsml[i][2])

\* Each event of to_sse and of the live stream fits what is open: a delta inside
\* its item, every item closed once and in order, nothing after the reason to
\* stop, and the "done" events repeat what the deltas added up to.  At its end the
\* client has the text and the reason to stop of the JSON answer (to_json), and
\* of the live stream those of the message that is remembered.
StreamMatchesJson ==
    /\ ~client.bad
    /\ phase = "answer" /\ sent = Len(Script) =>
        LET json == ToJson(api, response)
        IN /\ client.open = <<>>
           /\ client.text = IF json.raw THEN json.text ELSE Unescape(json.text)
           /\ client.stop = json.stop
=============================================================================

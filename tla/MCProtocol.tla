----------------------------- MODULE MCProtocol -----------------------------
(* Conversations of up to three items, with and without tools.             *)
EXTENDS Protocol

Item(type, role, text, id, args) ==
    [type |-> type, role |-> role, text |-> text, array |-> FALSE, id |-> id, args |-> args]
Msg(role, text) == Item("message", role, text, None, None)
Call(id, args) == Item("call", "assistant", <<>>, id, args)
Result(id, text) == Item("result", "user", text, id, None)
Parts(item) == [item EXCEPT !.array = TRUE]

MCTexts == {<<"run ", "quote", "x", "quote">>, <<"open ", "backslash", "newline", "y", "run ">>,
            <<"hi">>}
MCItems == {Msg("user", t) : t \in MCTexts}
             \union {Msg("assistant", <<"run ", "z">>), Msg("system", <<"s">>), Call("c1", <<"k">>),
                     Result("c1", <<"out">>), Result("c2", <<>>), Result(None, <<"late">>)}

Tool(kind, common, arg) ==
    [kind |-> kind, common |-> common, arg |-> arg, described |-> kind = "shell", wrapped |-> FALSE]
MCToolLists == {<<>>, <<Tool("other", FALSE, <<"q">>), Tool("read", TRUE, None), Tool("shell", FALSE, None)>>}

Body(items, tools, stream) ==
    [items |-> items, system |-> <<>>, prompt |-> <<>>, tools |-> tools, stream |-> stream,
     callId |-> None, content |-> None, marked |-> FALSE]
Conversations == {<<a>> : a \in MCItems} \union (MCItems \X MCItems) \union
                 {<<a, b, c>> : a \in {Msg("user", <<"hi">>), Call("c1", <<"k">>)}, b \in MCItems, c \in MCItems}
Plain == {Body(c, t, FALSE) : c \in Conversations, t \in MCToolLists}

\* The features only some of the APIs have, and the fallbacks.
Odd == {[Body(<<>>, <<>>, TRUE) EXCEPT !.prompt = p, !.callId = i, !.content = <<"top">>] :
            p \in {<<>>, <<"grep", "comma", "</parameter>">>}, i \in {None, "c9"}}
         \union {[Body(<<Result("c1", <<>>)>>, <<>>, TRUE) EXCEPT !.prompt = p] : p \in {<<>>, <<"p">>}}
         \union {[Body(<<Msg("user", <<"hi">>), i>>, <<Tool("other", FALSE, <<"q">>)>>, TRUE)
                    EXCEPT !.system = <<"sys">>] :
                  i \in {Msg("critic", <<"glob">>), Item("reasoning", "", <<"think">>, None, None),
                         Msg("user", <<"grep", "close", "quote", "comma", "</parameter>">>),
                         Msg("user", <<"ls", "control">>), Msg("user", <<"open ", "quote", "a", "backslash", "quote">>),
                         Msg("user", <<"x", "newline", "User: ", "glob">>)}}
         \union {Body(<<Msg("user", <<"ls">>)>>, <<Tool("search", FALSE, None), Tool("glob", TRUE, <<"p">>)>>, TRUE),
                 Body(<<Msg("user", <<"glob", "open ">>)>>, <<Tool("shell", FALSE, None), Tool("read", TRUE, <<"p">>),
                                                             Tool("glob", TRUE, <<"p">>)>>, TRUE),
                 Body(<<[Call("c1", None) EXCEPT !.text = <<"said">>]>>, <<>>, TRUE)}

\* Texts in arrays, arguments with white space or none, and raw bodies that look
\* as if they had results.
Raw == {Body(<<Msg("user", <<"run ", "x">>), i>>, <<Tool("shell", FALSE, <<"command">>)>>, FALSE) :
            i \in {Parts(Msg("user", <<"grep", "newline", "x">>)), Parts(Msg("assistant", <<"so">>)),
                   Call("c1", <<"open", "blank", "close">>), Call(None, None), Parts(Result("c1", <<"out">>)),
                   Call("c1", <<"k", "newline", "User: ", "glob">>)}}
         \union {[Body(<<Msg("user", <<"run ", "x">>)>> \o c, <<Tool("shell", FALSE, <<"command">>)>>, s)
                    EXCEPT !.marked = TRUE, !.content = t] :
                  c \in {<<>>, <<Call("c1", <<"k">>)>>, <<Result(None, <<>>)>>}, s \in BOOLEAN,
                  t \in {None, <<"top">>}}

\* A message of role "tool", which only a chat takes for a result.
ToolRole == [Body(<<Msg("user", <<"ls">>), Msg("tool", <<"out">>)>>, <<Tool("shell", FALSE, <<"command">>)>>, FALSE)
                EXCEPT !.marked = TRUE]

\* Each body as a client of the API writes it, some of them also as one of another.
MCBodies == [a \in Apis |-> {Written(a, b) : b \in Plain \union Raw} \union Odd
                              \union (IF a = "chat" THEN {} ELSE {ToolRole})]
MCGenerated == {<<>>, <<<<"a", "quote">>, <<"</think>">>, <<"newline", "b">>, <<>>, <<"control", "c">>>>}
MCPreview == <<"p", "r", "e", "newline">>
=============================================================================

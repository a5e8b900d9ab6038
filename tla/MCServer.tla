------------------------------ MODULE MCServer ------------------------------
(* Small sets of clients for Server. *)
EXTENDS Server, TLC

CONSTANTS p1, p2, p3, p4, p5, p6, u1, u2, b1, none_block, conv1

B(api, plan, stream, prompt, conversation, after, how, block) ==
    [api |-> api, plan |-> plan, stream |-> stream, prompt |-> prompt,
     conversation |-> conversation, after |-> after, block |-> block,
     quotes_id |-> how = "id", tool_results |-> how = "tool"]

\* A tool call; its follow-up; a conversation whose first turn is streamed
\* and whose second leaves no room to generate; a client that continues the
\* tool call by its id in that same conversation; and its next turn, which
\* is too long for the context.
Mixed ==
    p1 :> B("resp", TRUE, FALSE, <<u1>>, None, None, "new", b1) @@
    p2 :> B("resp", FALSE, FALSE, <<u1, AssistantLine, ResultLine>>, None, p1, "tool", none_block) @@
    p3 :> B("chatcmpl", FALSE, TRUE, <<u2>>, conv1, None, "new", none_block) @@
    p4 :> B("chatcmpl", FALSE, TRUE, <<u2, u1, u2>>, conv1, p3, "conversation", none_block) @@
    p5 :> B("resp", FALSE, TRUE, <<u2>>, conv1, p1, "id", none_block) @@
    p6 :> B("resp", FALSE, FALSE, <<u2, u1, u2, u1>>, None, p5, "id", none_block)
=============================================================================

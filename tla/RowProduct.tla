----------------------------- MODULE RowProduct -----------------------------
(***************************************************************************)
(* What a caller of src/kernels/matmul.rs is promised, whatever function   *)
(* it calls and however many threads there are: the product that the plain *)
(* loop over tokens and rows computes, in one step, or None if a row of    *)
(* the tensor is not there.                                                *)
(***************************************************************************)
EXTENDS Integers

CONSTANTS
    Calls,      \* [kind, n, row0, tokens, have], as in MatmulRows
    MaxCalls    \* bound: calls in a behaviour

VARIABLES
    call,      \* the call under way, or the last one
    number,    \* how many calls there were
    verdict,   \* "run", "some" or "none"
    product    \* product[i]: where entry i comes from; nothing without a Some

vars == <<call, number, verdict, product>>

Nothing == [i \in {} |-> <<0, 0, 0>>]

\* The entries of the loop, token after token.
Loop ==
    [i \in 0..(call.tokens * call.n - 1) |->
        <<number, i \div call.n, call.row0 + (i % call.n)>>]

\* Every row the call asks for is in the tensor.
Complete == \A row \in 0..(call.n - 1) : call.row0 + row < call.have

Init == call \in Calls /\ number = 0 /\ verdict = "none" /\ product = Nothing

Ask(c) ==
    /\ verdict # "run" /\ number < MaxCalls
    /\ call' = c /\ number' = number + 1
    /\ verdict' = "run" /\ product' = Nothing

Reply ==
    /\ verdict = "run"
    /\ verdict' = IF Complete THEN "some" ELSE "none"
    /\ product' = IF Complete THEN Loop ELSE Nothing
    /\ UNCHANGED <<call, number>>

Next == Reply \/ \E c \in Calls : Ask(c)

\* A call that was made returns.
Spec == Init /\ [][Next]_vars /\ WF_vars(Reply)
=============================================================================

------------------------------ MODULE MCSession ------------------------------
(* Small engines and callers for Session. *)
EXTENDS Session, TLC

CONSTANTS a, b, x

\* Two tokens that decode and one (x) that fails in the first block's FFN,
\* after its row was pushed there.
MixedTokens == {a, b, x}
MixedRows == (a :> 2 @@ b :> 2 @@ x :> 1)
SeqsUpTo(S, n) == UNION {[1..k -> S] : k \in 0..n}
MixedPrompts == SeqsUpTo(MixedTokens, 3)
ShortRaw == {<<>>, <<b>>, <<x>>}
=============================================================================

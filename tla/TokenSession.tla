---------------------------- MODULE TokenSession ----------------------------
(***************************************************************************)
(* What a caller of src/session.rs may think a session is: the tokens it   *)
(* has consumed, fewer than its limit, and the logits that a session which *)
(* has only ever prefilled these tokens would have.  The cache, the paths  *)
(* of a prefill and the fallbacks of a failed pass do not show.            *)
(***************************************************************************)
EXTENDS Integers, Sequences

CONSTANTS
    Tokens,     \* token ids
    Limits,     \* context limits a session is created with
    Prompts,    \* prompts a caller may sync
    Payloads,   \* legacy snapshots: bare token sequences
    Fresh(_)    \* the logits after a prefill of these tokens alone

VARIABLES
    limit,      \* the context limit
    tokens,     \* what was consumed
    logits,     \* what follows it
    kept        \* the snapshots callers hold

vars == <<limit, tokens, logits, kept>>

Hold(s) == tokens' = s /\ logits' = Fresh(s)

Init == limit \in Limits /\ tokens = <<>> /\ logits = Fresh(<<>>) /\ kept = {}

Create(n) == limit' = n /\ Hold(<<>>) /\ UNCHANGED kept

Prefill(prompt) == Len(prompt) < limit /\ Hold(prompt) /\ UNCHANGED <<limit, kept>>

Decode(token) ==
    /\ Len(tokens) + 1 < limit
    /\ Hold(Append(tokens, token))
    /\ UNCHANGED <<limit, kept>>

\* An invalidated session is one that is rewound to its start.
Rewind(n) == Hold(SubSeq(tokens, 1, n)) /\ UNCHANGED <<limit, kept>>

Save ==
    /\ kept' = kept \union {[limit |-> limit, tokens |-> tokens, logits |-> logits]}
    /\ UNCHANGED <<limit, tokens, logits>>

Drop(s) == kept' = kept \ {s} /\ UNCHANGED <<limit, tokens, logits>>

Load(s) ==
    /\ limit' = s.limit /\ tokens' = s.tokens /\ logits' = s.logits
    /\ UNCHANGED kept

\* A bare payload has no limit, and its length is not looked at.
LoadRaw(payload) == Hold(payload) /\ UNCHANGED <<limit, kept>>

Next ==
    \/ \E n \in Limits : Create(n)
    \/ \E prompt \in Prompts : Prefill(prompt)
    \/ \E token \in Tokens : Decode(token)
    \/ \E n \in 0..Len(tokens) : Rewind(n)
    \/ Save
    \/ \E s \in kept : Drop(s) \/ Load(s)
    \/ \E payload \in Payloads : LoadRaw(payload)

Spec == Init /\ [][Next]_vars
=============================================================================

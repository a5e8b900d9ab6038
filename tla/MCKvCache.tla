----------------------------- MODULE MCKvCache -----------------------------
(* Small caches for KvCache. *)
EXTENDS KvCache

CONSTANTS k1, t1, t2, b1, b2, b3, c1, c2, blk1, blk2

E(text, tokens, snap, body, replay, reason) ==
    [text |-> text, tokens |-> tokens, snap |-> snap, body |-> body,
     replay |-> replay, reason |-> reason]
R(id, block) == [id |-> id, block |-> block]

\* A prefix entry, one with a tool block and no tokens of its own, and one
\* whose snapshot has run past its tokens.
MixedEntries == {E(t1, 2, 2, b1, {}, "cold"),
                 E(t2, 0, 2, b2, {R(c1, blk1)}, "chat"),
                 E(t1, 1, 2, b3, {}, "chat")}
OldEntries == {E(t1, 1, 2, b1, {}, "cold")}
=============================================================================

--------------------------- MODULE MCContinuation ---------------------------
(* A small continuation store. *)
EXTENDS Continuation

CONSTANTS r1, r2, r3, conv1, conv2, call1, call2, snap
=============================================================================

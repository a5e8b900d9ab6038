----------------------------- MODULE MatmulRows -----------------------------
(***************************************************************************)
(* The row-parallel matrix products of src/kernels/matmul.rs.  A call      *)
(* computes n rows of a tensor for each token of a batch; from             *)
(* PARALLEL_ROW_THRESHOLD rows on they are cut into chunks, one scoped     *)
(* thread each.                                                            *)
(*                                                                         *)
(* The functions differ in where a thread puts what it computes:           *)
(*   "collect"  in a chunk that the caller copies to a vector of its own,  *)
(*   "batch"    in a chunk, tokens first, that the caller copies to the    *)
(*              buffer it was given with a stride of n,                    *)
(*   "into"     straight in its part of the buffer.                        *)
(* The pair functions compute two tensors in step; a pair is one value.    *)
(* A value is the call, the token and the tensor row it was computed from. *)
(* Rows, tokens and positions count from 0.                                *)
(***************************************************************************)
EXTENDS Integers

CONSTANTS
    Calls,         \* what callers ask for: [kind, n, row0, tokens, have]
    Parallelism,   \* what available_parallelism may say
    Threshold,     \* PARALLEL_ROW_THRESHOLD
    MinRows,       \* MIN_ROWS_PER_THREAD
    MaxCalls       \* bound: calls in a behaviour

\* have: the tensor has bytes for so many rows.  The callers refuse an empty
\* batch and an empty tensor.
ASSUME RowsAssumption ==
    /\ Calls \subseteq [kind : {"collect", "batch", "into"}, n : Nat \ {0}, row0 : Nat,
                        tokens : Nat \ {0}, have : Nat]
    /\ \A c \in Calls : c.kind # "batch" => c.tokens = 1
    /\ Parallelism \subseteq Nat \ {0}
    /\ Threshold \in Nat /\ MinRows \in Nat \ {0} /\ MaxCalls \in Nat

VARIABLES
    call,     \* the call under way, or the last one
    number,   \* how many calls there were
    size,     \* the rows of a chunk
    done,     \* done[s]: entries the thread of the chunk at row s has computed
    failed,   \* the chunks whose thread returned None
    chunk,    \* chunk[s]: what it has collected
    joined,   \* the chunks that have been joined
    out,      \* the output buffer
    ret       \* "run", "failing", "some" or "none"

vars == <<call, number, size, done, failed, chunk, joined, out, ret>>

-----------------------------------------------------------------------------
DivCeil(a, b) == (a + b - 1) \div b
Least(a, b) == IF a < b THEN a ELSE b
Greatest(a, b) == IF a < b THEN b ELSE a

ParallelRowThreads(rows, available) ==
    IF rows < Threshold THEN 1
    ELSE Greatest(Least(available, DivCeil(rows, MinRows)), 1)

\* With one thread, the caller's own, that is all rows.
ChunkSize(rows, available) == DivCeil(rows, ParallelRowThreads(rows, available))

\* (0..rows).step_by(step), and the starts of chunks_mut(step)
Starts(rows, step) == {s \in 0..(rows - 1) : s % step = 0}

\* The rows of the chunk at s: fewer at the end.
Width(rows, step, s) == Least(s + step, rows) - s

WidthAt(s) == Width(call.n, size, s)
Sequential == size >= call.n
InPlace == Sequential \/ call.kind = "into"

\* The k-th entry of a chunk: its token, and its row in the call.
TokenOf(s, k) == k \div WidthAt(s)
RowOf(s, k) == s + (k % WidthAt(s))
Position(token, row) == token * call.n + row

\* Mutant: the first row is left out of the bound.
HasRowLocal(row) == row < call.have

\* dot_tensor_row and its kin: None past the end of the tensor's bytes.
HasRow(row) == call.row0 + row < call.have
Value(token, row) == <<number, token, call.row0 + row>>

Stale == <<0, 0, 0>>  \* 0.0

\* assign_output: a buffer of another length is cut or filled up.
AssignOutput(old, len) ==
    [i \in 0..(len - 1) |-> IF i \in DOMAIN old THEN old[i] ELSE Stale]

Fresh(len) == [i \in 0..(len - 1) |-> Stale]
Empty == [i \in {} |-> Stale]

-----------------------------------------------------------------------------
Init ==
    /\ call \in Calls /\ number = 0 /\ size = 1
    /\ done = Empty /\ failed = {} /\ chunk = Empty /\ joined = {}
    /\ out = Empty /\ ret = "none"

\* The buffer is brought to length and the threads are spawned.
Start(c, available) ==
    LET step == ChunkSize(c.n, available)
        total == c.tokens * c.n
    IN /\ ret \in {"some", "none"} /\ number < MaxCalls
       /\ call' = c /\ number' = number + 1 /\ size' = step
       /\ out' = IF c.kind = "collect" THEN Fresh(total) ELSE AssignOutput(out, total)
       /\ done' = [s \in Starts(c.n, step) |-> 0]
       /\ chunk' = [s \in Starts(c.n, step) |-> Empty]
       /\ failed' = {} /\ joined' = {} /\ ret' = "run"

Running(s) ==
    /\ ret \in {"run", "failing"}
    /\ s \in DOMAIN done \ failed /\ done[s] < call.tokens * WidthAt(s)

Finished(s) == ~Running(s)

\* A thread computes its next entry.
Compute(s) ==
    LET k == done[s]
        value == Value(TokenOf(s, k), RowOf(s, k))
    IN /\ Running(s) /\ HasRow(RowOf(s, k))
       /\ done' = [done EXCEPT ![s] = k + 1]
       /\ IF InPlace
            THEN /\ out' = [out EXCEPT ![Position(TokenOf(s, k), RowOf(s, k))] = value]
                 /\ UNCHANGED chunk
            ELSE /\ chunk' = [chunk EXCEPT ![s] =
                        [i \in 0..k |-> IF i = k THEN value ELSE chunk[s][i]]]
                 /\ UNCHANGED out
       /\ UNCHANGED <<call, number, size, failed, joined, ret>>

\* The row is not there: the thread returns None.
Fail(s) ==
    /\ Running(s) /\ ~HasRow(RowOf(s, done[s]))
    /\ failed' = failed \union {s}
    /\ UNCHANGED <<call, number, size, done, chunk, joined, out, ret>>

\* chunk.len() / quant.n_rows
ChunkRows(s) == done[s] \div call.tokens

\* Mutant: the chunk is copied as one slice.
CopiedFlat(s) ==
    [i \in DOMAIN out |-> IF i - s \in DOMAIN chunk[s] THEN chunk[s][i - s] ELSE out[i]]

\* copy_from_slice, token after token
Copied(s) ==
    [i \in DOMAIN out |->
        LET token == i \div call.n
            local == (i % call.n) - s
        IN IF local \in 0..(ChunkRows(s) - 1) THEN chunk[s][token * ChunkRows(s) + local] ELSE out[i]]

\* The handles are joined in order.
Turn(s) ==
    /\ ret = "run" /\ s \in DOMAIN done \ joined
    /\ \A r \in DOMAIN done \ joined : s <= r

Join(s) ==
    /\ Turn(s) /\ Finished(s) /\ s \notin failed
    /\ joined' = joined \union {s}
    /\ out' = IF InPlace THEN out ELSE Copied(s)
    /\ UNCHANGED <<call, number, size, done, failed, chunk, ret>>

\* handle.join().ok()??
JoinNone(s) ==
    /\ Turn(s) /\ s \in failed
    /\ ret' = "failing"
    /\ UNCHANGED <<call, number, size, done, failed, chunk, joined, out>>

Some ==
    /\ ret = "run" /\ joined = DOMAIN done
    /\ ret' = "some"
    /\ UNCHANGED <<call, number, size, done, failed, chunk, joined, out>>

\* The scope waits for the threads that were not joined; a vector of the
\* call's own is dropped.
ReturnNone ==
    /\ ret = "failing" /\ \A s \in DOMAIN done : Finished(s)
    /\ ret' = "none"
    /\ out' = IF call.kind = "collect" THEN Empty ELSE out
    /\ UNCHANGED <<call, number, size, done, failed, chunk, joined>>

Thread(s) == Compute(s) \/ Fail(s)
Caller == (\E s \in DOMAIN done : Join(s) \/ JoinNone(s)) \/ Some \/ ReturnNone

Next ==
    \/ \E c \in Calls, available \in Parallelism : Start(c, available)
    \/ \E s \in DOMAIN done : Thread(s)
    \/ Caller

\* The threads of a scope and its caller are scheduled.
Spec == Init /\ [][Next]_vars /\ WF_vars(Caller) /\ WF_vars(\E s \in DOMAIN done : Thread(s))

-----------------------------------------------------------------------------
\* A call that returns Some has computed every row for every token: no row falls
\* between two chunks, and nothing of an earlier call is left in a reused buffer.
SomeIsComplete ==
    ret = "some" =>
        out = [i \in 0..(call.tokens * call.n - 1) |-> Value(i \div call.n, i % call.n)]

\* A chunk that has failed while others run is not yet an answer, and the buffer
\* is the caller's only with a Some.
Loop == INSTANCE RowProduct WITH
    verdict <- IF ret = "failing" THEN "run" ELSE ret,
    product <- IF ret = "some" THEN out ELSE Empty

\* The threads implement the loop: however the rows were cut, whichever chunk
\* ended or failed first and whatever an earlier call left in the buffer, a call
\* returns once, with the loop's product or, exactly when some row is not there,
\* with None, and it does return, also when a thread failed and others still run.
ImplementsLoop == Loop!Spec
=============================================================================

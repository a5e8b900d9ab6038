-------------------------- MODULE MatmulRowsProofs --------------------------
(***************************************************************************)
(* The row-parallel products of src/kernels/matmul.rs compute what the     *)
(* plain loop computes, for every number of rows, tokens and threads and   *)
(* every schedule: SomeIsComplete, and the safety part of ImplementsLoop.  *)
(***************************************************************************)
EXTENDS MatmulRows, TLAPS

\* What division leaves.
LEMMA Division ==
    ASSUME NEW k \in Nat, NEW w \in Nat \ {0}
    PROVE  /\ k \div w \in Nat /\ k % w \in 0..(w - 1)
           /\ k = (k \div w) * w + (k % w)
OBVIOUS

\* Multiplying by a factor keeps the order.
LEMMA TimesKeepsOrder ==
    ASSUME NEW a \in Nat, NEW b \in Nat, NEW w \in Nat
    PROVE  /\ a <= b => a * w <= b * w
           /\ a < b => a * w + w <= b * w
           /\ a * w \in Nat
<1>1. a <= b => a * w <= b * w
  OBVIOUS
<1>2. a < b => a * w + w <= b * w
  <2>1. (a + 1) * w = a * w + w
    OBVIOUS
  <2>2. a < b => (a + 1) * w <= b * w
    OBVIOUS
  <2> QED
    BY <2>1, <2>2
<1> QED
  BY <1>1, <1>2

\* A quotient and a remainder are those of one number only.
LEMMA DivisionIsUnique ==
    ASSUME NEW t \in Nat, NEW w \in Nat \ {0}, NEW r \in 0..(w - 1)
    PROVE  /\ t * w + r \in Nat
           /\ (t * w + r) \div w = t /\ (t * w + r) % w = r
<1> DEFINE x == t * w + r
<1>1. x \in Nat
  BY TimesKeepsOrder
<1> DEFINE q == x \div w
<1>2. q \in Nat /\ x % w \in 0..(w - 1) /\ x = q * w + (x % w)
  BY <1>1, Division
<1>3. ~(q < t)
  <2>1. q < t => q * w + w <= t * w
    BY <1>2, TimesKeepsOrder
  <2> HIDE DEF q
  <2> QED
    BY <1>2, <2>1, TimesKeepsOrder
<1>4. ~(t < q)
  <2>1. t < q => t * w + w <= q * w
    BY <1>2, TimesKeepsOrder
  <2> HIDE DEF q
  <2> QED
    BY <1>2, <2>1, TimesKeepsOrder
<1>5. q = t
  BY <1>2, <1>3, <1>4
<1>6. x % w = r
  BY <1>2, <1>5
<1> QED
  BY <1>1, <1>5, <1>6

\* The quotients of the numbers below a product.
LEMMA QuotientsBelow ==
    ASSUME NEW m \in Nat, NEW w \in Nat \ {0}, NEW k \in 0..(m * w - 1)
    PROVE  k \div w \in 0..(m - 1) /\ k % w \in 0..(w - 1)
<1>0. k \in Nat
  BY TimesKeepsOrder
<1>1. k \div w \in Nat /\ k % w \in 0..(w - 1) /\ k = (k \div w) * w + (k % w)
  BY <1>0, Division
<1> DEFINE q == k \div w
<1>2. m <= q => m * w <= q * w
  BY <1>1, TimesKeepsOrder
<1>3. m * w \in Nat /\ q * w \in Nat
  BY <1>1, TimesKeepsOrder
<1> HIDE DEF q
<1>4. ~(m <= q)
  BY <1>0, <1>1, <1>2, <1>3 DEF q
<1> QED
  BY <1>1, <1>4 DEF q

\* And the numbers put together from them are below it.
LEMMA ProductsBelow ==
    ASSUME NEW m \in Nat, NEW w \in Nat \ {0}, NEW t \in 0..(m - 1), NEW r \in 0..(w - 1)
    PROVE  t * w + r \in 0..(m * w - 1)
<1>1. t * w + w <= m * w /\ t * w \in Nat /\ m * w \in Nat
  BY TimesKeepsOrder
<1> QED
  BY <1>1

\* There is at least one thread, and a chunk has at least one row.
LEMMA ChunkSizePositive ==
    ASSUME NEW rows \in Nat \ {0}, NEW available \in Parallelism
    PROVE  ChunkSize(rows, available) \in Nat \ {0}
<1>1. available \in Nat \ {0} /\ MinRows \in Nat \ {0} /\ Threshold \in Nat
  BY RowsAssumption
<1>2. DivCeil(rows, MinRows) \in Nat
  BY <1>1, Division DEF DivCeil
<1>3. ParallelRowThreads(rows, available) \in Nat \ {0}
  BY <1>1, <1>2 DEF ParallelRowThreads, Least, Greatest
<1> DEFINE t == ParallelRowThreads(rows, available)
           x == rows + t - 1
<1> HIDE DEF t
<1>4. x \in Nat /\ t <= x /\ t \in Nat \ {0}
  BY <1>3 DEF t
<1>5. x \div t \in Nat /\ x % t \in 0..(t - 1) /\ x = (x \div t) * t + (x % t)
  BY <1>4, Division
<1> DEFINE q == x \div t
<1>6. q # 0
  <2> HIDE DEF x
  <2>1. CASE q = 0
    <3>1. q * t = 0
      BY <2>1, <1>4
    <3> QED
      BY <1>4, <1>5, <3>1
  <2> QED
    BY <2>1
<1> QED
  BY <1>5, <1>6 DEF ChunkSize, DivCeil, t

\* Rows of a chunk: at least one, and none past the end.
LEMMA ChunkFits ==
    ASSUME NEW rows \in Nat \ {0}, NEW step \in Nat \ {0}, NEW s \in Starts(rows, step)
    PROVE  /\ s \in Nat
           /\ Width(rows, step, s) \in Nat \ {0}
           /\ s + Width(rows, step, s) <= rows
BY DEF Starts, Width, Least

\* Every row is in a chunk: (0..n).step_by(size) leaves none out.
LEMMA ChunksCover ==
    ASSUME NEW rows \in Nat \ {0}, NEW step \in Nat \ {0}, NEW row \in 0..(rows - 1)
    PROVE  \E s \in Starts(rows, step) : row - s \in 0..(Width(rows, step, s) - 1)
<1> DEFINE q == row \div step
           s == q * step
<1>1. q \in Nat /\ row % step \in 0..(step - 1) /\ row = s + (row % step)
  BY Division
<1>2. s \in Nat /\ s % step = 0
  <2>1. (q * step + 0) % step = 0
    <3>1. 0 \in 0..(step - 1)
      OBVIOUS
    <3> HIDE DEF q
    <3> QED
      BY <1>1, <3>1, DivisionIsUnique
  <2>2. s \in Nat
    BY <1>1, TimesKeepsOrder
  <2> HIDE DEF q
  <2> QED
    BY <2>1, <2>2
<1> HIDE DEF s
<1>3. s \in Starts(rows, step)
  BY <1>1, <1>2 DEF Starts
<1>4. row - s \in 0..(Width(rows, step, s) - 1)
  BY <1>1, <1>2 DEF Width, Least
<1> QED
  BY <1>3, <1>4
-----------------------------------------------------------------------------
\* A call is under way, or has just returned Some.
UnderWay == ret \in {"run", "failing", "some"}

Asked ==
    /\ call \in Calls /\ number \in Nat /\ size \in Nat \ {0}
    /\ ret \in {"run", "failing", "some", "none"}

\* What the thread of the chunk at s has to compute.
Entries(s) == call.tokens * WidthAt(s)

\* The rows were cut into chunks, and the buffer is as long as the product.
Cut ==
    /\ DOMAIN done = Starts(call.n, size)
    /\ DOMAIN chunk = DOMAIN done
    /\ failed \subseteq DOMAIN done /\ joined \subseteq DOMAIN done
    /\ DOMAIN out = 0..(call.tokens * call.n - 1)
    /\ out = [i \in DOMAIN out |-> out[i]]
    /\ \A s \in DOMAIN done : done[s] \in 0..Entries(s)

\* The i-th entry of the buffer is the loop's.
Right(i) == out[i] = Value(i \div call.n, i % call.n)

\* The rows a thread has computed were there, and their values are where the
\* function of the call puts them.
Computed ==
    \A s \in DOMAIN done : \A k \in 0..(done[s] - 1) :
        /\ HasRow(RowOf(s, k))
        /\ InPlace => Right(Position(TokenOf(s, k), RowOf(s, k)))
        /\ ~InPlace => chunk[s][k] = Value(TokenOf(s, k), RowOf(s, k))

\* The rows of a chunk that was joined are in the buffer, for every token.
Landed(s) ==
    \A i \in DOMAIN out : (i % call.n) - s \in 0..(WidthAt(s) - 1) => Right(i)

JoinedAreDone ==
    \A s \in joined : s \notin failed /\ done[s] = Entries(s) /\ Landed(s)

\* A thread fails for a row that is not there, and a call for a thread.
FailedForARow ==
    /\ \A s \in failed : done[s] < Entries(s) /\ ~HasRow(RowOf(s, done[s]))
    /\ ret = "failing" => failed # {}

RowsInv ==
    /\ Asked
    /\ UnderWay => Cut /\ Computed /\ JoinedAreDone /\ FailedForARow
    /\ ret = "some" => joined = DOMAIN done

\* What the call asks for.
LEMMA CallNumbers ==
    ASSUME Asked
    PROVE  /\ call.n \in Nat \ {0} /\ call.tokens \in Nat \ {0}
           /\ call.row0 \in Nat /\ call.have \in Nat
           /\ call.tokens * call.n \in Nat
<1>1. /\ call.n \in Nat \ {0} /\ call.tokens \in Nat \ {0}
      /\ call.row0 \in Nat /\ call.have \in Nat
  BY RowsAssumption DEF Asked
<1> QED
  BY <1>1, TimesKeepsOrder

\* A chunk of the call under way.
LEMMA ChunkNumbers ==
    ASSUME Asked, Cut, NEW s \in DOMAIN done
    PROVE  /\ s \in Nat /\ WidthAt(s) \in Nat \ {0} /\ s + WidthAt(s) <= call.n
           /\ Entries(s) \in Nat
           /\ done[s] \in 0..Entries(s)
<1>1. s \in Starts(call.n, size) /\ done[s] \in 0..Entries(s)
  BY DEF Cut
<1>2. call.n \in Nat \ {0} /\ call.tokens \in Nat \ {0} /\ size \in Nat \ {0}
  BY CallNumbers DEF Asked
<1>3. s \in Nat /\ WidthAt(s) \in Nat \ {0} /\ s + WidthAt(s) <= call.n
  BY <1>1, <1>2, ChunkFits DEF WidthAt
<1>4. Entries(s) \in Nat
  BY <1>2, <1>3, TimesKeepsOrder DEF Entries
<1> QED
  BY <1>1, <1>3, <1>4

\* An entry of a chunk is a token and a row of the call, and its position in the
\* product is theirs alone.
LEMMA EntryPlace ==
    ASSUME Asked, Cut, NEW s \in DOMAIN done, NEW k \in 0..(Entries(s) - 1)
    PROVE  /\ TokenOf(s, k) \in 0..(call.tokens - 1)
           /\ RowOf(s, k) \in 0..(call.n - 1)
           /\ Position(TokenOf(s, k), RowOf(s, k)) \in DOMAIN out
           /\ Position(TokenOf(s, k), RowOf(s, k)) \div call.n = TokenOf(s, k)
           /\ Position(TokenOf(s, k), RowOf(s, k)) % call.n = RowOf(s, k)
<1>1. call.n \in Nat \ {0} /\ call.tokens \in Nat \ {0}
  BY CallNumbers
<1>2. s \in Nat /\ WidthAt(s) \in Nat \ {0} /\ s + WidthAt(s) <= call.n
  BY ChunkNumbers
<1>3. k \div WidthAt(s) \in 0..(call.tokens - 1) /\ k % WidthAt(s) \in 0..(WidthAt(s) - 1)
  BY <1>1, <1>2, QuotientsBelow DEF Entries
<1>4. TokenOf(s, k) \in 0..(call.tokens - 1) /\ RowOf(s, k) \in 0..(call.n - 1)
  BY <1>1, <1>2, <1>3 DEF TokenOf, RowOf
<1>5. Position(TokenOf(s, k), RowOf(s, k)) \in DOMAIN out
  BY <1>1, <1>4, ProductsBelow DEF Position, Cut
<1> QED
  BY <1>1, <1>4, <1>5, DivisionIsUnique DEF Position

\* A token and a row of a chunk are one of its entries.
LEMMA PlaceEntry ==
    ASSUME Asked, Cut, NEW s \in DOMAIN done, NEW t \in 0..(call.tokens - 1),
           NEW r \in 0..(WidthAt(s) - 1)
    PROVE  /\ t * WidthAt(s) + r \in 0..(Entries(s) - 1)
           /\ TokenOf(s, t * WidthAt(s) + r) = t
           /\ RowOf(s, t * WidthAt(s) + r) = s + r
<1>1. call.tokens \in Nat /\ WidthAt(s) \in Nat \ {0} /\ s \in Nat
  BY CallNumbers, ChunkNumbers
<1>2. t * WidthAt(s) + r \in 0..(Entries(s) - 1)
  BY <1>1, ProductsBelow DEF Entries
<1>3. t \in Nat /\ r \in Nat
  BY <1>1
<1> QED
  BY <1>1, <1>2, <1>3, DivisionIsUnique DEF TokenOf, RowOf

\* A position of the product is that of a token and a row.
LEMMA PositionPlace ==
    ASSUME Asked, Cut, NEW i \in DOMAIN out
    PROVE  /\ i \in Nat
           /\ i \div call.n \in 0..(call.tokens - 1) /\ i % call.n \in 0..(call.n - 1)
           /\ i = Position(i \div call.n, i % call.n)
<1>1. call.n \in Nat \ {0} /\ call.tokens \in Nat /\ call.tokens * call.n \in Nat
  BY CallNumbers
<1>2. i \in 0..(call.tokens * call.n - 1)
  BY DEF Cut
<1>3. i \in Nat
  BY <1>1, <1>2
<1>4. i \div call.n \in 0..(call.tokens - 1) /\ i % call.n \in 0..(call.n - 1)
  BY <1>1, <1>2, QuotientsBelow
<1>5. i = Position(i \div call.n, i % call.n)
  BY <1>1, <1>3, Division DEF Position
<1> QED
  BY <1>3, <1>4, <1>5

\* What a thread that writes straight to the buffer has done in full is there.
LEMMA InPlaceLands ==
    ASSUME Asked, Cut, Computed, InPlace, NEW s \in DOMAIN done, done[s] = Entries(s)
    PROVE  Landed(s)
<1> SUFFICES ASSUME NEW i \in DOMAIN out, (i % call.n) - s \in 0..(WidthAt(s) - 1)
             PROVE  Right(i)
  BY DEF Landed
<1> DEFINE t == i \div call.n
           r == (i % call.n) - s
           k == t * WidthAt(s) + r
<1>1. t \in 0..(call.tokens - 1) /\ i % call.n \in 0..(call.n - 1) /\ i = Position(t, i % call.n)
  BY PositionPlace
<1>2. k \in 0..(Entries(s) - 1) /\ TokenOf(s, k) = t /\ RowOf(s, k) = s + r
  BY <1>1, PlaceEntry
<1>3. s + r = i % call.n
  BY <1>1, ChunkNumbers
<1> HIDE DEF t, r, k
<1>4. Right(Position(TokenOf(s, k), RowOf(s, k)))
  BY <1>2 DEF Computed
<1> QED
  BY <1>1, <1>2, <1>3, <1>4

\* copy_from_slice puts a chunk's entries where they belong and moves no other.
LEMMA CopyLands ==
    ASSUME Asked, Cut, Computed, ~InPlace, NEW s \in DOMAIN done, done[s] = Entries(s),
           out' = Copied(s), UNCHANGED <<call, number>>
    PROVE  /\ DOMAIN out' = DOMAIN out
           /\ \A i \in DOMAIN out : (i % call.n) - s \in 0..(WidthAt(s) - 1) => Right(i)'
           /\ \A i \in DOMAIN out : Right(i) => Right(i)'
<1>1. call.tokens \in Nat \ {0} /\ WidthAt(s) \in Nat \ {0} /\ s \in Nat
  BY CallNumbers, ChunkNumbers
<1>2. ChunkRows(s) = WidthAt(s)
  <2>1. 0 \in 0..(call.tokens - 1)
    BY <1>1
  <2>2. (WidthAt(s) * call.tokens + 0) \div call.tokens = WidthAt(s)
    BY <1>1, <2>1, DivisionIsUnique
  <2>3. WidthAt(s) * call.tokens + 0 = call.tokens * WidthAt(s)
    BY <1>1
  <2> QED
    BY <2>2, <2>3 DEF ChunkRows, Entries
<1>3. DOMAIN out' = DOMAIN out
  BY DEF Copied
<1>4. ASSUME NEW i \in DOMAIN out
      PROVE  /\ (i % call.n) - s \in 0..(WidthAt(s) - 1) => Right(i)'
             /\ (i % call.n) - s \notin 0..(WidthAt(s) - 1) => out'[i] = out[i]
  <2> DEFINE t == i \div call.n
             r == (i % call.n) - s
             k == t * WidthAt(s) + r
  <2>1. out'[i] = IF r \in 0..(WidthAt(s) - 1) THEN chunk[s][k] ELSE out[i]
    BY <1>2 DEF Copied
  <2>2. ASSUME r \in 0..(WidthAt(s) - 1) PROVE Right(i)'
    <3>1. t \in 0..(call.tokens - 1) /\ i % call.n \in 0..(call.n - 1)
      BY PositionPlace
    <3>2. k \in 0..(Entries(s) - 1) /\ TokenOf(s, k) = t /\ RowOf(s, k) = s + r
      BY <2>2, <3>1, PlaceEntry
    <3>3. s + r = i % call.n
      BY <1>1, <3>1, CallNumbers
    <3> HIDE DEF t, r, k
    <3>4. chunk[s][k] = Value(TokenOf(s, k), RowOf(s, k))
      BY <3>2 DEF Computed
    <3>5. out'[i] = Value(t, i % call.n)
      BY <2>1, <2>2, <3>2, <3>3, <3>4
    <3> QED
      BY <3>5 DEF Right, Value, t
  <2> QED
    BY <2>1, <2>2
<1>5. ASSUME NEW i \in DOMAIN out, Right(i) PROVE Right(i)'
  <2>1. CASE (i % call.n) - s \in 0..(WidthAt(s) - 1)
    BY <1>4, <2>1
  <2>2. CASE (i % call.n) - s \notin 0..(WidthAt(s) - 1)
    BY <1>4, <1>5, <2>2 DEF Right, Value
  <2> QED
    BY <2>1, <2>2
<1> QED
  BY <1>3, <1>4, <1>5

\* A call begins: nothing is computed and nothing is joined.
LEMMA StartKeepsRows ==
    ASSUME RowsInv, NEW c \in Calls, NEW available \in Parallelism, Start(c, available)
    PROVE  RowsInv'
<1> DEFINE step == ChunkSize(c.n, available)
<1>1. c.n \in Nat \ {0} /\ c.tokens \in Nat \ {0}
  BY RowsAssumption
<1>2. step \in Nat \ {0}
  BY <1>1, ChunkSizePositive
<1>3. /\ call' = c /\ number' = number + 1 /\ size' = step
      /\ done' = [s \in Starts(c.n, step) |-> 0]
      /\ chunk' = [s \in Starts(c.n, step) |-> Empty]
      /\ failed' = {} /\ joined' = {} /\ ret' = "run"
  BY DEF Start
<1>4. DOMAIN out' = 0..(c.tokens * c.n - 1) /\ out' = [i \in DOMAIN out' |-> out'[i]]
  <2>1. CASE c.kind = "collect"
    BY <2>1 DEF Start, Fresh
  <2>2. CASE c.kind # "collect"
    BY <2>2 DEF Start, AssignOutput
  <2> QED
    BY <2>1, <2>2
<1> HIDE DEF step
<1>5. Asked'
  BY <1>2, <1>3 DEF Asked, RowsInv
<1>6. Cut'
  <2>1. ASSUME NEW s \in DOMAIN done' PROVE done'[s] \in 0..Entries(s)'
    <3>1. s \in Starts(c.n, step) /\ done'[s] = 0
      BY <1>3, <2>1
    <3>2. Width(c.n, step, s) \in Nat
      BY <1>1, <1>2, <3>1, ChunkFits
    <3>3. c.tokens * Width(c.n, step, s) \in Nat
      BY <1>1, <3>2, TimesKeepsOrder
    <3>4. Entries(s)' = c.tokens * Width(c.n, step, s)
      BY <1>3 DEF Entries, WidthAt
    <3> QED
      BY <3>1, <3>3, <3>4
  <2> QED
    BY <1>3, <1>4, <2>1 DEF Cut
<1>7. Computed'
  BY <1>3 DEF Computed
<1>8. JoinedAreDone' /\ FailedForARow'
  BY <1>3 DEF JoinedAreDone, FailedForARow
<1> QED
  BY <1>3, <1>5, <1>6, <1>7, <1>8 DEF RowsInv

\* A thread computes its next entry.
LEMMA ComputeKeepsRows ==
    ASSUME RowsInv, NEW s \in DOMAIN done, Compute(s)
    PROVE  RowsInv'
<1> DEFINE k == done[s]
           p == Position(TokenOf(s, k), RowOf(s, k))
           value == Value(TokenOf(s, k), RowOf(s, k))
<1>1. /\ ret \in {"run", "failing"} /\ s \notin failed /\ k < Entries(s)
      /\ HasRow(RowOf(s, k))
      /\ done' = [done EXCEPT ![s] = k + 1]
      /\ UNCHANGED <<call, number, size, failed, joined, ret>>
  BY DEF Compute, Running, Entries
<1>2. Asked /\ Cut /\ Computed /\ JoinedAreDone /\ FailedForARow
  BY <1>1 DEF RowsInv, UnderWay
<1>3. k \in 0..(Entries(s) - 1) /\ Entries(s) \in Nat
  BY <1>1, <1>2, ChunkNumbers
<1>4. p \in DOMAIN out /\ p \div call.n = TokenOf(s, k) /\ p % call.n = RowOf(s, k)
  BY <1>2, <1>3, EntryPlace
<1>5. /\ InPlace => out' = [out EXCEPT ![p] = value] /\ UNCHANGED chunk
      /\ ~InPlace => /\ chunk' = [chunk EXCEPT ![s] =
                              [i \in 0..k |-> IF i = k THEN value ELSE chunk[s][i]]]
                     /\ UNCHANGED out
  BY DEF Compute
<1>6. InPlace' = InPlace /\ \A r : WidthAt(r)' = WidthAt(r) /\ Entries(r)' = Entries(r)
  BY <1>1 DEF InPlace, Sequential, WidthAt, Entries
<1>7. \A r, j : /\ TokenOf(r, j)' = TokenOf(r, j) /\ RowOf(r, j)' = RowOf(r, j)
                /\ Value(r, j)' = Value(r, j) /\ Position(r, j)' = Position(r, j)
                /\ HasRow(j)' = HasRow(j)
  BY <1>1, <1>6 DEF TokenOf, RowOf, Value, Position, HasRow
<1> HIDE DEF k, p, value
<1>8. /\ DOMAIN done' = DOMAIN done /\ DOMAIN chunk' = DOMAIN chunk /\ DOMAIN out' = DOMAIN out
      /\ done'[s] = k + 1 /\ \A r \in DOMAIN done : r # s => done'[r] = done[r]
  BY <1>1, <1>5
<1>0. \A i : Right(i)' <=> out'[i] = Value(i \div call.n, i % call.n)
  BY <1>1 DEF Right, Value
<1>9. \A i \in DOMAIN out : Right(i) => out'[i] = Value(i \div call.n, i % call.n)
  <2> SUFFICES ASSUME NEW i \in DOMAIN out, Right(i)
               PROVE  out'[i] = Value(i \div call.n, i % call.n)
    OBVIOUS
  <2>1. out'[i] = out[i] \/ (i = p /\ out'[i] = value)
    BY <1>4, <1>5
  <2>2. value = Value(p \div call.n, p % call.n)
    BY <1>4 DEF value
  <2> QED
    BY <2>1, <2>2 DEF Right
<1>10. InPlace => out'[p] = Value(p \div call.n, p % call.n)
  BY <1>4, <1>5 DEF value
<1>11. Asked'
  BY <1>1, <1>2 DEF Asked
<1>12. Cut'
  <2>1. \A r \in DOMAIN done' : done'[r] \in 0..Entries(r)'
    BY <1>2, <1>3, <1>6, <1>8 DEF Cut
  <2>2. out' = [i \in DOMAIN out' |-> out'[i]]
    BY <1>2, <1>5 DEF Cut
  <2> QED
    BY <1>1, <1>2, <1>8, <2>1, <2>2 DEF Cut
<1>13. Computed'
  <2> SUFFICES ASSUME NEW r \in DOMAIN done, NEW j \in 0..(done'[r] - 1)
               PROVE  /\ HasRow(RowOf(r, j))
                      /\ InPlace => LET i == Position(TokenOf(r, j), RowOf(r, j)) IN
                                      out'[i] = Value(i \div call.n, i % call.n)
                      /\ ~InPlace => chunk'[r][j] = Value(TokenOf(r, j), RowOf(r, j))
    <3>1. \A r, j : Right(Position(TokenOf(r, j), RowOf(r, j)))' <=>
                      LET i == Position(TokenOf(r, j), RowOf(r, j)) IN
                          out'[i] = Value(i \div call.n, i % call.n)
      BY <1>1, <1>7 DEF Right, Value
    <3> QED
      BY <1>6, <1>7, <1>8, <3>1 DEF Computed
  <2>1. CASE r = s /\ j = k
    <3>1. Position(TokenOf(r, j), RowOf(r, j)) = p
      BY <2>1 DEF p
    <3>2. ~InPlace => chunk'[r][j] = Value(TokenOf(r, j), RowOf(r, j))
      BY <1>2, <1>3, <1>5, <2>1 DEF Cut, value
    <3> QED
      BY <1>1, <1>10, <2>1, <3>1, <3>2
  <2>2. CASE ~(r = s /\ j = k)
    <3>1. j \in 0..(done[r] - 1)
      BY <1>2, <1>3, <1>8, <2>2, ChunkNumbers DEF k
    <3>2. /\ HasRow(RowOf(r, j))
          /\ InPlace => Right(Position(TokenOf(r, j), RowOf(r, j)))
          /\ ~InPlace => chunk[r][j] = Value(TokenOf(r, j), RowOf(r, j))
      BY <1>2, <3>1 DEF Computed
    <3>3. j \in 0..(Entries(r) - 1)
      BY <1>2, <3>1, ChunkNumbers
    <3>4. Position(TokenOf(r, j), RowOf(r, j)) \in DOMAIN out
      BY <1>2, <3>3, EntryPlace
    <3>6. ~InPlace => chunk'[r][j] = chunk[r][j]
      BY <1>2, <1>3, <1>5, <2>2, <3>1 DEF Cut, k
    <3> QED
      BY <1>9, <3>2, <3>4, <3>6
  <2> QED
    BY <2>1, <2>2
<1>14. JoinedAreDone'
  <2> SUFFICES ASSUME NEW r \in joined
               PROVE  r \notin failed /\ done'[r] = Entries(r)' /\ Landed(r)'
    BY <1>1 DEF JoinedAreDone
  <2>1. r \notin failed /\ done[r] = Entries(r) /\ Landed(r) /\ r \in DOMAIN done
    BY <1>2 DEF JoinedAreDone, Cut
  <2>2. r # s
    BY <1>1, <1>3, <2>1 DEF k
  <2>3. Landed(r)'
    BY <1>0, <1>1, <1>6, <1>8, <1>9, <2>1 DEF Landed
  <2> QED
    BY <1>6, <1>8, <2>1, <2>2, <2>3
<1>15. FailedForARow'
  <2>1. \A r \in failed : r \in DOMAIN done /\ r # s
    BY <1>1, <1>2 DEF Cut
  <2>2. \A r \in failed : done'[r] = done[r]
    BY <1>8, <2>1
  <2> QED
    BY <1>1, <1>2, <1>6, <1>7, <2>2 DEF FailedForARow
<1>16. ret' # "some"
  BY <1>1
<1> QED
  BY <1>11, <1>12, <1>13, <1>14, <1>15, <1>16 DEF RowsInv

\* A thread meets a row that is not there.
LEMMA FailKeepsRows ==
    ASSUME RowsInv, NEW s \in DOMAIN done, Fail(s)
    PROVE  RowsInv'
<1>1. /\ ret \in {"run", "failing"} /\ s \notin failed /\ done[s] < Entries(s)
      /\ ~HasRow(RowOf(s, done[s])) /\ failed' = failed \union {s}
      /\ UNCHANGED <<call, number, size, done, chunk, joined, out, ret>>
  BY DEF Fail, Running, Entries
<1>2. Asked /\ Cut /\ Computed /\ JoinedAreDone /\ FailedForARow
  BY <1>1 DEF RowsInv, UnderWay
<1>3. Asked'
  BY <1>1, <1>2 DEF Asked
<1>4. Cut'
  BY <1>1, <1>2 DEF Cut, Entries, WidthAt
<1>5. Computed'
  BY <1>1, <1>2 DEF Computed, HasRow, RowOf, TokenOf, WidthAt, Position, Value, Right,
                    InPlace, Sequential
<1>6. JoinedAreDone'
  <2>1. s \notin joined
    BY <1>1, <1>2, ChunkNumbers DEF JoinedAreDone
  <2> QED
    BY <1>1, <1>2, <2>1 DEF JoinedAreDone, Entries, WidthAt, Landed, Right, Value
<1>7. FailedForARow'
  BY <1>1, <1>2 DEF FailedForARow, Entries, WidthAt, HasRow, RowOf
<1> QED
  BY <1>1, <1>3, <1>4, <1>5, <1>6, <1>7 DEF RowsInv

\* A chunk is joined, and copied if its thread kept it.
LEMMA JoinKeepsRows ==
    ASSUME RowsInv, NEW s \in DOMAIN done, Join(s)
    PROVE  RowsInv'
<1>1. /\ ret = "run" /\ s \notin failed /\ joined' = joined \union {s}
      /\ ~(done[s] < Entries(s))
      /\ out' = (IF InPlace THEN out ELSE Copied(s))
      /\ UNCHANGED <<call, number, size, done, failed, chunk, ret>>
  BY DEF Join, Turn, Finished, Running, Entries
<1>2. Asked /\ Cut /\ Computed /\ JoinedAreDone /\ FailedForARow
  BY <1>1 DEF RowsInv, UnderWay
<1>3. done[s] = Entries(s)
  BY <1>1, <1>2, ChunkNumbers
<1>4. /\ DOMAIN out' = DOMAIN out
      /\ \A i \in DOMAIN out : (i % call.n) - s \in 0..(WidthAt(s) - 1) => Right(i)'
      /\ \A i \in DOMAIN out : Right(i) => Right(i)'
  <2>1. CASE InPlace
    <3>1. Landed(s) /\ out' = out
      BY <1>1, <1>2, <1>3, <2>1, InPlaceLands
    <3> QED
      BY <1>1, <3>1 DEF Landed, Right, Value
  <2>2. CASE ~InPlace
    <3>1. out' = Copied(s)
      BY <1>1, <2>2
    <3> QED
      BY <1>1, <1>2, <1>3, <2>2, <3>1, CopyLands
  <2> QED
    BY <2>1, <2>2
<1>5. Asked'
  BY <1>1, <1>2 DEF Asked
<1>6. Cut'
  <2>1. out' = [i \in DOMAIN out' |-> out'[i]]
    BY <1>1, <1>2 DEF Cut, Copied
  <2> QED
    BY <1>1, <1>2, <1>4, <2>1 DEF Cut, Entries, WidthAt
<1>7. Computed'
  <2> SUFFICES ASSUME NEW r \in DOMAIN done, NEW j \in 0..(done[r] - 1)
               PROVE  /\ HasRow(RowOf(r, j))
                      /\ InPlace => Right(Position(TokenOf(r, j), RowOf(r, j)))'
                      /\ ~InPlace => chunk[r][j] = Value(TokenOf(r, j), RowOf(r, j))
    BY <1>1 DEF Computed, HasRow, RowOf, TokenOf, WidthAt, Value, InPlace, Sequential
  <2>1. /\ HasRow(RowOf(r, j))
        /\ InPlace => Right(Position(TokenOf(r, j), RowOf(r, j)))
        /\ ~InPlace => chunk[r][j] = Value(TokenOf(r, j), RowOf(r, j))
    BY <1>2 DEF Computed
  <2>2. InPlace => out' = out
    BY <1>1
  <2>3. InPlace => Right(Position(TokenOf(r, j), RowOf(r, j)))'
    BY <1>1, <2>1, <2>2 DEF Right, Value, Position, TokenOf, RowOf, WidthAt
  <2> QED
    BY <2>1, <2>3
<1>8. JoinedAreDone'
  <2> SUFFICES ASSUME NEW r \in joined \union {s}
               PROVE  r \notin failed /\ done[r] = Entries(r) /\ Landed(r)'
    BY <1>1 DEF JoinedAreDone, Entries, WidthAt
  <2>1. WidthAt(r)' = WidthAt(r)
    BY <1>1 DEF WidthAt
  <2>2. CASE r = s
    <3>1. Landed(r)'
      BY <1>1, <1>4, <2>1, <2>2 DEF Landed
    <3> QED
      BY <1>1, <1>3, <2>2, <3>1
  <2>3. CASE r \in joined
    <3>1. r \notin failed /\ done[r] = Entries(r) /\ Landed(r)
      BY <1>2, <2>3 DEF JoinedAreDone
    <3>2. Landed(r)'
      BY <1>1, <1>4, <2>1, <3>1 DEF Landed
    <3> QED
      BY <3>1, <3>2
  <2> QED
    BY <2>2, <2>3
<1>9. FailedForARow'
  BY <1>1, <1>2 DEF FailedForARow, Entries, WidthAt, HasRow, RowOf
<1> QED
  BY <1>1, <1>5, <1>6, <1>7, <1>8, <1>9 DEF RowsInv

\* What changes the verdict alone keeps the rest.
LEMMA VerdictKeepsRows ==
    ASSUME RowsInv, ret = "run", ret' \in {"failing", "some"},
           ret' = "failing" => failed # {}, ret' = "some" => joined = DOMAIN done,
           UNCHANGED <<call, number, size, done, failed, chunk, joined, out>>
    PROVE  RowsInv'
<1>1. Asked /\ Cut /\ Computed /\ JoinedAreDone /\ FailedForARow
  BY DEF RowsInv, UnderWay
<1>2. Asked' /\ Cut'
  BY <1>1 DEF Asked, Cut, Entries, WidthAt
<1>3. Computed'
  BY <1>1 DEF Computed, HasRow, RowOf, TokenOf, WidthAt, Position, Value, Right,
              InPlace, Sequential
<1>4. JoinedAreDone'
  BY <1>1 DEF JoinedAreDone, Entries, WidthAt, Landed, Right, Value
<1>5. FailedForARow'
  BY <1>1 DEF FailedForARow, Entries, WidthAt, HasRow, RowOf
<1> QED
  BY <1>2, <1>3, <1>4, <1>5 DEF RowsInv

\* Every step of a call keeps the invariant.
LEMMA StepKeepsRows ==
    ASSUME RowsInv, [Next]_vars
    PROVE  RowsInv'
<1>1. ASSUME NEW c \in Calls, NEW available \in Parallelism, Start(c, available)
      PROVE  RowsInv'
  BY <1>1, StartKeepsRows
<1>2. ASSUME NEW s \in DOMAIN done, Thread(s) PROVE RowsInv'
  BY <1>2, ComputeKeepsRows, FailKeepsRows DEF Thread
<1>3. ASSUME NEW s \in DOMAIN done, Join(s) PROVE RowsInv'
  BY <1>3, JoinKeepsRows
<1>4. ASSUME NEW s \in DOMAIN done, JoinNone(s) PROVE RowsInv'
  <2>1. /\ ret = "run" /\ ret' = "failing" /\ failed # {}
        /\ UNCHANGED <<call, number, size, done, failed, chunk, joined, out>>
    BY <1>4 DEF JoinNone, Turn
  <2> QED
    BY <2>1, VerdictKeepsRows
<1>5. CASE Some
  <2>1. /\ ret = "run" /\ ret' = "some" /\ joined = DOMAIN done
        /\ UNCHANGED <<call, number, size, done, failed, chunk, joined, out>>
    BY <1>5 DEF Some
  <2> QED
    BY <2>1, VerdictKeepsRows
<1>6. CASE ReturnNone
  <2>1. ret' = "none" /\ UNCHANGED <<call, number, size>>
    BY <1>6 DEF ReturnNone
  <2>2. Asked'
    BY <2>1 DEF RowsInv, Asked
  <2> QED
    BY <2>1, <2>2 DEF RowsInv, UnderWay
<1>7. CASE UNCHANGED vars
  BY <1>7 DEF vars, RowsInv, UnderWay, Asked, Cut, Computed, JoinedAreDone, FailedForARow,
              Entries, WidthAt, HasRow, RowOf, TokenOf, Position, Value, Right, InPlace,
              Sequential, Landed
<1> QED
  BY <1>1, <1>2, <1>3, <1>4, <1>5, <1>6, <1>7 DEF Next, Caller

(* For every call of matmul.rs, however its rows are cut and its threads are
   scheduled: what a thread has computed is where its function puts it, what was
   joined is in the buffer, and a thread fails for a row that is not there. *)
THEOREM RowsAlwaysPlaced == Spec => []RowsInv
<1>1. Init => RowsInv
  BY DEF Init, RowsInv, UnderWay, Asked
<1>2. RowsInv /\ [Next]_vars => RowsInv'
  BY StepKeepsRows
<1> QED
  BY <1>1, <1>2, PTL DEF Spec

\* The buffer once every chunk was joined.
LEMMA JoinedIsProduct ==
    ASSUME Asked, Cut, JoinedAreDone, joined = DOMAIN done, NEW i \in DOMAIN out
    PROVE  Right(i)
<1>1. i % call.n \in 0..(call.n - 1) /\ call.n \in Nat \ {0} /\ size \in Nat \ {0}
  BY PositionPlace, CallNumbers DEF Asked
<1>2. PICK s \in Starts(call.n, size) : (i % call.n) - s \in 0..(WidthAt(s) - 1)
  BY <1>1, ChunksCover DEF WidthAt
<1>3. Landed(s)
  BY <1>2 DEF JoinedAreDone, Cut
<1> QED
  BY <1>2, <1>3 DEF Landed

(* A call that returns Some has the product of the loop in its buffer, for every
   number of rows, tokens and threads, every threshold, and whatever an earlier
   call left in the buffer (matmul.rs, every function that spawns threads). *)
THEOREM SomeAlwaysComplete == Spec => []SomeIsComplete
<1>1. RowsInv => SomeIsComplete
  <2> SUFFICES ASSUME RowsInv, ret = "some"
               PROVE  out = [i \in 0..(call.tokens * call.n - 1) |->
                                Value(i \div call.n, i % call.n)]
    BY DEF SomeIsComplete
  <2>1. Asked /\ Cut /\ JoinedAreDone /\ joined = DOMAIN done
    BY DEF RowsInv, UnderWay
  <2>2. \A i \in DOMAIN out : out[i] = Value(i \div call.n, i % call.n)
    BY <2>1, JoinedIsProduct DEF Right
  <2>3. DOMAIN out = 0..(call.tokens * call.n - 1) /\ out = [i \in DOMAIN out |-> out[i]]
    BY <2>1 DEF Cut
  <2> QED
    BY <2>2, <2>3
<1> QED
  BY <1>1, RowsAlwaysPlaced, PTL

-----------------------------------------------------------------------------
\* Every row of a call whose chunks were all joined is in the tensor.
LEMMA JoinedIsThere ==
    ASSUME Asked, Cut, Computed, JoinedAreDone, joined = DOMAIN done
    PROVE  Loop!Complete
<1> SUFFICES ASSUME NEW row \in 0..(call.n - 1) PROVE HasRow(row)
  BY DEF Loop!Complete, HasRow
<1>1. call.n \in Nat \ {0} /\ size \in Nat \ {0} /\ call.tokens \in Nat \ {0}
  BY CallNumbers DEF Asked
<1>2. PICK s \in Starts(call.n, size) : row - s \in 0..(WidthAt(s) - 1)
  BY <1>1, ChunksCover DEF WidthAt
<1>3. s \in DOMAIN done /\ done[s] = Entries(s)
  BY <1>2 DEF JoinedAreDone, Cut
<1>4. s \in Nat /\ WidthAt(s) \in Nat \ {0}
  BY <1>3, ChunkNumbers
<1> DEFINE k == 0 * WidthAt(s) + (row - s)
<1>5. k \in 0..(Entries(s) - 1) /\ RowOf(s, k) = s + (row - s)
  <2>1. 0 \in 0..(call.tokens - 1)
    BY <1>1
  <2> QED
    BY <1>2, <1>3, <2>1, PlaceEntry
<1>6. s + (row - s) = row
  BY <1>1, <1>4
<1> HIDE DEF k
<1>7. HasRow(RowOf(s, k))
  BY <1>3, <1>5 DEF Computed
<1> QED
  BY <1>5, <1>6, <1>7

\* A chunk that failed stands for a row that is not there.
LEMMA FailedIsMissing ==
    ASSUME Asked, Cut, FailedForARow, failed # {}
    PROVE  ~Loop!Complete
<1>1. PICK s \in failed : done[s] < Entries(s) /\ ~HasRow(RowOf(s, done[s]))
  BY DEF FailedForARow
<1>2. s \in DOMAIN done
  BY <1>1 DEF Cut
<1>3. done[s] \in 0..(Entries(s) - 1)
  BY <1>1, <1>2, ChunkNumbers
<1>4. RowOf(s, done[s]) \in 0..(call.n - 1)
  BY <1>2, <1>3, EntryPlace
<1> QED
  BY <1>1, <1>4 DEF Loop!Complete, HasRow

\* Every step of the threads and their caller is one of the loop, or none.
LEMMA StepIsLoopStep ==
    ASSUME RowsInv, RowsInv', SomeIsComplete', [Next]_vars
    PROVE  [Loop!Next]_(Loop!vars)
<1> DEFINE Silent == /\ ret \in {"run", "failing"} /\ ret' \in {"run", "failing"}
                     /\ UNCHANGED <<call, number>>
<1>0. Silent => UNCHANGED Loop!vars
  BY DEF Loop!vars
<1>1. ASSUME NEW c \in Calls, NEW available \in Parallelism, Start(c, available)
      PROVE  Loop!Next
  <2>1. /\ ret \in {"some", "none"} /\ number < MaxCalls
        /\ call' = c /\ number' = number + 1 /\ ret' = "run"
    BY <1>1 DEF Start
  <2>2. Loop!Ask(c)
    BY <2>1 DEF Loop!Ask, Loop!Nothing, Empty, Stale
  <2> QED
    BY <2>2 DEF Loop!Next
<1>2. ASSUME NEW s \in DOMAIN done, Thread(s) PROVE Silent
  BY <1>2 DEF Thread, Compute, Fail, Running
<1>3. ASSUME NEW s \in DOMAIN done, Join(s) PROVE Silent
  BY <1>3 DEF Join, Turn
<1>4. ASSUME NEW s \in DOMAIN done, JoinNone(s) PROVE Silent
  BY <1>4 DEF JoinNone, Turn
<1>5. CASE Some
  <2>1. ret = "run" /\ ret' = "some" /\ joined = DOMAIN done /\ UNCHANGED <<call, number, out>>
    BY <1>5 DEF Some
  <2>2. Loop!Complete
    BY <2>1, JoinedIsThere DEF RowsInv, UnderWay
  <2>3. out' = Loop!Loop
    BY <2>1 DEF SomeIsComplete, Value, Loop!Loop
  <2>4. Loop!Reply
    BY <2>1, <2>2, <2>3 DEF Loop!Reply
  <2> QED
    BY <2>4 DEF Loop!Next
<1>6. CASE ReturnNone
  <2>1. ret = "failing" /\ ret' = "none" /\ UNCHANGED <<call, number>>
    BY <1>6 DEF ReturnNone
  <2>2. ~Loop!Complete
    BY <2>1, FailedIsMissing DEF RowsInv, UnderWay, FailedForARow
  <2>3. Loop!Reply
    BY <2>1, <2>2 DEF Loop!Reply, Loop!Nothing, Empty, Stale
  <2> QED
    BY <2>3 DEF Loop!Next
<1>7. CASE UNCHANGED vars
  BY <1>7 DEF vars, Loop!vars
<1> QED
  BY <1>0, <1>1, <1>2, <1>3, <1>4, <1>5, <1>6, <1>7 DEF Next, Caller

(* The safety part of ImplementsLoop: a call of matmul.rs returns once, with the
   product of the plain loop exactly when every row it asks for is in the tensor,
   and otherwise with None. *)
THEOREM ThreadsImplementLoop == Spec => Loop!Init /\ [][Loop!Next]_(Loop!vars)
<1>1. Init => Loop!Init
  BY DEF Init, Loop!Init, Loop!Nothing, Empty, Stale
<1>2. RowsInv /\ RowsInv' /\ SomeIsComplete' /\ [Next]_vars => [Loop!Next]_(Loop!vars)
  BY StepIsLoopStep
<1> QED
  BY <1>1, <1>2, RowsAlwaysPlaced, SomeAlwaysComplete, PTL DEF Spec
=============================================================================

---------------------------- MODULE LoaderProofs ----------------------------
(***************************************************************************)
(* What the GGUF loader and bind_blocks keep, whatever the file claims of  *)
(* its lengths, counts, dimensions and offsets: the cursor stays in the    *)
(* file, every turn of a claimed loop reads, a tensor with bytes has all   *)
(* its dimensions need and lies in the file, and the blocks are complete.  *)
(***************************************************************************)
EXTENDS Loader, SequenceTheorems, NaturalsInduction, WellFoundedInduction, TLAPS

\* A set of naturals has a least element.
LEMMA LeastElement ==
    ASSUME NEW T, T \subseteq Nat, T # {}
    PROVE  \E x \in T : \A y \in T : x <= y
<1>1. PICK x \in T : \A y \in T : ~(<<y, x>> \in OpToRel(<, Nat))
  BY WFMin, NatLessThanWellFounded
<1>2. \A y \in T : ~(y < x)
  BY <1>1 DEF OpToRel
<1> QED
  BY <1>2

\* f[0] is v and each f[i] is the step g of i and the one before it.
Unfolds(f, n, v, g) == f[0] = v /\ \A i \in 1..n : f[i] = g[<<i, f[i - 1]>>]

\* Primitive recursion up to n: such a function exists.
LEMMA RecursionExists ==
    ASSUME NEW n \in Nat, NEW V, NEW v \in V, NEW g \in [(1..n) \X V -> V]
    PROVE  \E f \in [0..n -> V] : Unfolds(f, n, v, g)
<1> DEFINE Has(m) == \E f \in [0..m -> V] : Unfolds(f, m, v, g)
           T == {m \in 0..n : ~Has(m)}
<1> SUFFICES T = {}
  OBVIOUS
<1>1. SUFFICES ASSUME T # {} PROVE FALSE
  OBVIOUS
<1>2. PICK m \in T : \A y \in T : m <= y
  <2>1. T \subseteq Nat
    OBVIOUS
  <2> HIDE DEF T
  <2> QED
    BY <1>1, <2>1, LeastElement
<1>3. m \in 0..n /\ ~Has(m)
  BY <1>2
<1>4. CASE m = 0
  <2>1. Unfolds([i \in 0..0 |-> v], 0, v, g)
    BY DEF Unfolds
  <2> QED
    BY <1>3, <1>4, <2>1
<1>5. CASE m # 0
  <2>1. m - 1 \in 0..n /\ m - 1 \notin T
    BY <1>2, <1>3, <1>5
  <2>2. PICK f \in [0..(m - 1) -> V] : Unfolds(f, m - 1, v, g)
    BY <2>1
  <2> DEFINE h == [i \in 0..m |-> IF i = m THEN g[<<m, f[m - 1]>>] ELSE f[i]]
  <2>3. f[m - 1] \in V /\ m \in 1..n
    BY <1>3, <1>5, <2>2
  <2>4. g[<<m, f[m - 1]>>] \in V
    BY <2>3
  <2>5. h \in [0..m -> V]
    BY <1>3, <2>2, <2>4
  <2>6. h[0] = v
    BY <1>3, <1>5, <2>2 DEF Unfolds
  <2>7. ASSUME NEW i \in 1..m PROVE h[i] = g[<<i, h[i - 1]>>]
    <3>1. CASE i = m
      <4>1. h[i - 1] = f[m - 1]
        BY <1>3, <1>5, <3>1
      <4> QED
        BY <1>3, <3>1, <4>1
    <3>2. CASE i # m
      <4>1. i \in 1..(m - 1) /\ i \in 0..m /\ i - 1 \in 0..m /\ i - 1 # m
        BY <1>3, <3>2
      <4>2. h[i] = f[i] /\ h[i - 1] = f[i - 1]
        BY <3>2, <4>1
      <4> QED
        BY <2>2, <4>1, <4>2 DEF Unfolds
    <3> QED
      BY <3>1, <3>2
  <2>8. Has(m)
    <3> HIDE DEF h
    <3> QED
      BY <2>5, <2>6, <2>7 DEF Unfolds
  <2> QED
    BY <1>3, <2>8
<1> QED
  BY <1>4, <1>5

\* What Product computes, from one dimension to the next.
LEMMA ProductUnfolds ==
    ASSUME NEW dims \in Seq(Nat)
    PROVE  \E p : /\ p[0] = 1 /\ \A i \in 1..Len(dims) : p[i] = p[i - 1] * dims[i]
                  /\ Product(dims) = p[Len(dims)]
<1> DEFINE n == Len(dims)
           g == [x \in (1..n) \X Nat |-> x[2] * dims[x[1]]]
           Rec(p) == p = [i \in 0..n |-> IF i = 0 THEN 1 ELSE p[i - 1] * dims[i]]
<1>1. n \in Nat /\ \A i \in 1..n : dims[i] \in Nat
  OBVIOUS
<1>2. g \in [(1..n) \X Nat -> Nat]
  BY <1>1
<1>3. \A i \in 1..n : \A e \in Nat : g[<<i, e>>] = e * dims[i]
  OBVIOUS
<1> HIDE DEF g, n
<1>4. PICK f \in [0..n -> Nat] : Unfolds(f, n, 1, g)
  BY <1>1, <1>2, RecursionExists
<1>5. Rec(f)
  <2>1. f[0] = 1 /\ \A i \in 1..n : f[i] = f[i - 1] * dims[i]
    <3>1. \A i \in 1..n : i - 1 \in 0..n /\ f[i - 1] \in Nat
      BY <1>1
    <3> QED
      BY <1>1, <1>3, <1>4, <3>1 DEF Unfolds
  <2>2. \A i \in 0..n : f[i] = IF i = 0 THEN 1 ELSE f[i - 1] * dims[i]
    BY <1>1, <2>1
  <2> QED
    BY <1>4, <2>2
<1>6. PICK p : Rec(p) /\ Product(dims) = p[n]
  BY <1>5 DEF Product, n
<1>7. p[0] = 1 /\ \A i \in 1..n : p[i] = p[i - 1] * dims[i]
  BY <1>1, <1>6
<1> QED
  BY <1>6, <1>7 DEF n

\* What the cursor and the element count may be.
Sizes == 0..MaxU

\* The loop over the dimensions multiplies exactly, or ends with None.
LEMMA TimesExact ==
    ASSUME NEW e \in Sizes, NEW d \in Sizes
    PROVE  Times(e, d) = None \/ (Times(e, d) = e * d /\ Times(e, d) \in Sizes)
<1> USE LoaderAssumption DEF Sizes
<1>1. CASE d = 0
  <2>1. e * d = 0
    BY <1>1
  <2> QED
    BY <1>1, <2>1 DEF Times, SaturatingMul
<1>2. CASE d # 0 /\ e > MaxU \div d
  BY <1>2 DEF Times
<1>3. CASE d # 0 /\ ~(e > MaxU \div d)
  <2> DEFINE q == MaxU \div d
  <2>1. q \in Nat /\ q * d <= MaxU
    BY <1>3
  <2>2. e <= q
    BY <1>3, <2>1
  <2> HIDE DEF q
  <2>3. e * d <= q * d /\ e * d \in Nat
    BY <1>3, <2>1, <2>2
  <2>4. e * d <= MaxU
    BY <2>1, <2>3
  <2>5. Times(e, d) = e * d
    BY <1>3, <2>3, <2>4 DEF Times, SaturatingMul
  <2> QED
    BY <2>3, <2>4, <2>5
<1> QED
  BY <1>1, <1>2, <1>3

\* What Elements computes, from one dimension to the next.
LEMMA ElementsUnfolds ==
    ASSUME NEW dims \in Seq(Sizes)
    PROVE  \E e : /\ e[0] = 1 /\ \A i \in 1..Len(dims) : e[i] = Times(e[i - 1], dims[i])
                  /\ Elements(dims) = e[Len(dims)]
<1> DEFINE n == Len(dims)
           V == Sizes \union {None}
           g == [x \in (1..n) \X V |-> Times(x[2], dims[x[1]])]
           Rec(p) == p = [i \in 0..n |-> IF i = 0 THEN 1 ELSE Times(p[i - 1], dims[i])]
<1>1. n \in Nat /\ \A i \in 1..n : dims[i] \in Sizes
  OBVIOUS
<1>2. \A e \in V, d \in Sizes : Times(e, d) \in V
  <2>1. \A d \in Sizes : Times(None, d) = None
    BY DEF Times
  <2> QED
    BY <2>1, TimesExact
<1>3. g \in [(1..n) \X V -> V]
  <2>1. \A x \in (1..n) \X V : Times(x[2], dims[x[1]]) \in V
    BY <1>1, <1>2
  <2> HIDE DEF V
  <2> QED
    BY <2>1
<1>4. \A i \in 1..n : \A e \in V : g[<<i, e>>] = Times(e, dims[i])
  OBVIOUS
<1>5. 1 \in V
  BY LoaderAssumption DEF Sizes
<1> HIDE DEF g, n, V
<1>6. PICK f \in [0..n -> V] : Unfolds(f, n, 1, g)
  BY <1>1, <1>3, <1>5, RecursionExists
<1>7. Rec(f)
  <2>1. f[0] = 1 /\ \A i \in 1..n : f[i] = Times(f[i - 1], dims[i])
    <3>1. \A i \in 1..n : i - 1 \in 0..n /\ f[i - 1] \in V
      BY <1>1
    <3> QED
      BY <1>1, <1>4, <1>6, <3>1 DEF Unfolds
  <2>2. \A i \in 0..n : f[i] = IF i = 0 THEN 1 ELSE Times(f[i - 1], dims[i])
    BY <1>1, <2>1
  <2> QED
    BY <1>6, <2>2
<1>8. PICK p : Rec(p) /\ Elements(dims) = p[n]
  BY <1>7 DEF Elements, n
<1>9. p[0] = 1 /\ \A i \in 1..n : p[i] = Times(p[i - 1], dims[i])
  BY <1>1, <1>8
<1> QED
  BY <1>8, <1>9 DEF n

\* A tensor's element count is the product of its dimensions, or there is none.
LEMMA ElementsExact ==
    ASSUME NEW dims \in Seq(Sizes), Elements(dims) # None
    PROVE  Elements(dims) = Product(dims) /\ Elements(dims) \in Sizes
<1> DEFINE n == Len(dims)
<1>1. PICK e : /\ e[0] = 1 /\ \A i \in 1..n : e[i] = Times(e[i - 1], dims[i])
               /\ Elements(dims) = e[n]
  BY ElementsUnfolds
<1>2. PICK p : /\ p[0] = 1 /\ \A i \in 1..n : p[i] = p[i - 1] * dims[i]
               /\ Product(dims) = p[n]
  <2>1. dims \in Seq(Nat)
    BY LoaderAssumption DEF Sizes
  <2> QED
    BY <2>1, ProductUnfolds
<1> DEFINE Good(i) == e[i] = None \/ (e[i] = p[i] /\ e[i] \in Sizes)
           T == {i \in 0..n : ~Good(i)}
<1>3. n \in Nat /\ \A i \in 1..n : dims[i] \in Sizes
  OBVIOUS
<1> HIDE DEF n
<1>4. T = {}
  <2> SUFFICES ASSUME T # {} PROVE FALSE
    OBVIOUS
  <2>1. PICK i \in T : \A j \in T : i <= j
    <3>1. T \subseteq Nat
      BY <1>3
    <3> HIDE DEF T
    <3> QED
      BY <3>1, LeastElement
  <2>2. i # 0
    BY <1>1, <1>2, <2>1, LoaderAssumption DEF Sizes
  <2>3. i \in 1..n /\ i - 1 \in 0..n /\ Good(i - 1)
    BY <1>3, <2>1, <2>2
  <2>4. e[i] = Times(e[i - 1], dims[i]) /\ p[i] = p[i - 1] * dims[i] /\ dims[i] \in Sizes
    BY <1>1, <1>2, <1>3, <2>3
  <2>5. CASE e[i - 1] = None
    BY <2>1, <2>4, <2>5 DEF Times
  <2>6. CASE e[i - 1] # None
    <3>1. e[i - 1] = p[i - 1] /\ e[i - 1] \in Sizes
      BY <2>3, <2>6
    <3> QED
      BY <2>1, <2>4, <3>1, TimesExact
  <2> QED
    BY <2>5, <2>6
<1>5. Good(n)
  BY <1>3, <1>4
<1> QED
  BY <1>1, <1>2, <1>5

\* Rounding up to whole blocks leaves room for every element.
LEMMA BlocksCover ==
    ASSUME NEW x \in Nat, NEW be \in Nat \ {0}
    PROVE  /\ (x + be - 1) \div be \in Nat
           /\ ((x + be - 1) \div be) * be >= x
<1> DEFINE y == x + be - 1
<1>1. y \in Nat
  OBVIOUS
<1>2. y \div be \in Nat /\ y % be \in 0..(be - 1) /\ y = (y \div be) * be + (y % be)
  BY <1>1
<1> DEFINE q == y \div be
<1>3. q * be \in Nat
  BY <1>2
<1> HIDE DEF q
<1>4. q * be >= x
  BY <1>2, <1>3 DEF q
<1> QED
  BY <1>2, <1>4 DEF q

\* tensor_nbytes: the bytes of a tensor hold its elements, or there are none.
LEMMA BytesHoldElements ==
    ASSUME NEW type, NEW elements \in Sizes
    PROVE  /\ TensorBytes(type, elements) \in Sizes
           /\ TensorBytes(type, elements) > 0 =>
                TensorBytes(type, elements) * TypeTable[type][1] >= elements * TypeTable[type][2]
<1> USE LoaderAssumption DEF Sizes
<1>1. CASE TensorBytes(type, elements) = 0
  BY <1>1
<1>2. CASE TensorBytes(type, elements) # 0
  <2> DEFINE be == TypeTable[type][1]
             bb == TypeTable[type][2]
             q == (elements + be - 1) \div be
  <2>1. type \in DOMAIN TypeTable
    BY <1>2 DEF TensorBytes
  <2>2. be \in Nat \ {0} /\ bb \in Nat \ {0}
    BY <2>1
  <2>3. CheckedAdd(elements, be - 1) # None
    BY <1>2, <2>1 DEF TensorBytes
  <2>4. CheckedAdd(elements, be - 1) = elements + be - 1
    BY <2>2, <2>3 DEF CheckedAdd
  <2>5. TensorBytes(type, elements) = q * bb /\ ~(q * bb > MaxU)
    BY <1>2, <2>1, <2>3, <2>4 DEF TensorBytes
  <2>6. q \in Nat /\ q * be >= elements
    <3> HIDE DEF be
    <3> QED
      BY <2>2, BlocksCover
  <2> HIDE DEF q, be, bb
  <2>7. q * bb \in Nat /\ q * be \in Nat
    BY <2>2, <2>6
  <2>8. (q * bb) * be >= elements * bb
    <3>1. (q * be) * bb >= elements * bb
      BY <2>2, <2>6, <2>7
    <3>2. (q * bb) * be = (q * be) * bb
      BY <2>2, <2>6
    <3> QED
      BY <3>1, <3>2
  <2> QED
    BY <2>5, <2>7, <2>8 DEF be, bb
<1> QED
  BY <1>1, <1>2

-----------------------------------------------------------------------------
\* An array that skip_value is in, a tensor and a block.
ArrayFrame == [type : {"string", "array"}, left : Sizes]
TensorRecord ==
    [name : {t.name : t \in Directory}, dims : Seq(Sizes), type : {t.type : t \in Directory},
     rel : Sizes, abs : Sizes, bytes : Sizes]
Block == [index : Sizes, ffn : BOOLEAN]

\* What the file has been read into so far.
Read ==
    /\ TypeOK
    /\ arrays \in Seq(ArrayFrame)
    /\ tensors \in Seq(TensorRecord)
    /\ Len(tensors) + left <= head.tensors
    /\ alignment \in Alignments \union {DefaultAlignment}
    /\ phase = "header" => pos = 0 /\ kvs = 0 /\ left = 0 /\ tensors = <<>>
    /\ phase # "open" => mapped = None

\* bind_blocks has gone through the smaller indexes, and kept the blocks that have
\* their attention tensors.
Collected ==
    /\ todo \subseteq Indexes
    /\ blocks \in Seq(Block)
    /\ \A i, j \in DOMAIN blocks : i < j => blocks[i].index < blocks[j].index
    /\ \A i \in DOMAIN blocks, x \in todo : blocks[i].index < x
    /\ {blocks[i].index : i \in DOMAIN blocks} = {x \in Indexes \ todo : HasAll(x, AttnParts)}
    /\ \A i \in DOMAIN blocks : blocks[i].ffn = HasAll(blocks[i].index, FfnParts)

BlocksBound ==
    /\ phase \in {"header", "kv", "tensors", "bind"} => blocks = <<>>
    /\ phase \in {"blocks", "map", "open"} => Collected
    /\ phase \in {"map", "open"} => todo = {}

LoaderInv == Read /\ BytesCoverDims /\ TensorsInFile /\ BlocksBound

\* Where a read may leave the cursor.
Places == (0..head.size) \union {None}

\* skip_bytes and read_exact: past the end there is no place, else n further on.
LEMMA SkipMoves ==
    ASSUME head \in Headers, NEW p \in Places, NEW n \in Nat
    PROVE  /\ SkipBytes(p, n) \in Places
           /\ SkipBytes(p, n) # None => p # None /\ SkipBytes(p, n) = p + n
<1>1. head.size \in 0..MaxU /\ MaxU \in Nat /\ None \notin Nat
  BY LoaderAssumption
<1>2. CASE p = None
  BY <1>2 DEF SkipBytes, Places
<1>3. CASE p # None
  <2>1. p \in 0..head.size /\ p \in Nat
    BY <1>1, <1>3 DEF Places
  <2>2. CASE p + n > head.size
    <3>1. SkipBytes(p, n) = None
      BY <1>1, <2>1, <2>2 DEF SkipBytes, CheckedAdd
    <3> QED
      BY <3>1 DEF Places
  <2>3. CASE p + n <= head.size
    <3>1. SkipBytes(p, n) = p + n
      BY <1>1, <2>1, <2>3 DEF SkipBytes, CheckedAdd
    <3> QED
      BY <1>1, <1>3, <2>1, <2>3, <3>1 DEF Places
  <2> QED
    BY <1>1, <2>1, <2>2, <2>3
<1> QED
  BY <1>2, <1>3

\* read_string takes at least its length field.
LEMMA StringMoves ==
    ASSUME head \in Headers, NEW p \in Places, NEW n \in Nat
    PROVE  /\ ReadString(p, n) \in Places
           /\ ReadString(p, n) # None => p # None /\ ReadString(p, n) > p
<1>1. /\ SkipBytes(p, U64) \in Places
      /\ SkipBytes(p, U64) # None => p # None /\ SkipBytes(p, U64) = p + 2
  BY SkipMoves DEF U64
<1>2. /\ ReadString(p, n) \in Places
      /\ ReadString(p, n) # None =>
            SkipBytes(p, U64) # None /\ ReadString(p, n) = SkipBytes(p, U64) + n
  BY <1>1, SkipMoves DEF ReadString
<1>3. p # None => p \in Nat
  BY LoaderAssumption DEF Places
<1> QED
  BY <1>1, <1>2, <1>3

\* A read that starts further on ends further on.
LEMMA SkipFurther ==
    ASSUME head \in Headers, NEW q \in Nat, NEW p \in Places, p # None => p > q, NEW n \in Nat
    PROVE  /\ SkipBytes(p, n) \in Places /\ (SkipBytes(p, n) # None => SkipBytes(p, n) > q)
           /\ ReadString(p, n) \in Places /\ (ReadString(p, n) # None => ReadString(p, n) > q)
<1>1. p # None => p \in Nat
  BY LoaderAssumption DEF Places
<1>2. SkipBytes(p, n) \in Places /\ (SkipBytes(p, n) # None => p # None /\ SkipBytes(p, n) = p + n)
  BY SkipMoves
<1>3. ReadString(p, n) \in Places /\ (ReadString(p, n) # None => p # None /\ ReadString(p, n) > p)
  BY StringMoves
<1>4. SkipBytes(p, n) # None => SkipBytes(p, n) > q
  BY <1>1, <1>2
<1>5. ReadString(p, n) # None => ReadString(p, n) > q
  <2>1. ReadString(p, n) # None => ReadString(p, n) \in Nat
    BY <1>3, LoaderAssumption DEF Places
  <2> QED
    BY <1>1, <1>3, <2>1
<1> QED
  BY <1>2, <1>3, <1>4, <1>5

\* An array of scalars ends further on than its header.
LEMMA ScalarArrayFurther ==
    ASSUME head \in Headers, NEW q \in Nat, NEW p \in Places, p # None => p >= q,
           NEW count \in Sizes, NEW size \in {U32, U64}
    PROVE  /\ ScalarArray(p, count, size) \in Places
           /\ ScalarArray(p, count, size) # None => ScalarArray(p, count, size) > q
<1>1. SaturatingMul(count, size) \in Nat
  <2>1. count * size \in Nat
    BY LoaderAssumption DEF Sizes, U32, U64
  <2> QED
    BY <2>1, LoaderAssumption DEF SaturatingMul
<1>2. /\ SkipBytes(p, U32 + U64) \in Places
      /\ SkipBytes(p, U32 + U64) # None => p # None /\ SkipBytes(p, U32 + U64) = p + 3
  BY SkipMoves DEF U32, U64
<1>3. p # None => p \in Nat
  BY LoaderAssumption DEF Places
<1>4. SkipBytes(p, U32 + U64) # None => SkipBytes(p, U32 + U64) > q
  BY <1>2, <1>3
<1> QED
  BY <1>1, <1>2, <1>4, SkipFurther DEF ScalarArray

\* The key and the type of a metadata entry take bytes.
LEMMA EntryFurther ==
    ASSUME Read, NEW key \in Lengths
    PROVE  EntryStart(key) \in Places /\ (EntryStart(key) # None => EntryStart(key) > pos)
<1>1. head \in Headers /\ pos \in Places /\ pos \in Nat /\ key \in Nat
  <2>1. head \in Headers /\ pos \in 0..head.size
    BY DEF Read, TypeOK
  <2> QED
    BY <2>1, LoaderAssumption DEF Places
<1>2. ReadString(pos, key) \in Places /\ (ReadString(pos, key) # None => ReadString(pos, key) > pos)
  BY <1>1, StringMoves
<1> QED
  BY <1>1, <1>2, SkipFurther DEF EntryStart, U32

\* The loops take bytes of the file, or the load ends.
TurnReads ==
    (kvs' < kvs \/ left' < left \/ (arrays' # arrays /\ Len(arrays') >= Len(arrays)))
        => pos' > pos \/ phase' = "failed"

\* What an array has left is a count of the file.
LEMMA FrameCounts ==
    ASSUME NEW s \in Seq(ArrayFrame)
    PROVE  \A i \in DOMAIN s : s[i].left \in 0..MaxU
<1>1. \A i \in DOMAIN s : s[i] \in ArrayFrame
  OBVIOUS
<1> QED
  BY <1>1 DEF ArrayFrame, Sizes

\* One metadata entry.
LEMMA EntryKeepsRead ==
    ASSUME Read, NEW p \in Places, p # None => p > pos, Entry(p),
           arrays' \in Seq(ArrayFrame), Len(arrays') <= MaxDepth + 1,
           alignment' \in Alignments \union {DefaultAlignment}
    PROVE  Read' /\ TurnReads
<1>1. /\ phase = "kv" /\ kvs > 0 /\ kvs' = kvs - 1
      /\ pos' = (IF p = None THEN pos ELSE p)
      /\ phase' = (IF p = None THEN "failed" ELSE phase)
      /\ UNCHANGED <<head, left, tensors, dataPos, blocks, mapped>>
  BY DEF Entry, MoveTo
<1>2. TypeOK /\ mapped = None
  BY <1>1 DEF Read
<1>3. pos' \in 0..head.size /\ (pos' > pos \/ phase' = "failed")
  BY <1>1, <1>2 DEF Places, TypeOK
<1>4. kvs' \in 0..head.kvs
  BY <1>1, <1>2, LoaderAssumption DEF TypeOK
<1>5. \A i \in DOMAIN arrays' : arrays'[i].left \in 0..MaxU
  BY FrameCounts
<1>6. phase' \in {"kv", "failed"}
  BY <1>1
<1>7. TypeOK'
  BY <1>1, <1>2, <1>3, <1>4, <1>5, <1>6 DEF TypeOK
<1>8. Read'
  BY <1>1, <1>2, <1>6, <1>7 DEF Read
<1> QED
  BY <1>3, <1>8 DEF TurnReads

\* The metadata actions.
LEMMA MetadataKeepsRead ==
    ASSUME Read, KvAlignment \/ KvScalar \/ KvString \/ KvScalarArray \/ KvArray
    PROVE  Read' /\ TurnReads
<1>1. /\ head \in Headers /\ pos \in Nat /\ arrays \in Seq(ArrayFrame)
      /\ Len(arrays) <= MaxDepth + 1 /\ alignment \in Alignments \union {DefaultAlignment}
  <2>1. head \in Headers /\ pos \in 0..head.size
    BY DEF Read, TypeOK
  <2> QED
    BY <2>1, LoaderAssumption DEF Read, TypeOK
<1>2. U32 \in Nat /\ U64 \in Nat /\ U32 + U64 \in Nat
  BY DEF U32, U64
<1>3. CASE KvAlignment
  <2>1. PICK key \in Lengths : Entry(SkipBytes(EntryStart(key), U32))
    BY <1>3 DEF KvAlignment
  <2>2. /\ SkipBytes(EntryStart(key), U32) \in Places
        /\ SkipBytes(EntryStart(key), U32) # None => SkipBytes(EntryStart(key), U32) > pos
    BY <1>1, <1>2, EntryFurther, SkipFurther
  <2>3. arrays' = arrays /\ alignment' \in Alignments
    BY <1>3 DEF KvAlignment
  <2> QED
    BY <1>1, <2>1, <2>2, <2>3, EntryKeepsRead
<1>4. CASE KvScalar
  <2>1. PICK key \in Lengths, n \in {U32, U64} : Entry(SkipBytes(EntryStart(key), n))
    BY <1>4 DEF KvScalar
  <2>2. /\ SkipBytes(EntryStart(key), n) \in Places
        /\ SkipBytes(EntryStart(key), n) # None => SkipBytes(EntryStart(key), n) > pos
    BY <1>1, <1>2, EntryFurther, SkipFurther
  <2>3. arrays' = arrays /\ alignment' = alignment
    BY <1>4 DEF KvScalar
  <2> QED
    BY <1>1, <2>1, <2>2, <2>3, EntryKeepsRead
<1>5. CASE KvString
  <2>1. PICK key \in Lengths, n \in Lengths : Entry(ReadString(EntryStart(key), n))
    BY <1>5 DEF KvString
  <2>2. n \in Nat
    BY LoaderAssumption
  <2>3. /\ ReadString(EntryStart(key), n) \in Places
        /\ ReadString(EntryStart(key), n) # None => ReadString(EntryStart(key), n) > pos
    BY <1>1, <2>2, EntryFurther, SkipFurther
  <2>4. arrays' = arrays /\ alignment' = alignment
    BY <1>5 DEF KvString
  <2> QED
    BY <1>1, <2>1, <2>3, <2>4, EntryKeepsRead
<1>6. CASE KvScalarArray
  <2>1. PICK key \in Lengths, n \in Counts, size \in {U32, U64} :
            Entry(ScalarArray(EntryStart(key), n, size))
    BY <1>6 DEF KvScalarArray
  <2>2. n \in Sizes
    BY LoaderAssumption DEF Sizes
  <2>3. EntryStart(key) \in Places /\ (EntryStart(key) # None => EntryStart(key) >= pos)
    <3>1. EntryStart(key) # None => EntryStart(key) \in Nat
      BY <1>1, EntryFurther, LoaderAssumption DEF Places
    <3> QED
      BY <1>1, <3>1, EntryFurther
  <2>4. /\ ScalarArray(EntryStart(key), n, size) \in Places
        /\ ScalarArray(EntryStart(key), n, size) # None =>
              ScalarArray(EntryStart(key), n, size) > pos
    BY <1>1, <2>2, <2>3, ScalarArrayFurther
  <2>5. arrays' = arrays /\ alignment' = alignment
    BY <1>6 DEF KvScalarArray
  <2> QED
    BY <1>1, <2>1, <2>4, <2>5, EntryKeepsRead
<1>7. CASE KvArray
  <2>1. PICK key \in Lengths : Entry(SkipBytes(EntryStart(key), U32 + U64))
    BY <1>7 DEF KvArray
  <2>2. /\ SkipBytes(EntryStart(key), U32 + U64) \in Places
        /\ SkipBytes(EntryStart(key), U32 + U64) # None =>
              SkipBytes(EntryStart(key), U32 + U64) > pos
    BY <1>1, <1>2, EntryFurther, SkipFurther
  <2>3. PICK n \in Counts, type \in {"string", "array"} : arrays' = Nested(type, n)
    BY <1>7 DEF KvArray
  <2>4. [type |-> type, left |-> n] \in ArrayFrame
    BY LoaderAssumption DEF ArrayFrame, Sizes
  <2>5. arrays = <<>>
    BY <2>1 DEF Entry
  <2>6. arrays' \in Seq(ArrayFrame) /\ Len(arrays') = 1
    BY <1>1, <2>3, <2>4, <2>5 DEF Nested
  <2>7. alignment' = alignment /\ 1 <= MaxDepth + 1
    BY <1>7, LoaderAssumption DEF KvArray
  <2> QED
    BY <1>1, <2>1, <2>2, <2>6, <2>7, EntryKeepsRead
<1> QED
  BY <1>3, <1>4, <1>5, <1>6, <1>7

\* An item of an array, or the array itself, begins and ends.
LEMMA ArrayKeepsRead ==
    ASSUME Read, SkipItem \/ EndArray
    PROVE  Read' /\ TurnReads
<1>1. /\ TypeOK /\ arrays \in Seq(ArrayFrame) /\ arrays # <<>> /\ phase = "kv" /\ mapped = None
  BY DEF Read, SkipItem, EndArray
<1>2. /\ head \in Headers /\ pos \in 0..head.size /\ pos \in Nat /\ pos \in Places
      /\ head.size \in Nat
  BY <1>1, LoaderAssumption DEF TypeOK, Places
<1> DEFINE n == Len(arrays)
<1>3. n \in Nat \ {0} /\ n <= MaxDepth + 1 /\ arrays[n] \in ArrayFrame
  BY <1>1 DEF TypeOK
<1>4. ASSUME arrays' \in Seq(ArrayFrame), Len(arrays') <= MaxDepth + 1,
             pos' \in 0..head.size, phase' \in {"kv", "failed"},
             UNCHANGED <<head, kvs, left, alignment, tensors, dataPos, todo, blocks, mapped>>
      PROVE  Read'
  <2>1. \A i \in DOMAIN arrays' : arrays'[i].left \in 0..MaxU
    BY <1>4, FrameCounts
  <2>2. TypeOK'
    BY <1>1, <1>4, <2>1 DEF TypeOK
  <2> QED
    BY <1>1, <1>4, <2>2 DEF Read
<1>5. CASE EndArray
  <2>1. arrays' = Front(arrays) /\ UNCHANGED <<phase, pos>>
        /\ UNCHANGED <<head, kvs, left, alignment, tensors, dataPos, todo, blocks, mapped>>
    BY <1>5 DEF EndArray
  <2>2. Front(arrays) \in Seq(ArrayFrame) /\ Len(Front(arrays)) = n - 1
    <3>1. \A i \in 1..(n - 1) : arrays[i] \in ArrayFrame
      BY <1>1
    <3> HIDE DEF n
    <3>2. n - 1 \in Int /\ 1 \in Int
      BY <1>3
    <3>3. /\ SubSeq(arrays, 1, n - 1) \in Seq(ArrayFrame)
          /\ Len(SubSeq(arrays, 1, n - 1)) = IF 1 <= n - 1 THEN n - 1 - 1 + 1 ELSE 0
      BY <3>1, <3>2, SubSeqProperties
    <3>4. Len(SubSeq(arrays, 1, n - 1)) = n - 1
      BY <1>3, <3>3
    <3>5. Front(arrays) = SubSeq(arrays, 1, n - 1)
      BY DEF Front, n
    <3> QED
      BY <3>3, <3>4, <3>5
  <2>3. Len(arrays') <= MaxDepth + 1 /\ ~(Len(arrays') >= Len(arrays))
    BY <1>3, <2>1, <2>2, LoaderAssumption
  <2>4. Read'
    BY <1>1, <1>2, <1>4, <2>1, <2>2, <2>3
  <2>5. kvs' = kvs /\ left' = left /\ kvs \in Int /\ left \in Int
    BY <1>1, <2>1, LoaderAssumption DEF TypeOK
  <2> QED
    BY <2>3, <2>4, <2>5 DEF TurnReads
<1>6. CASE SkipItem
  <2>1. arrays[n].left > 0 /\ Last(arrays) = arrays[n]
    BY <1>6 DEF SkipItem, Last
  <2>2. OneLess \in Seq(ArrayFrame) /\ Len(OneLess) = n
    <3>1. [arrays[n] EXCEPT !.left = @ - 1] \in ArrayFrame
      <4>1. arrays[n].left - 1 \in 0..MaxU
        BY <1>3, <2>1, LoaderAssumption DEF ArrayFrame, Sizes
      <4> HIDE DEF n
      <4> QED
        BY <1>3, <4>1 DEF ArrayFrame, Sizes
    <3>2. OneLess = [arrays EXCEPT ![n] = [arrays[n] EXCEPT !.left = @ - 1]]
      BY DEF OneLess
    <3> HIDE DEF n
    <3> QED
      BY <1>1, <1>3, <3>1, <3>2 DEF n
  <2>3. UNCHANGED <<head, kvs, left, alignment, tensors, dataPos, todo, blocks, mapped>>
    BY <1>6 DEF SkipItem
  <2>4. CASE phase' = "failed" /\ UNCHANGED <<pos, arrays>>
    <3>1. Read'
      BY <1>1, <1>2, <1>3, <1>4, <2>3, <2>4
    <3> QED
      BY <2>4, <3>1 DEF TurnReads
  <2>5. ASSUME pos' \in Places, pos' # None, pos' > pos, phase' = phase,
               arrays' \in Seq(ArrayFrame), Len(arrays') <= MaxDepth + 1
        PROVE  Read' /\ TurnReads
    <3>1. pos' \in 0..head.size
      BY <2>5 DEF Places
    <3>2. Read'
      BY <1>1, <1>4, <2>3, <2>5, <3>1
    <3> QED
      BY <2>5, <3>2 DEF TurnReads
  <2>6. CASE \E len \in Lengths : /\ ReadString(pos, len) # None
                                 /\ pos' = ReadString(pos, len)
                                 /\ arrays' = OneLess /\ UNCHANGED phase
    <3>1. PICK len \in Lengths : /\ ReadString(pos, len) # None
                                 /\ pos' = ReadString(pos, len)
                                 /\ arrays' = OneLess /\ UNCHANGED phase
      BY <2>6
    <3>2. len \in Nat
      BY LoaderAssumption
    <3>3. pos' \in Places /\ pos' > pos
      BY <1>2, <3>1, <3>2, StringMoves
    <3> QED
      BY <1>3, <2>2, <2>5, <3>1, <3>3
  <2>7. CASE \E c \in Counts : /\ ScalarArray(pos, c, U32) # None
                               /\ pos' = ScalarArray(pos, c, U32)
                               /\ arrays' = OneLess /\ UNCHANGED phase
    <3>1. PICK c \in Counts : /\ ScalarArray(pos, c, U32) # None
                              /\ pos' = ScalarArray(pos, c, U32)
                              /\ arrays' = OneLess /\ UNCHANGED phase
      BY <2>7
    <3>2. c \in Sizes /\ pos >= pos
      BY <1>2, LoaderAssumption DEF Sizes
    <3>3. pos' \in Places /\ pos' > pos
      BY <1>2, <3>1, <3>2, ScalarArrayFurther
    <3> QED
      BY <1>3, <2>2, <2>5, <3>1, <3>3
  <2>8. CASE \E c \in Counts, type \in {"string", "array"} :
                /\ n <= MaxDepth
                /\ SkipBytes(pos, U32 + U64) # None
                /\ pos' = SkipBytes(pos, U32 + U64)
                /\ arrays' = Append(OneLess, [type |-> type, left |-> c]) /\ UNCHANGED phase
    <3>1. PICK c \in Counts, type \in {"string", "array"} :
                /\ n <= MaxDepth
                /\ SkipBytes(pos, U32 + U64) # None
                /\ pos' = SkipBytes(pos, U32 + U64)
                /\ arrays' = Append(OneLess, [type |-> type, left |-> c]) /\ UNCHANGED phase
      BY <2>8
    <3>2. [type |-> type, left |-> c] \in ArrayFrame
      BY LoaderAssumption DEF ArrayFrame, Sizes
    <3>3. arrays' \in Seq(ArrayFrame) /\ Len(arrays') = n + 1
      BY <2>2, <3>1, <3>2, AppendProperties
    <3>4. pos' \in Places /\ pos' = pos + 3
      <4>1. U32 + U64 \in Nat /\ U32 + U64 = 3
        BY DEF U32, U64
      <4> QED
        BY <1>2, <3>1, <4>1, SkipMoves
    <3>5. pos' > pos /\ Len(arrays') <= MaxDepth + 1
      BY <1>2, <1>3, <3>1, <3>3, <3>4, LoaderAssumption
    <3> QED
      BY <2>5, <3>1, <3>3, <3>4, <3>5
  <2>9. ~(n > MaxDepth) => n <= MaxDepth
    BY <1>3, LoaderAssumption
  <2> QED
    BY <1>6, <2>4, <2>6, <2>7, <2>8, <2>9 DEF SkipItem, Fail
<1> QED
  BY <1>5, <1>6

\* A tensor that has bytes has room for its elements.
Covered(t) ==
    t.bytes > 0 => t.bytes * TypeTable[t.type][1] >= Product(t.dims) * TypeTable[t.type][2]

\* What changes neither the cursor nor what was read keeps it, in a later phase.
LEMMA PhaseKeepsRead ==
    ASSUME Read, phase # "open", phase' \in {"kv", "tensors", "bind", "blocks", "map", "open",
                                            "failed", "panicked"},
           UNCHANGED <<head, pos, kvs, left, arrays, alignment, tensors, dataPos>>,
           mapped' = None \/ (phase' = "open" /\ mapped' \in 0..MaxU)
    PROVE  Read' /\ TurnReads
<1>1. TypeOK'
  BY DEF Read, TypeOK
<1>2. Read'
  BY <1>1 DEF Read
<1>3. kvs \in Int /\ left \in Int
  BY LoaderAssumption DEF Read, TypeOK
<1> QED
  BY <1>2, <1>3 DEF TurnReads

\* One entry of the tensor directory.
LEMMA ReadTensorKeepsRead ==
    ASSUME Read, ReadTensor
    PROVE  /\ Read' /\ TurnReads
           /\ \/ tensors' = tensors
              \/ \E r \in TensorRecord : tensors' = Append(tensors, r) /\ Covered(r)
<1>1. /\ phase = "tensors" /\ left > 0 /\ left' = left - 1
      /\ UNCHANGED <<head, kvs, arrays, alignment, dataPos, todo, blocks, mapped>>
  BY DEF ReadTensor
<1>2. /\ TypeOK /\ tensors \in Seq(TensorRecord) /\ Len(tensors) + left <= head.tensors
      /\ mapped = None
  BY <1>1 DEF Read
<1>3. /\ head \in Headers /\ pos \in 0..head.size /\ pos \in Nat /\ pos \in Places
      /\ left \in Nat /\ kvs \in Nat /\ left \in 0..head.tensors /\ head.tensors \in Nat
  BY <1>2, LoaderAssumption DEF TypeOK, Places
<1>4. ASSUME pos' \in 0..head.size, phase' \in {"tensors", "failed"},
             tensors' \in Seq(TensorRecord), Len(tensors') <= Len(tensors) + 1
      PROVE  Read'
  <2>1. Len(tensors') + left' <= head.tensors /\ Len(tensors') <= head.tensors
        /\ left' \in 0..head.tensors
    BY <1>1, <1>2, <1>3, <1>4
  <2>2. TypeOK'
    BY <1>1, <1>2, <1>4, <2>1 DEF TypeOK
  <2> QED
    BY <1>1, <1>2, <1>4, <2>1, <2>2 DEF Read
<1>5. PICK t \in Directory :
        LET ndim == Len(t.dims)
            dims == SkipBytes(SkipBytes(ReadString(pos, t.len), U32), ndim * U64)
            end == SkipBytes(dims, U32 + U64)
            elements == Elements(t.dims)
        IN IF ndim \notin 1..MaxDims \/ end = None \/ elements = None
             THEN Fail /\ UNCHANGED <<pos, tensors>>
             ELSE /\ pos' = end
                  /\ tensors' = Append(tensors,
                        [name |-> t.name, dims |-> t.dims, type |-> t.type, rel |-> t.rel,
                         abs |-> 0, bytes |-> TensorBytes(t.type, elements)])
                  /\ UNCHANGED phase
  BY DEF ReadTensor
<1> DEFINE ndim == Len(t.dims)
           dims == SkipBytes(SkipBytes(ReadString(pos, t.len), U32), ndim * U64)
           end == SkipBytes(dims, U32 + U64)
           elements == Elements(t.dims)
           r == [name |-> t.name, dims |-> t.dims, type |-> t.type, rel |-> t.rel,
                 abs |-> 0, bytes |-> TensorBytes(t.type, elements)]
<1>6. CASE phase' = "failed" /\ UNCHANGED <<pos, tensors>>
  <2>1. Len(tensors) <= Len(tensors) + 1
    BY <1>2
  <2>2. Read'
    BY <1>2, <1>3, <1>4, <1>6, <2>1
  <2> QED
    BY <1>6, <2>2 DEF TurnReads
<1>7. CASE end # None /\ elements # None /\ pos' = end /\ tensors' = Append(tensors, r)
           /\ UNCHANGED phase
  <2>1. t.len \in Nat /\ t.dims \in Seq(Sizes) /\ t.rel \in Sizes
    BY LoaderAssumption DEF Sizes
  <2>2. end \in Places /\ end > pos
    <3>1. U32 \in Nat /\ U32 + U64 \in Nat /\ ndim * U64 \in Nat
      BY <2>1 DEF U32, U64
    <3> DEFINE a == ReadString(pos, t.len)
               b == SkipBytes(a, U32)
    <3> HIDE DEF ndim
    <3>2. a \in Places /\ (a # None => a > pos)
      BY <1>3, <2>1, StringMoves
    <3> HIDE DEF a
    <3>3. b \in Places /\ (b # None => b > pos)
      BY <1>3, <3>1, <3>2, SkipFurther
    <3> HIDE DEF b
    <3>4. SkipBytes(b, ndim * U64) \in Places
          /\ (SkipBytes(b, ndim * U64) # None => SkipBytes(b, ndim * U64) > pos)
      BY <1>3, <3>1, <3>3, SkipFurther
    <3>5. dims \in Places /\ (dims # None => dims > pos)
      BY <3>4 DEF a, b
    <3> HIDE DEF dims
    <3>6. end \in Places /\ (end # None => end > pos)
      BY <1>3, <3>1, <3>5, SkipFurther
    <3> QED
      BY <1>7, <3>6
  <2> HIDE DEF end
  <2>3. elements \in Sizes /\ elements = Product(t.dims)
    BY <1>7, <2>1, ElementsExact
  <2> HIDE DEF elements
  <2>4. /\ TensorBytes(t.type, elements) \in Sizes
        /\ TensorBytes(t.type, elements) > 0 =>
             TensorBytes(t.type, elements) * TypeTable[t.type][1]
                 >= elements * TypeTable[t.type][2]
    BY <2>3, BytesHoldElements
  <2>5. 0 \in Sizes
    BY LoaderAssumption DEF Sizes
  <2>6. r \in TensorRecord
    BY <2>1, <2>4, <2>5 DEF TensorRecord
  <2>7. r.bytes = TensorBytes(t.type, elements) /\ r.type = t.type /\ r.dims = t.dims
    OBVIOUS
  <2> HIDE DEF r
  <2>8. Covered(r)
    BY <2>3, <2>4, <2>7 DEF Covered
  <2>9. tensors' \in Seq(TensorRecord) /\ Len(tensors') = Len(tensors) + 1
    BY <1>2, <1>7, <2>6, AppendProperties
  <2>10. pos' \in 0..head.size
    BY <1>7, <2>2 DEF Places
  <2>11. Len(tensors') <= Len(tensors) + 1
    BY <1>2, <2>9
  <2>12. Read'
    BY <1>1, <1>4, <1>7, <2>9, <2>10, <2>11
  <2>13. TurnReads
    BY <1>7, <2>2 DEF TurnReads
  <2> QED
    BY <1>7, <2>6, <2>8, <2>12, <2>13
<1> QED
  BY <1>5, <1>6, <1>7 DEF Fail

\* align_up goes no further than one alignment.
LEMMA AlignedUp ==
    ASSUME NEW v \in Nat, NEW a \in Nat
    PROVE  AlignUp(v, a) \in Nat /\ AlignUp(v, a) <= v + a
<1>1. CASE a = 0
  BY <1>1 DEF AlignUp
<1>2. CASE a # 0
  <2>1. v % a \in 0..(a - 1)
    BY <1>2
  <2> QED
    BY <1>2, <2>1 DEF AlignUp
<1> QED
  BY <1>1, <1>2

\* What a tensor that has bytes is in the file.
InFile(t, base) == t.bytes > 0 => t.abs >= base /\ t.abs + t.bytes <= head.size

\* The loop that places the tensors.
LEMMA LayoutPlaces ==
    ASSUME Read, Layout
    PROVE  /\ Read' /\ TurnReads
           /\ \/ phase' = "failed" /\ UNCHANGED tensors
              \/ /\ phase' = "bind" /\ DOMAIN tensors' = DOMAIN tensors
                 /\ \A i \in DOMAIN tensors :
                       /\ tensors'[i].bytes = tensors[i].bytes
                       /\ tensors'[i].dims = tensors[i].dims
                       /\ tensors'[i].type = tensors[i].type
                       /\ InFile(tensors'[i], dataPos')
<1> DEFINE base == AlignUp(pos, alignment)
<1>1. /\ phase = "tensors" /\ left = 0
      /\ UNCHANGED <<head, pos, kvs, left, arrays, alignment, todo, blocks, mapped>>
  BY DEF Layout
<1>2. TypeOK /\ tensors \in Seq(TensorRecord) /\ Len(tensors) <= head.tensors /\ mapped = None
  BY <1>1 DEF Read, TypeOK
<1>3. base \in 0..MaxU
  <2>1. /\ head \in Headers /\ pos \in 0..head.size /\ head.size \in Nat
        /\ alignment \in Alignments \union {DefaultAlignment}
    BY <1>2, LoaderAssumption DEF Read, TypeOK
  <2>2. alignment \in Nat /\ pos \in Nat /\ head.size + alignment <= MaxU
    BY <2>1, LoaderAssumption DEF DefaultAlignment
  <2>3. AlignUp(pos, alignment) \in Nat /\ AlignUp(pos, alignment) <= pos + alignment
    BY <2>2, AlignedUp
  <2> QED
    BY <2>1, <2>2, <2>3, LoaderAssumption
<1>4. CASE phase' = "failed" /\ UNCHANGED <<tensors, dataPos>>
  <2>1. Read' /\ TurnReads
    BY <1>1, <1>2, <1>4, PhaseKeepsRead
  <2> QED
    BY <1>4, <2>1
<1>5. CASE /\ \A i \in DOMAIN tensors : ~OutOfFile(tensors[i], base)
           /\ dataPos' = base /\ phase' = "bind"
           /\ tensors' = [i \in DOMAIN tensors |->
                  [tensors[i] EXCEPT !.abs = CheckedAdd(base, tensors[i].rel)]]
  <2> HIDE DEF base
  <2>1. ASSUME NEW i \in DOMAIN tensors
        PROVE  /\ tensors'[i] \in TensorRecord
               /\ tensors'[i].bytes = tensors[i].bytes /\ tensors'[i].dims = tensors[i].dims
               /\ tensors'[i].type = tensors[i].type
               /\ InFile(tensors'[i], dataPos')
    <3> DEFINE t == tensors[i]
    <3>1. t \in TensorRecord
      BY <1>2
    <3> HIDE DEF t
    <3>2. t.rel \in 0..MaxU /\ t.bytes \in 0..MaxU
      BY <3>1 DEF TensorRecord, Sizes
    <3>3. ~OutOfFile(t, base)
      BY <1>5 DEF t
    <3>4. CheckedAdd(base, t.rel) # None
      BY <3>3 DEF OutOfFile
    <3>5. CheckedAdd(base, t.rel) = base + t.rel /\ base + t.rel \in 0..MaxU
      BY <1>3, <3>2, <3>4, LoaderAssumption DEF CheckedAdd
    <3>6. t.bytes # 0 => base + t.rel + t.bytes <= head.size
      <4>1. head.size \in Nat
        BY <1>2, LoaderAssumption DEF TypeOK
      <4>2. t.bytes # 0 => ~(base + t.rel > head.size) /\ ~(t.bytes > head.size - (base + t.rel))
        BY <3>3, <3>4, <3>5 DEF OutOfFile
      <4> QED
        BY <1>3, <3>2, <4>1, <4>2
    <3>7. tensors'[i] = [t EXCEPT !.abs = base + t.rel]
      BY <1>5, <3>5 DEF t
    <3>8. /\ tensors'[i] \in TensorRecord /\ tensors'[i].bytes = t.bytes
          /\ tensors'[i].dims = t.dims /\ tensors'[i].type = t.type
          /\ tensors'[i].abs = base + t.rel
      BY <3>1, <3>5, <3>7 DEF TensorRecord, Sizes
    <3>9. InFile(tensors'[i], dataPos')
      BY <1>1, <1>3, <1>5, <3>2, <3>6, <3>8 DEF InFile
    <3> QED
      BY <3>8, <3>9 DEF t
  <2>2. DOMAIN tensors' = DOMAIN tensors
    BY <1>5
  <2>3. tensors' \in Seq(TensorRecord) /\ Len(tensors') = Len(tensors)
    <3>1. DOMAIN tensors = 1..Len(tensors) /\ Len(tensors) \in Nat
      BY <1>2
    <3>2. tensors' \in [1..Len(tensors) -> TensorRecord]
      BY <1>5, <2>1, <3>1
    <3> QED
      BY <3>1, <3>2
  <2>4. TypeOK'
    BY <1>1, <1>2, <1>3, <1>5, <2>3 DEF TypeOK
  <2>5. Read'
    BY <1>1, <1>2, <1>5, <2>3, <2>4 DEF Read
  <2>6. kvs \in Int /\ left \in Int
    BY <1>2, LoaderAssumption DEF TypeOK
  <2>7. TurnReads
    BY <1>1, <2>6 DEF TurnReads
  <2> QED
    BY <1>5, <2>1, <2>2, <2>5, <2>7
<1> QED
  <2>1. CASE \E i \in DOMAIN tensors : OutOfFile(tensors[i], base)
    BY <1>4, <2>1 DEF Layout, Fail
  <2>2. CASE ~\E i \in DOMAIN tensors : OutOfFile(tensors[i], base)
    <3>1. /\ dataPos' = base /\ phase' = "bind"
          /\ tensors' = [i \in DOMAIN tensors |->
                 [tensors[i] EXCEPT !.abs = CheckedAdd(base, tensors[i].rel)]]
      BY <2>2 DEF Layout
    <3> QED
      BY <1>5, <2>2, <3>1
  <2> QED
    BY <2>1, <2>2

\* Every step of the load keeps what was read, and every turn of a loop reads.
LEMMA StepKeepsRead ==
    ASSUME Read, [Next]_vars
    PROVE  Read' /\ TurnReads
<1>1. CASE ReadHeader
  <2>1. /\ phase = "header" /\ pos = 0 /\ kvs = 0 /\ left = 0 /\ tensors = <<>>
        /\ TypeOK /\ mapped = None
        /\ UNCHANGED <<head, arrays, alignment, tensors, dataPos, todo, blocks, mapped>>
    BY <1>1 DEF ReadHeader, Read
  <2>2. CASE head.size < MinFile \/ ~head.gguf
    <3>1. phase' = "failed" /\ UNCHANGED <<pos, kvs, left>>
      BY <1>1, <2>2 DEF ReadHeader, Fail
    <3> QED
      BY <2>1, <3>1, PhaseKeepsRead
  <2>3. CASE ~(head.size < MinFile \/ ~head.gguf)
    <3>1. /\ pos' = 6 /\ kvs' = head.kvs /\ left' = head.tensors /\ phase' = "kv"
          /\ ~(head.size < 8)
      BY <1>1, <2>3 DEF ReadHeader, U32, U64, MinFile
    <3>2. /\ head.size \in Nat /\ head.kvs \in Nat /\ head.tensors \in Nat
      BY <2>1, LoaderAssumption DEF TypeOK
    <3>3. pos' \in 0..head.size
      BY <3>1, <3>2
    <3>4. TypeOK'
      BY <2>1, <3>1, <3>2, <3>3 DEF TypeOK
    <3>5. Len(tensors') + left' <= head.tensors'
      <4>1. Len(tensors') = 0
        BY <2>1
      <4> QED
        BY <2>1, <3>1, <3>2, <4>1
    <3>6. Read'
      BY <2>1, <3>1, <3>4, <3>5 DEF Read
    <3> QED
      BY <2>1, <3>1, <3>6 DEF TurnReads
  <2> QED
    BY <2>2, <2>3
<1>2. CASE KvAlignment \/ KvScalar \/ KvString \/ KvScalarArray \/ KvArray
  BY <1>2, MetadataKeepsRead
<1>3. CASE SkipItem \/ EndArray
  BY <1>3, ArrayKeepsRead
<1>4. ASSUME phase \in {"kv", "tensors", "bind", "blocks", "map"},
             phase' \in {"kv", "tensors", "bind", "blocks", "map", "open", "failed", "panicked"},
             UNCHANGED <<head, pos, kvs, left, arrays, alignment, tensors, dataPos, mapped>>
      PROVE  Read' /\ TurnReads
  <2>1. phase # "open" /\ mapped' = None
    BY <1>4 DEF Read
  <2> QED
    BY <1>4, <2>1, PhaseKeepsRead
<1>5. CASE Reject
  BY <1>4, <1>5 DEF Reject, Fail
<1>6. CASE EndMetadata
  BY <1>4, <1>6 DEF EndMetadata
<1>7. CASE ReadTensor
  BY <1>7, ReadTensorKeepsRead
<1>8. CASE Layout
  BY <1>8, LayoutPlaces
<1>9. CASE Bind
  <2>1. /\ phase = "bind" /\ phase' \in {"failed", "blocks"}
        /\ UNCHANGED <<head, pos, kvs, left, arrays, alignment, tensors, dataPos, mapped>>
    BY <1>9 DEF Bind, Fail
  <2> QED
    BY <1>4, <2>1
<1>10. CASE BindBlock
  BY <1>4, <1>10 DEF BindBlock
<1>11. CASE EndBlocks
  BY <1>4, <1>11 DEF EndBlocks
<1>12. CASE OpenCpu
  BY <1>4, <1>12 DEF OpenCpu
<1>13. CASE OpenMetal
  <2>1. /\ phase = "map"
        /\ UNCHANGED <<head, pos, kvs, left, arrays, alignment, tensors, dataPos>>
    BY <1>13 DEF OpenMetal
  <2>2. TypeOK /\ mapped = None
    BY <2>1 DEF Read
  <2>3. CASE mapped' = (head.size - dataPos) % (MaxU + 1) /\ phase' = "open"
    <3>1. (head.size - dataPos) % (MaxU + 1) \in 0..MaxU
      <4>1. head.size - dataPos \in Int /\ MaxU + 1 \in Nat \ {0}
        BY <2>2, LoaderAssumption DEF TypeOK
      <4> QED
        BY <4>1, LoaderAssumption
    <3> QED
      BY <2>1, <2>3, <3>1, PhaseKeepsRead
  <2>4. CASE phase' = "panicked" /\ UNCHANGED mapped
    BY <2>1, <2>2, <2>4, PhaseKeepsRead
  <2> QED
    BY <1>13, <2>3, <2>4 DEF OpenMetal
<1>14. CASE UNCHANGED vars
  <2>1. TypeOK'
    BY <1>14 DEF vars, Read, TypeOK
  <2>2. Read'
    BY <1>14, <2>1 DEF vars, Read
  <2>3. kvs \in Int /\ left \in Int
    BY LoaderAssumption DEF Read, TypeOK
  <2> QED
    BY <1>14, <2>2, <2>3 DEF vars, TurnReads
<1> QED
  BY <1>1, <1>2, <1>3, <1>5, <1>6, <1>7, <1>8, <1>9, <1>10, <1>11, <1>12, <1>13, <1>14
     DEF Next

\* What the tensors of a step may have come from.
LEMMA TensorsStep ==
    ASSUME Read, [Next]_vars
    PROVE  ReadTensor \/ Layout \/ UNCHANGED tensors
BY DEF Next, vars, ReadHeader, KvAlignment, KvScalar, KvString, KvScalarArray, KvArray, Entry,
       SkipItem, EndArray, Reject, EndMetadata, Bind, BindBlock, EndBlocks, OpenCpu, OpenMetal

\* Every step keeps room for the elements of each tensor.
LEMMA StepKeepsCover ==
    ASSUME Read, BytesCoverDims, [Next]_vars
    PROVE  BytesCoverDims'
<1>1. \A i \in DOMAIN tensors : Covered(tensors[i])
  BY DEF BytesCoverDims, Covered
<1>2. SUFFICES \A i \in DOMAIN tensors' : Covered(tensors'[i])
  BY DEF BytesCoverDims, Covered
<1>3. CASE UNCHANGED tensors
  BY <1>1, <1>3
<1>4. ASSUME NEW r \in TensorRecord, tensors' = Append(tensors, r), Covered(r)
      PROVE  \A i \in DOMAIN tensors' : Covered(tensors'[i])
  <2>1. tensors \in Seq(TensorRecord)
    BY DEF Read
  <2>2. \A i \in DOMAIN tensors' : tensors'[i] = r \/ (i \in DOMAIN tensors /\ tensors'[i] = tensors[i])
    BY <1>4, <2>1
  <2> QED
    BY <1>1, <1>4, <2>2
<1>5. CASE ReadTensor
  BY <1>3, <1>4, <1>5, ReadTensorKeepsRead
<1>6. CASE Layout
  BY <1>1, <1>3, <1>6, LayoutPlaces DEF Covered
<1> QED
  BY <1>3, <1>5, <1>6, TensorsStep

\* The phases before the tensors are placed, and after.
Early == {"header", "kv", "tensors", "failed"}
Late == {"bind", "blocks", "map", "open", "panicked"}

\* The steps up to the tensor directory.
Reading ==
    \/ ReadHeader \/ KvAlignment \/ KvScalar \/ KvString \/ KvScalarArray \/ KvArray
    \/ SkipItem \/ EndArray \/ Reject \/ EndMetadata \/ ReadTensor

\* They end before the tensors are placed, and bind nothing.
LEMMA ReadingIsEarly ==
    ASSUME Reading
    PROVE  /\ phase \in Early \ {"failed"} /\ phase' \in Early
           /\ UNCHANGED <<blocks, todo>>
<1>1. CASE ReadHeader
  BY <1>1 DEF ReadHeader, Fail, Early
<1>2. ASSUME NEW p, Entry(p)
      PROVE  phase = "kv" /\ phase' \in {"kv", "failed"} /\ UNCHANGED <<blocks, todo>>
  BY <1>2 DEF Entry
<1>3. CASE KvAlignment \/ KvScalar \/ KvString \/ KvScalarArray \/ KvArray
  <2>1. \E p : Entry(p)
    BY <1>3 DEF KvAlignment, KvScalar, KvString, KvScalarArray, KvArray
  <2> QED
    BY <1>2, <2>1 DEF Early
<1>4. CASE SkipItem
  <2>1. phase = "kv" /\ phase' \in {"kv", "failed"} /\ UNCHANGED <<blocks, todo>>
    BY <1>4 DEF SkipItem, Fail
  <2> QED
    BY <2>1 DEF Early
<1>5. CASE EndArray \/ Reject \/ EndMetadata
  BY <1>5 DEF EndArray, Reject, EndMetadata, Fail, Early
<1>6. CASE ReadTensor
  <2>1. phase = "tensors" /\ phase' \in {"tensors", "failed"} /\ UNCHANGED <<blocks, todo>>
    BY <1>6 DEF ReadTensor, Fail
  <2> QED
    BY <2>1 DEF Early
<1> QED
  BY <1>1, <1>3, <1>4, <1>5, <1>6 DEF Reading

\* A number below the modulus is its own remainder.
LEMMA SmallRemainder ==
    ASSUME NEW m \in Nat \ {0}, NEW x \in 0..(m - 1)
    PROVE  x % m = x
<1> DEFINE q == x \div m
           r == x % m
<1>1. q \in Int /\ r \in 0..(m - 1) /\ x = q * m + r
  OBVIOUS
<1> HIDE DEF q, r
<1>2. CASE q >= 1
  <2>1. q * m >= m
    BY <1>1, <1>2
  <2> QED
    BY <1>1, <2>1
<1>3. CASE q <= -1
  <2>1. q * m <= -m
    BY <1>1, <1>3
  <2> QED
    BY <1>1, <2>1
<1>4. CASE q = 0
  <2>1. x = r
    BY <1>1, <1>4
  <2> QED
    BY <2>1 DEF r
<1> QED
  BY <1>1, <1>2, <1>3, <1>4

\* Every step leaves the tensors inside the file, and inside what is mapped.
LEMMA StepKeepsInFile ==
    ASSUME Read, Read', TensorsInFile, [Next]_vars
    PROVE  TensorsInFile'
<1> DEFINE Placed == phase \in Late => \A i \in DOMAIN tensors : InFile(tensors[i], dataPos)
           Mapped == phase \in Late => \A i \in DOMAIN tensors : tensors[i].bytes > 0 =>
                        phase # "panicked" /\ (mapped # None => dataPos + mapped = head.size)
<1>1. Placed /\ Mapped
  BY DEF TensorsInFile, InFile, Late
<1>2. Placed' /\ Mapped' => TensorsInFile'
  BY DEF TensorsInFile, InFile, Late
<1>3. CASE Reading
  <2>1. phase' \notin Late
    BY <1>3, ReadingIsEarly DEF Early, Late
  <2> QED
    BY <1>2, <2>1
<1>4. CASE Layout
  <2>1. CASE phase' = "failed"
    BY <1>2, <2>1 DEF Late
  <2>2. CASE phase' = "bind"
    <3>1. mapped' = None
      BY <2>2 DEF Read
    <3>2. head' = head
      BY <1>4 DEF Layout
    <3>3. \A i \in DOMAIN tensors' : InFile(tensors'[i], dataPos')
      BY <1>4, <2>2, LayoutPlaces
    <3>4. Placed'
      BY <3>2, <3>3 DEF InFile
    <3>5. Mapped'
      BY <2>2, <3>1
    <3> QED
      BY <1>2, <3>4, <3>5
  <2> QED
    BY <1>4, <2>1, <2>2, LayoutPlaces
<1>5. ASSUME phase' \in {"failed"} \/ (phase \in Late /\ phase' \in Late \ {"panicked"}),
             UNCHANGED <<head, tensors, dataPos, mapped>>
      PROVE  TensorsInFile'
  <2>1. Placed' /\ Mapped'
    BY <1>1, <1>5 DEF InFile, Late
  <2> QED
    BY <1>2, <2>1
<1>6. CASE Bind
  <2>1. /\ phase = "bind" /\ phase' \in {"failed", "blocks"}
        /\ UNCHANGED <<head, tensors, dataPos, mapped>>
    BY <1>6 DEF Bind, Fail
  <2> QED
    BY <1>5, <2>1 DEF Late
<1>7. CASE BindBlock \/ EndBlocks \/ OpenCpu
  <2>1. /\ phase \in {"blocks", "map"} /\ phase' \in {"blocks", "map", "open"}
        /\ UNCHANGED <<head, tensors, dataPos, mapped>>
    BY <1>7 DEF BindBlock, EndBlocks, OpenCpu
  <2> QED
    BY <1>5, <2>1 DEF Late
<1>8. CASE OpenMetal
  <2>1. phase = "map" /\ phase' \in {"open", "panicked"} /\ UNCHANGED <<head, tensors, dataPos>>
    BY <1>8 DEF OpenMetal
  <2>2. /\ phase' = "open" => mapped' = (head.size - dataPos) % (MaxU + 1)
        /\ phase' = "panicked" => dataPos > head.size
    BY <1>8 DEF OpenMetal
  <2>3. /\ head.size \in 0..MaxU /\ dataPos \in 0..MaxU /\ MaxU \in Nat
        /\ tensors \in Seq(TensorRecord)
    BY LoaderAssumption DEF Read, TypeOK
  <2>4. ASSUME NEW i \in DOMAIN tensors, tensors[i].bytes > 0
        PROVE  dataPos <= head.size
    <3>1. tensors[i] \in TensorRecord
      BY <2>3
    <3>2. tensors[i].abs \in 0..MaxU /\ tensors[i].bytes \in 0..MaxU
      BY <3>1 DEF TensorRecord, Sizes
    <3>3. tensors[i].abs >= dataPos /\ tensors[i].abs + tensors[i].bytes <= head.size
      BY <1>1, <2>1, <2>4 DEF InFile, Late
    <3> QED
      BY <2>3, <2>4, <3>2, <3>3
  <2>5. dataPos <= head.size => (head.size - dataPos) % (MaxU + 1) = head.size - dataPos
    <3>1. MaxU + 1 \in Nat \ {0}
      BY <2>3
    <3>2. dataPos <= head.size => head.size - dataPos \in 0..((MaxU + 1) - 1)
      BY <2>3
    <3> QED
      BY <3>1, <3>2, SmallRemainder
  <2>6. Placed'
    BY <1>1, <2>1 DEF InFile, Late
  <2>7. Mapped'
    <3> SUFFICES ASSUME NEW i \in DOMAIN tensors, tensors[i].bytes > 0
                 PROVE  phase' # "panicked" /\ (mapped' # None => dataPos + mapped' = head.size)
      BY <2>1
    <3>1. dataPos <= head.size
      BY <2>4
    <3>2. phase' = "open"
      BY <2>1, <2>2, <2>3, <3>1
    <3>3. mapped' = head.size - dataPos
      BY <2>2, <2>5, <3>1, <3>2
    <3> QED
      BY <2>3, <3>2, <3>3
  <2> QED
    BY <1>2, <2>6, <2>7
<1>9. CASE UNCHANGED vars
  <2>1. Placed' /\ Mapped'
    BY <1>1, <1>9 DEF vars, InFile
  <2> QED
    BY <1>2, <2>1
<1> QED
  BY <1>3, <1>4, <1>6, <1>7, <1>8, <1>9 DEF Next, Reading

\* The block indexes are naturals.
LEMMA IndexesAreNaturals ==
    ASSUME Read
    PROVE  Indexes \subseteq Sizes
<1> SUFFICES ASSUME NEW i \in DOMAIN tensors, Len(tensors[i].name) = 2
             PROVE  tensors[i].name[1] \in Sizes
  BY DEF Indexes
<1>1. tensors[i] \in TensorRecord
  BY DEF Read
<1>2. tensors[i].name \in {t.name : t \in Directory}
  BY <1>1 DEF TensorRecord
<1> QED
  BY <1>2, LoaderAssumption DEF Sizes

\* bind_blocks goes on to its next index.
LEMMA BindBlockCollects ==
    ASSUME Read, Collected, BindBlock
    PROVE  Collected'
<1>1. PICK index \in todo :
          /\ \A other \in todo : index <= other
          /\ blocks' = Bound(index) /\ todo' = todo \ {index}
  BY DEF BindBlock
<1>2. tensors' = tensors
  BY DEF BindBlock
<1>3. Indexes' = Indexes /\ \A x, parts : HasAll(x, parts)' = HasAll(x, parts)
  BY <1>2 DEF Indexes, HasAll, Named
<1>4. todo \subseteq Indexes /\ Indexes \subseteq Sizes /\ index \in Sizes
  BY IndexesAreNaturals DEF Collected
<1>5. \A x \in Sizes : x \in Nat
  BY LoaderAssumption DEF Sizes
<1>6. \A x \in todo' : index < x
  BY <1>1, <1>4, <1>5
<1>7. todo' \subseteq Indexes /\ Indexes \ todo' = (Indexes \ todo) \union {index}
  BY <1>1, <1>4
<1>8. /\ blocks \in Seq(Block)
      /\ \A i, j \in DOMAIN blocks : i < j => blocks[i].index < blocks[j].index
      /\ \A i \in DOMAIN blocks, x \in todo : blocks[i].index < x
      /\ {blocks[i].index : i \in DOMAIN blocks} = {x \in Indexes \ todo : HasAll(x, AttnParts)}
      /\ \A i \in DOMAIN blocks : blocks[i].ffn = HasAll(blocks[i].index, FfnParts)
  BY DEF Collected
<1>9. CASE ~HasAll(index, AttnParts)
  <2>1. blocks' = blocks
    BY <1>1, <1>9 DEF Bound
  <2>2. {x \in Indexes \ todo' : HasAll(x, AttnParts)} = {x \in Indexes \ todo : HasAll(x, AttnParts)}
    BY <1>7, <1>9
  <2>3. \A i \in DOMAIN blocks', x \in todo' : blocks'[i].index < x
    BY <1>1, <1>8, <2>1
  <2> QED
    BY <1>3, <1>7, <1>8, <2>1, <2>2, <2>3 DEF Collected
<1>10. CASE HasAll(index, AttnParts)
  <2> DEFINE b == [index |-> index, ffn |-> HasAll(index, FfnParts)]
             n == Len(blocks)
  <2>1. b \in Block /\ b.index = index /\ b.ffn = HasAll(index, FfnParts)
    <3>1. HasAll(index, FfnParts) \in BOOLEAN
      BY DEF HasAll
    <3> QED
      BY <1>4, <3>1 DEF Block
  <2>2. blocks' = Append(blocks, b)
    BY <1>1, <1>10 DEF Bound
  <2> HIDE DEF b
  <2>3. /\ blocks' \in Seq(Block) /\ DOMAIN blocks' = DOMAIN blocks \union {n + 1}
        /\ blocks'[n + 1] = b /\ \A i \in DOMAIN blocks : blocks'[i] = blocks[i]
        /\ DOMAIN blocks = 1..n /\ n \in Nat
    BY <1>8, <2>1, <2>2
  <2> HIDE DEF n
  <2>4. ASSUME NEW i \in DOMAIN blocks', NEW j \in DOMAIN blocks', i < j
        PROVE  blocks'[i].index < blocks'[j].index
    <3>1. i \in DOMAIN blocks
      BY <2>3, <2>4
    <3>2. CASE j \in DOMAIN blocks
      BY <1>8, <2>3, <2>4, <3>1, <3>2
    <3>3. CASE j = n + 1
      BY <1>8, <2>1, <2>3, <3>1, <3>3
    <3> QED
      BY <2>3, <3>2, <3>3
  <2>5. ASSUME NEW i \in DOMAIN blocks', NEW x \in todo'
        PROVE  blocks'[i].index < x
    <3>1. CASE i \in DOMAIN blocks
      BY <1>1, <1>8, <2>3, <3>1
    <3>2. CASE i = n + 1
      BY <1>6, <2>1, <2>3, <3>2
    <3> QED
      BY <2>3, <3>1, <3>2
  <2>6. {blocks'[i].index : i \in DOMAIN blocks'} = {blocks[i].index : i \in DOMAIN blocks} \union {index}
    BY <2>1, <2>3
  <2>7. {x \in Indexes \ todo' : HasAll(x, AttnParts)}
            = {x \in Indexes \ todo : HasAll(x, AttnParts)} \union {index}
    BY <1>7, <1>10
  <2>8. \A i \in DOMAIN blocks' : blocks'[i].ffn = HasAll(blocks'[i].index, FfnParts)
    BY <1>8, <2>1, <2>3
  <2>9. {blocks'[i].index : i \in DOMAIN blocks'} = {x \in Indexes \ todo' : HasAll(x, AttnParts)}
    BY <1>8, <2>6, <2>7
  <2> QED
    BY <1>3, <1>7, <2>3, <2>4, <2>5, <2>8, <2>9 DEF Collected
<1> QED
  BY <1>9, <1>10

\* Every step keeps the blocks as bind_blocks has collected them.
LEMMA StepKeepsBlocks ==
    ASSUME Read, BlocksBound, [Next]_vars
    PROVE  BlocksBound'
<1>1. UNCHANGED <<tensors, todo, blocks>> => Collected' = Collected
  BY DEF Collected, Indexes, HasAll, Named
<1>2. CASE Reading
  BY <1>2, ReadingIsEarly DEF BlocksBound, Early
<1>3. CASE Layout
  <2>1. phase = "tensors" /\ phase' \in {"failed", "bind"} /\ UNCHANGED blocks
    BY <1>3 DEF Layout, Fail
  <2> QED
    BY <2>1 DEF BlocksBound
<1>4. CASE Bind
  <2>1. phase = "bind" /\ UNCHANGED <<tensors, blocks>> /\ blocks = <<>>
    BY <1>4 DEF Bind, BlocksBound
  <2>2. CASE phase' = "failed"
    BY <2>2 DEF BlocksBound
  <2>3. CASE phase' = "blocks" /\ todo' = Indexes
    <3>1. Indexes' = Indexes
      BY <2>1 DEF Indexes
    <3>2. blocks' = <<>> /\ DOMAIN blocks' = {} /\ blocks' \in Seq(Block)
      BY <2>1
    <3>3. {x \in Indexes' \ todo' : HasAll(x, AttnParts)'} = {}
      BY <2>3, <3>1
    <3>4. {blocks'[i].index : i \in DOMAIN blocks'} = {}
      BY <3>2
    <3>5. Collected'
      BY <2>3, <3>1, <3>2, <3>3, <3>4 DEF Collected
    <3> QED
      BY <2>3, <3>5 DEF BlocksBound
  <2> QED
    BY <1>4, <2>2, <2>3 DEF Bind, Fail
<1>5. CASE BindBlock
  <2>1. phase = "blocks" /\ phase' = "blocks"
    BY <1>5 DEF BindBlock
  <2>2. Collected'
    BY <1>5, <2>1, BindBlockCollects DEF BlocksBound
  <2> QED
    BY <2>1, <2>2 DEF BlocksBound
<1>6. CASE EndBlocks
  BY <1>1, <1>6 DEF EndBlocks, BlocksBound
<1>7. CASE OpenCpu
  BY <1>1, <1>7 DEF OpenCpu, BlocksBound
<1>8. CASE OpenMetal
  BY <1>1, <1>8 DEF OpenMetal, BlocksBound
<1>9. CASE UNCHANGED vars
  BY <1>1, <1>9 DEF vars, BlocksBound
<1> QED
  BY <1>2, <1>3, <1>4, <1>5, <1>6, <1>7, <1>8, <1>9 DEF Next, Reading

(* Whatever the file claims, the load keeps the invariant of the reader, the
   tensor directory and bind_blocks (gguf.rs load_model, weights.rs bind_weights). *)
THEOREM LoaderInvariant == Spec => []LoaderInv
<1>1. Init => LoaderInv
  <2> SUFFICES ASSUME Init PROVE LoaderInv
    OBVIOUS
  <2>1. /\ phase = "header" /\ head \in Headers /\ pos = 0 /\ kvs = 0 /\ left = 0
        /\ arrays = <<>> /\ alignment = DefaultAlignment
        /\ tensors = <<>> /\ dataPos = 0 /\ blocks = <<>> /\ mapped = None
    BY DEF Init
  <2>2. /\ head.size \in Nat /\ head.kvs \in Nat /\ head.tensors \in Nat
        /\ MaxU \in Nat /\ MaxDepth \in Nat
    BY <2>1, LoaderAssumption
  <2>3. /\ arrays \in Seq(ArrayFrame) /\ tensors \in Seq(TensorRecord)
        /\ Len(arrays) = 0 /\ Len(tensors) = 0 /\ DOMAIN arrays = {} /\ DOMAIN tensors = {}
    BY <2>1
  <2>4. TypeOK
    BY <2>1, <2>2, <2>3 DEF TypeOK
  <2>5. Read
    BY <2>1, <2>2, <2>3, <2>4 DEF Read
  <2> QED
    BY <2>1, <2>3, <2>5 DEF LoaderInv, BytesCoverDims, TensorsInFile, BlocksBound
<1>2. LoaderInv /\ [Next]_vars => LoaderInv'
  <2> SUFFICES ASSUME LoaderInv, [Next]_vars PROVE LoaderInv'
    OBVIOUS
  <2>1. Read /\ BytesCoverDims /\ TensorsInFile /\ BlocksBound
    BY DEF LoaderInv
  <2>2. Read'
    BY <2>1, StepKeepsRead
  <2> QED
    BY <2>1, <2>2, StepKeepsCover, StepKeepsInFile, StepKeepsBlocks DEF LoaderInv
<1> QED
  BY <1>1, <1>2, PTL DEF Spec

(* The cursor never leaves the file and the counts never leave their ranges
   (gguf.rs Reader). *)
THEOREM LoaderTyped == Spec => []TypeOK
<1>1. LoaderInv => TypeOK
  BY DEF LoaderInv, Read
<1> QED
  BY <1>1, LoaderInvariant, PTL

(* Every turn of a loop over a count that the file claims takes bytes of the file,
   or ends the load (gguf.rs load_model, skip_value, parse_tensors). *)
THEOREM TurnsAlwaysRead == Spec => EveryTurnReads
<1>1. LoaderInv /\ [Next]_vars =>
        [ (kvs' < kvs \/ left' < left \/ (arrays' # arrays /\ Len(arrays') >= Len(arrays)))
            => pos' > pos \/ phase' = "failed" ]_vars
  BY StepKeepsRead DEF LoaderInv, TurnReads
<1> QED
  BY <1>1, LoaderInvariant, PTL DEF Spec, EveryTurnReads

(* A tensor that has bytes has all that the product of its dimensions needs,
   whatever dimensions the file claims (gguf.rs parse_tensors, tensor_nbytes). *)
THEOREM BytesAlwaysCover == Spec => []BytesCoverDims
<1>1. LoaderInv => BytesCoverDims
  BY DEF LoaderInv
<1> QED
  BY <1>1, LoaderInvariant, PTL

(* A tensor that has bytes lies in the file and in the range mapped for the GPU
   (gguf.rs parse_tensors, engine.rs Engine::open). *)
THEOREM TensorsAlwaysInFile == Spec => []TensorsInFile
<1>1. LoaderInv => TensorsInFile
  BY DEF LoaderInv
<1> QED
  BY <1>1, LoaderInvariant, PTL

(* bind_blocks keeps exactly the blocks that have their attention tensors, in
   ascending order, and an engine that calls itself trustworthy has every tensor
   of each (weights.rs bind_blocks, engine.rs supports_trustworthy_generation). *)
THEOREM BlocksAlwaysComplete == Spec => []BlocksAreComplete
<1>1. LoaderInv => BlocksAreComplete
  <2> SUFFICES ASSUME LoaderInv, phase \in {"map", "open"} PROVE BlocksAreComplete
    BY DEF BlocksAreComplete
  <2>1. Collected /\ todo = {}
    BY DEF LoaderInv, BlocksBound
  <2>2. \A i, j \in DOMAIN blocks : i < j => blocks[i].index < blocks[j].index
    BY <2>1 DEF Collected
  <2>3. {blocks[i].index : i \in DOMAIN blocks} = {x \in Indexes : HasAll(x, AttnParts)}
    BY <2>1 DEF Collected
  <2>4. \A i \in DOMAIN blocks : HasAll(blocks[i].index, AttnParts)
    BY <2>3
  <2>5. Trustworthy => \A i \in DOMAIN blocks : HasAll(blocks[i].index, AttnParts \union FfnParts)
    BY <2>1, <2>4 DEF Trustworthy, Collected, HasAll
  <2> QED
    BY <2>2, <2>3, <2>5 DEF BlocksAreComplete
<1> QED
  BY <1>1, LoaderInvariant, PTL

=============================================================================

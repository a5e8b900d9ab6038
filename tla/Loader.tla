------------------------------- MODULE Loader -------------------------------
(***************************************************************************)
(* Opening a model: load_model walks a GGUF file front to back with a      *)
(* checked cursor (src/gguf.rs), bind_weights looks its tensors up by name *)
(* and collects the blocks (src/weights.rs), Engine::open maps the tensor  *)
(* data for the GPU (src/engine.rs).                                       *)
(*                                                                         *)
(* Data abstraction.  The file is what the reads find in it: each read     *)
(* takes any of the values of the constants, so lengths, counts, offsets   *)
(* and dimensions are as large as the file may claim.  A length is counted *)
(* in units of four bytes, and u64 is the integers up to MaxU.             *)
(***************************************************************************)
EXTENDS Integers, Sequences, FiniteSets, SequencesExt

CONSTANTS
    Headers,      \* [size, gguf, tensors, kvs]: size, and what the header says
    Lengths,      \* lengths of strings
    Counts,       \* lengths of arrays
    Alignments,   \* values of general.alignment
    Directory,    \* tensor entries [name, len, dims, type, rel]
    MaxU,         \* u64::MAX
    MaxDepth,     \* array nesting (8)
    MaxDims,      \* GGUF_MAX_DIMS
    TypeTable,    \* TypeTable[type] = <<block_elems, block_bytes>>
    AttnParts, FfnParts,   \* the required tensors of a block
    None

VARIABLES
    phase,        \* "header", "kv", "tensors", "bind", "blocks", "map",
                  \* "open", "failed" (Err) or "panicked"
    head,         \* the header
    pos,          \* Reader.pos
    kvs, left,    \* metadata entries and tensors still to read
    arrays,       \* the arrays skip_value is in: [type, left], outermost first
    alignment,
    tensors,      \* GgufModel.tensors
    dataPos,      \* tensor_data_pos
    todo,         \* the block indexes that bind_blocks has yet to go through
    blocks,       \* BoundWeights.blocks: [index, ffn]
    mapped        \* length of the range given to the GPU, or None

vars == <<phase, head, pos, kvs, left, arrays, alignment, tensors, dataPos, todo, blocks, mapped>>

U32 == 1
U64 == 2
MinFile == 8
DefaultAlignment == 8

ASSUME LoaderAssumption ==
    /\ MaxU \in Nat \ {0} /\ MaxDepth \in Nat /\ MaxDims \in Nat \ {0}
    /\ \A h \in Headers : h.size \in 0..MaxU /\ h.kvs \in 0..MaxU /\ h.tensors \in 0..MaxU
    /\ Lengths \subseteq 0..MaxU /\ Counts \subseteq 0..MaxU /\ Alignments \subseteq 0..MaxU
    /\ \A h \in Headers, a \in Alignments \union {DefaultAlignment} : h.size + a <= MaxU
    /\ \A t \in Directory :
          /\ t.len \in 0..MaxU /\ t.rel \in 0..MaxU /\ t.dims \in Seq(0..MaxU)
          /\ Len(t.name) = 2 => t.name[1] \in 0..MaxU
    /\ \A t \in DOMAIN TypeTable :
          TypeTable[t][1] \in Nat \ {0} /\ TypeTable[t][2] \in Nat \ {0}
    /\ None \notin Nat

-----------------------------------------------------------------------------
(* Reader.  A place in the file, or None after a read past its end.        *)
CheckedAdd(a, b) == IF a + b > MaxU THEN None ELSE a + b

\* Mutants: the bound is not checked; the sum may wrap.
SkipBytesUnbounded(p, n) ==
    IF p = None THEN None ELSE CheckedAdd(p, n)
SkipBytesWrapping(p, n) ==
    IF p = None THEN None
    ELSE IF (p + n) % (MaxU + 1) > head.size THEN None
    ELSE (p + n) % (MaxU + 1)

SkipBytes(p, n) ==
    LET end == CheckedAdd(p, n)
    IN IF p = None THEN None
       ELSE IF end = None THEN None
       ELSE IF end > head.size THEN None
       ELSE end

ReadString(p, len) == SkipBytes(SkipBytes(p, U64), len)

SaturatingMul(a, b) == IF a * b > MaxU THEN MaxU ELSE a * b

Fail == phase' = "failed"

\* `?`: the cursor moves to p, or the load fails where it stands.
MoveTo(p) == pos' = IF p = None THEN pos ELSE p

-----------------------------------------------------------------------------
Init ==
    /\ phase = "header"
    /\ head \in Headers
    /\ pos = 0 /\ kvs = 0 /\ left = 0 /\ arrays = <<>>
    /\ alignment = DefaultAlignment
    /\ tensors = <<>> /\ dataPos = 0 /\ todo = {} /\ blocks = <<>> /\ mapped = None

\* The size, the magic number and the version, then the two counts.
ReadHeader ==
    /\ phase = "header"
    /\ IF head.size < MinFile \/ ~head.gguf
         THEN Fail /\ UNCHANGED <<pos, kvs, left>>
         ELSE /\ pos' = 2 * U32 + 2 * U64
              /\ kvs' = head.kvs /\ left' = head.tensors
              /\ phase' = "kv"
    /\ UNCHANGED <<head, arrays, alignment, tensors, dataPos, todo, blocks, mapped>>

\* Where the key and the type of a metadata entry end.
EntryStart(key) == SkipBytes(ReadString(pos, key), U32)

\* One metadata entry that ends at p.
Entry(p) ==
    /\ phase = "kv" /\ kvs > 0 /\ arrays = <<>>
    /\ kvs' = kvs - 1
    /\ MoveTo(p) /\ phase' = IF p = None THEN "failed" ELSE phase
    /\ UNCHANGED <<head, left, tensors, dataPos, todo, blocks, mapped>>

KvAlignment ==
    /\ \E key \in Lengths : Entry(SkipBytes(EntryStart(key), U32))
    /\ alignment' \in Alignments
    /\ UNCHANGED arrays

KvScalar ==
    /\ \E key \in Lengths, n \in {U32, U64} : Entry(SkipBytes(EntryStart(key), n))
    /\ UNCHANGED <<arrays, alignment>>

KvString ==
    /\ \E key, n \in Lengths : Entry(ReadString(EntryStart(key), n))
    /\ UNCHANGED <<arrays, alignment>>

\* read_array_header; an array of scalars is skipped at once.
ScalarArray(p, count, size) == SkipBytes(SkipBytes(p, U32 + U64), SaturatingMul(count, size))

KvScalarArray ==
    /\ \E key \in Lengths, n \in Counts, size \in {U32, U64} :
          Entry(ScalarArray(EntryStart(key), n, size))
    /\ UNCHANGED <<arrays, alignment>>

Nested(type, count) == Append(arrays, [type |-> type, left |-> count])

KvArray ==
    /\ \E key \in Lengths : Entry(SkipBytes(EntryStart(key), U32 + U64))
    /\ \E n \in Counts, type \in {"string", "array"} : arrays' = Nested(type, n)
    /\ UNCHANGED alignment

OneLess == [arrays EXCEPT ![Len(arrays)].left = @ - 1]

\* One item of the innermost array.
SkipItem ==
    LET top == Last(arrays)
        go(p, rest) ==
            IF p = None THEN Fail /\ UNCHANGED <<pos, arrays>>
                        ELSE pos' = p /\ arrays' = rest /\ UNCHANGED phase
    IN /\ phase = "kv" /\ arrays # <<>> /\ top.left > 0
       /\ IF Len(arrays) > MaxDepth
            THEN Fail /\ UNCHANGED <<pos, arrays>>
            ELSE IF top.type = "string"
            THEN \E len \in Lengths : go(ReadString(pos, len), OneLess)
            ELSE \/ \E n \in Counts : go(ScalarArray(pos, n, U32), OneLess)
                 \/ \E n \in Counts, type \in {"string", "array"} :
                      go(SkipBytes(pos, U32 + U64),
                         Append(OneLess, [type |-> type, left |-> n]))
       /\ UNCHANGED <<head, kvs, left, alignment, tensors, dataPos, todo, blocks, mapped>>

EndArray ==
    /\ phase = "kv" /\ arrays # <<>> /\ Last(arrays).left = 0
    /\ arrays' = Front(arrays)
    /\ UNCHANGED <<phase, head, pos, kvs, left, alignment, tensors, dataPos, todo,
                   blocks, mapped>>

\* A type code that is not known, a string that is not UTF-8, a token table
\* that is not made of strings.
Reject ==
    /\ phase \in {"kv", "tensors"}
    /\ kvs + Len(arrays) + left > 0
    /\ Fail
    /\ UNCHANGED <<head, pos, kvs, left, arrays, alignment, tensors, dataPos, todo,
                   blocks, mapped>>

EndMetadata ==
    /\ phase = "kv" /\ kvs = 0 /\ arrays = <<>>
    /\ phase' = "tensors"
    /\ UNCHANGED <<head, pos, kvs, left, arrays, alignment, tensors, dataPos, todo,
                   blocks, mapped>>

-----------------------------------------------------------------------------
(* parse_tensors.                                                          *)

\* Mutant: the product of the dimensions may wrap.
TimesWrapping(e, d) == (e * d) % (MaxU + 1)

\* One dimension more: None when the element count would overflow.
Times(e, d) ==
    IF e = None THEN None
    ELSE IF d # 0 /\ e > MaxU \div d THEN None
    ELSE SaturatingMul(e, d)

Elements(dims) ==
    LET e[i \in 0..Len(dims)] == IF i = 0 THEN 1 ELSE Times(e[i - 1], dims[i])
    IN e[Len(dims)]

\* A type that is not in the table, and a count that overflows, have 0 bytes.
TensorBytes(type, elements) ==
    IF type \notin DOMAIN TypeTable THEN 0
    ELSE LET sum == CheckedAdd(elements, TypeTable[type][1] - 1)
         IN IF sum = None THEN 0
            ELSE IF (sum \div TypeTable[type][1]) * TypeTable[type][2] > MaxU THEN 0
            ELSE (sum \div TypeTable[type][1]) * TypeTable[type][2]

ReadTensor ==
    /\ phase = "tensors" /\ left > 0
    /\ left' = left - 1
    /\ \E t \in Directory :
        LET ndim == Len(t.dims)
            dims == SkipBytes(SkipBytes(ReadString(pos, t.len), U32), ndim * U64)
            end == SkipBytes(dims, U32 + U64)
            elements == Elements(t.dims)
        IN IF ndim \notin 1..MaxDims \/ end = None \/ elements = None
             THEN Fail /\ UNCHANGED <<pos, tensors>>
             ELSE /\ pos' = end
                  /\ tensors' = Append(tensors,
                        [name |-> t.name, dims |-> t.dims, type |-> t.type, rel |-> t.rel,
                         abs |-> 0, bytes |-> TensorBytes(t.type, elements)])
                  /\ UNCHANGED phase
    /\ UNCHANGED <<head, kvs, arrays, alignment, dataPos, todo, blocks, mapped>>

AlignUp(value, a) ==
    IF a = 0 THEN value
    ELSE IF (value % a) = 0 THEN value
    ELSE value + (a - (value % a))

\* Mutant: the length is compared with that of the file, not with what is left.
OutOfFileByLength(t, base) ==
    LET abs == CheckedAdd(base, t.rel)
    IN IF abs = None THEN TRUE
       ELSE t.bytes # 0 /\ (abs > head.size \/ t.bytes > head.size)

OutOfFile(t, base) ==
    LET abs == CheckedAdd(base, t.rel)
    IN IF abs = None THEN TRUE
       ELSE t.bytes # 0 /\ (abs > head.size \/ t.bytes > head.size - abs)

Layout ==
    /\ phase = "tensors" /\ left = 0
    /\ LET base == AlignUp(pos, alignment)
       IN IF \E i \in DOMAIN tensors : OutOfFile(tensors[i], base)
            THEN Fail /\ UNCHANGED <<tensors, dataPos>>
            ELSE /\ dataPos' = base
                 /\ tensors' = [i \in DOMAIN tensors |->
                        [tensors[i] EXCEPT !.abs = CheckedAdd(base, tensors[i].rel)]]
                 /\ phase' = "bind"
    /\ UNCHANGED <<head, pos, kvs, left, arrays, alignment, todo, blocks, mapped>>

-----------------------------------------------------------------------------
(* bind_weights.  A name: <<"token_embd">> and the like, or <<index, part>>. *)
Named(name) == {i \in DOMAIN tensors : tensors[i].name = name}

Indexes == {tensors[i].name[1] : i \in {j \in DOMAIN tensors : Len(tensors[j].name) = 2}}

HasAll(index, parts) == \A part \in parts : Named(<<index, part>>) # {}

\* Tokenizer::from_gguf may refuse the vocabulary first.
Bind ==
    /\ phase = "bind"
    /\ \/ Fail /\ UNCHANGED todo
       \/ /\ Named(<<"token_embd">>) \union Named(<<"tok_embeddings">>) # {}
          /\ Named(<<"output">>) # {}
          /\ todo' = Indexes
          /\ phase' = "blocks"
    /\ UNCHANGED <<head, pos, kvs, left, arrays, alignment, tensors, dataPos, blocks, mapped>>

\* Mutant: a block is kept without its attention tensors.
BoundAnyway(index) == Append(blocks, [index |-> index, ffn |-> HasAll(index, FfnParts)])

\* A block without its attention tensors is left out.
Bound(index) ==
    IF HasAll(index, AttnParts)
      THEN Append(blocks, [index |-> index, ffn |-> HasAll(index, FfnParts)])
      ELSE blocks

\* bind_blocks: the indexes in ascending order.
BindBlock ==
    /\ phase = "blocks"
    /\ \E index \in todo :
          /\ \A other \in todo : index <= other
          /\ blocks' = Bound(index)
          /\ todo' = todo \ {index}
    /\ UNCHANGED <<phase, head, pos, kvs, left, arrays, alignment, tensors, dataPos, mapped>>

EndBlocks ==
    /\ phase = "blocks" /\ todo = {}
    /\ phase' = "map"
    /\ UNCHANGED <<head, pos, kvs, left, arrays, alignment, tensors, dataPos, todo,
                   blocks, mapped>>

\* supports_trustworthy_generation.
Trustworthy == blocks # <<>> /\ \A i \in DOMAIN blocks : blocks[i].ffn

\* Engine::open on the CPU, and on Metal: file_size - tensor_data_pos is a u64
\* subtraction, which a debug build checks and a release build wraps.
OpenCpu ==
    /\ phase = "map"
    /\ phase' = "open"
    /\ UNCHANGED <<head, pos, kvs, left, arrays, alignment, tensors, dataPos, todo,
                   blocks, mapped>>

OpenMetal ==
    /\ phase = "map"
    /\ \/ /\ mapped' = (head.size - dataPos) % (MaxU + 1)
          /\ phase' = "open"
       \/ /\ dataPos > head.size
          /\ phase' = "panicked"
          /\ UNCHANGED mapped
    /\ UNCHANGED <<head, pos, kvs, left, arrays, alignment, tensors, dataPos, todo, blocks>>

Next ==
    \/ ReadHeader
    \/ KvAlignment \/ KvScalar \/ KvString \/ KvScalarArray \/ KvArray
    \/ SkipItem \/ EndArray \/ Reject \/ EndMetadata
    \/ ReadTensor \/ Layout \/ Bind \/ BindBlock \/ EndBlocks \/ OpenCpu \/ OpenMetal

Spec == Init /\ [][Next]_vars

-----------------------------------------------------------------------------
(* Types; the cursor is in the file.                                       *)
TypeOK ==
    /\ phase \in {"header", "kv", "tensors", "bind", "blocks", "map", "open", "failed",
                  "panicked"}
    /\ head \in Headers
    /\ pos \in 0..head.size
    /\ kvs \in 0..head.kvs /\ left \in 0..head.tensors
    /\ Len(arrays) <= MaxDepth + 1
    /\ \A i \in DOMAIN arrays : arrays[i].left \in 0..MaxU
    /\ Len(tensors) <= head.tensors
    /\ dataPos \in 0..MaxU /\ mapped \in (0..MaxU) \union {None}

\* The counts come from the file and go up to u64::MAX, so they bound no loop:
\* each turn of the loops over entries, items and tensors, and each array that
\* is entered, takes bytes of the file, or ends the load.
EveryTurnReads ==
    [][ (kvs' < kvs \/ left' < left \/ (arrays' # arrays /\ Len(arrays') >= Len(arrays)))
          => pos' > pos \/ phase' = "failed" ]_vars

Product(dims) ==
    LET p[i \in 0..Len(dims)] == IF i = 0 THEN 1 ELSE p[i - 1] * dims[i]
    IN p[Len(dims)]

\* parse_tensors and tensor_nbytes: whatever dimensions the file claims, a tensor
\* that has bytes has all that its dimensions need.
BytesCoverDims ==
    \A i \in DOMAIN tensors :
        LET t == tensors[i]
        IN t.bytes > 0 =>
            t.bytes * TypeTable[t.type][1] >= Product(t.dims) * TypeTable[t.type][2]

\* parse_tensors: whatever offsets and sizes the file claims, the bytes of a
\* tensor lie in the tensor data of the file, and so in the range that
\* Engine::open maps for the GPU, which ends where the file ends.  (With no tensor
\* that has bytes tensor_data_pos may lie past the end, and the subtraction
\* underflows.)
TensorsInFile ==
    phase \in {"bind", "blocks", "map", "open", "panicked"} =>
        \A i \in DOMAIN tensors :
            LET t == tensors[i]
            IN t.bytes > 0 =>
                /\ phase # "panicked"
                /\ t.abs >= dataPos /\ t.abs + t.bytes <= head.size
                /\ mapped # None => dataPos + mapped = head.size

\* bind_blocks, which the CPU indexes by block.index and Metal by position: the
\* blocks ascend, each has its attention tensors and none that has them is lost,
\* and an engine that calls itself trustworthy has every tensor of every block it
\* kept.
BlocksAreComplete ==
    phase \in {"map", "open"} =>
        /\ \A i, j \in DOMAIN blocks : i < j => blocks[i].index < blocks[j].index
        /\ {blocks[i].index : i \in DOMAIN blocks} = {x \in Indexes : HasAll(x, AttnParts)}
        /\ Trustworthy =>
            \A i \in DOMAIN blocks : HasAll(blocks[i].index, AttnParts \union FfnParts)
=============================================================================

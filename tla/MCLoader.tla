------------------------------ MODULE MCLoader ------------------------------
(* u64 is 0..63, files of up to 48 units.                                  *)
EXTENDS Loader

H(size, tens, entries) == [size |-> size, gguf |-> TRUE, tensors |-> tens, kvs |-> entries]

MCHeaders ==
    {H(7, 0, 0), [H(20, 0, 0) EXCEPT !.gguf = FALSE]}
      \union {H(s, 2, 1) : s \in {22, 30, 40}}   \* metadata, then tensors
      \union {H(s, 2, 0) : s \in {22, 36}}
      \union {H(26, 63, 63)}                     \* counts the file cannot hold
      \union {H(48, 4, 0)}                       \* enough to bind a block

MCLengths == {0, 1, 60}
MCCounts == {0, 2, 63}
MCAlignments == {0, 5, 8}

Dir(name, dims, type, rel) == [name |-> name, len |-> 0, dims |-> dims, type |-> type, rel |-> rel]
MCDirectory ==
    {Dir(<<"token_embd">>, <<1>>, "f32", 0), Dir(<<"output">>, <<1>>, "f32", 1),
     Dir(<<0, "attn">>, <<2>>, "q", 0), Dir(<<0, "ffn">>, <<1>>, "f32", 0),
     Dir(<<1, "attn">>, <<1>>, "f32", 0),
     \* unknown type, wrapping offset, sizes that overflow
     Dir(<<"output">>, <<1>>, "new", 0), Dir(<<"tok_embeddings">>, <<1>>, "new", 63),
     Dir(<<"output">>, <<8, 9>>, "f32", 0), Dir(<<1, "ffn">>, <<0, 63>>, "f32", 40),
     Dir(<<"token_embd">>, <<63>>, "q", 0), Dir(<<"output">>, <<>>, "f32", 0),
     Dir(<<"token_embd">>, <<1>>, "f32", 30)}

MCTypeTable == [t \in {"f32", "q"} |-> IF t = "f32" THEN <<1, 1>> ELSE <<4, 3>>]
=============================================================================

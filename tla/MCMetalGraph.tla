---------------------------- MODULE MCMetalGraph ----------------------------
(* Weights for MetalGraph: complete ones, and the ways they can fall short. *)
EXTENDS MetalGraph

CONSTANTS c1, c2

Block(ffn, hc_attn, hc_ffn) == [ffn |-> ffn, hc_attn |-> hc_attn, hc_ffn |-> hc_ffn]
Whole == Block(TRUE, TRUE, TRUE)

\* Every layer bound; fewer blocks than the loop has layers; a block without
\* its FFN; weights without hyper-connection tensors, in the layers and in the
\* head.
SmallModels ==
    LET W(blocks, head) == [blocks |-> blocks, output_hc |-> head] IN
      {W(<<Whole, Whole, Whole>>, TRUE), W(<<Whole, Whole>>, TRUE), W(<<>>, TRUE),
       W(<<Whole, Block(FALSE, TRUE, TRUE), Whole>>, TRUE),
       W(<<Block(TRUE, FALSE, TRUE), Whole, Whole>>, TRUE),
       W(<<Block(TRUE, TRUE, FALSE), Whole, Whole>>, TRUE),
       W(<<Whole, Whole, Whole>>, FALSE)}
=============================================================================

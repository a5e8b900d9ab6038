----------------------------- MODULE MetalGraph -----------------------------
(***************************************************************************)
(* The Metal backend: Engine::try_reference_decode_next takes the engine's *)
(* metal_graph mutex, makes the graph on first use and encodes one token:  *)
(* the embedding, every layer as a chain of kernels, the output head.      *)
(* Engine drops the graph, whose Drop frees its tensors.                   *)
(*                                                                         *)
(* Data abstraction.  A tensor holds a stamp <<step, layer>>: the decode   *)
(* step and the layer whose kernel wrote it.  A kernel of the GPU runtime  *)
(* (external, sys/ds4_metal.m) either returns 0 or writes its outputs; any *)
(* kernel may return 0, which covers operands MetalGraph::new leaves null  *)
(* or too small.  The branches that decode.rs switches off by constants    *)
(* (compressed, keep_ffn_out, the unfused kernels) are left out.           *)
(***************************************************************************)
EXTENDS Integers, Sequences, FiniteSets

CONSTANTS
    Callers,      \* threads that decode on one engine
    LoopLayers,   \* layers encode_token_raw_swa loops over (61)
    Models,       \* the bound weights an engine may have
    MaxSteps,     \* bound: decode steps
    NoStamp       \* what a fresh tensor holds

VARIABLES
    weights,   \* the engine's BoundWeights
    lock,      \* the metal_graph mutex: a caller, "free" or "poisoned"
    graph,     \* "none", "live" or "dropped"
    hc,        \* the tensor each residual-stream field points to
    tensor,    \* the stamp of every tensor
    batch,     \* a command buffer is open
    pc,        \* where the holder of the mutex is
    il, k,     \* its layer and its kernel
    ok,        \* its result so far
    step,      \* decode steps so far
    faulted,   \* the GPU failed to execute this step's commands
    result,    \* what the last call of a caller came to
    freed      \* how often each residual-stream tensor was freed

vars == <<weights, lock, graph, hc, tensor, batch, pc, il, k, ok, step,
          faulted, result, freed>>

(* weights: [blocks |-> Seq([ffn, hc_attn, hc_ffn : BOOLEAN]),
             output_hc |-> BOOLEAN], what is Some in BoundWeights. *)
ASSUME MetalAssumption ==
    /\ LoopLayers \in Nat \ {0}
    /\ MaxSteps \in Nat
    /\ "free" \notin Callers /\ "poisoned" \notin Callers
    /\ \A w \in Models :
          /\ w.output_hc \in BOOLEAN
          /\ w.blocks \in Seq([ffn : BOOLEAN, hc_attn : BOOLEAN, hc_ffn : BOOLEAN])

-----------------------------------------------------------------------------
(* The kernels: what they write, what they read, and the optional weights  *)
(* they unwrap.                                                            *)
K(out, in, unwraps) == [out |-> out, in |-> in, unwraps |-> unwraps]

AttnInput == <<
    K({"batch_flat_hc"}, {"batch_cur_hc"}, {}),
    K({"batch_hc_mix"}, {"batch_flat_hc"}, {"hc_attn"}),
    K({"batch_attn_cur", "batch_attn_norm", "batch_hc_split"},
      {"batch_hc_mix", "batch_cur_hc"}, {"hc_attn"}) >>

AttnProject == <<
    K({"qr"}, {"batch_attn_norm"}, {}),
    K({"kv_raw"}, {"batch_attn_norm"}, {}),
    K({"qr_norm", "kv"}, {"qr", "kv_raw"}, {}),
    K({"batch_q"}, {"qr_norm"}, {}),
    K({"batch_q"}, {"batch_q"}, {}),    \* head_rms_norm
    K({"batch_q"}, {"batch_q"}, {}),    \* rope_tail
    K({"kv"}, {"kv"}, {}) >>

\* The rows of earlier tokens that the attention of every layer reads, each layer
\* its own and all of them one tensor here: kv is not stored, so no kernel of any
\* layer writes it.
CacheFields == {"layer_raw_cache"}

AttnOutput == <<
    K({"batch_heads"}, {"batch_q"} \union CacheFields, {}),
    K({"batch_heads"}, {"batch_heads"}, {}),
    K({"batch_attn_low"}, {"batch_heads"}, {}),
    K({"batch_after_attn_hc", "batch_attn_out"},
      {"batch_attn_low", "batch_cur_hc", "batch_hc_split"}, {}) >>

FfnInput == <<
    K({"batch_flat_hc"}, {"batch_after_attn_hc"}, {}),
    K({"batch_hc_mix"}, {"batch_flat_hc"}, {"hc_ffn"}),
    K({"batch_ffn_cur", "ffn_norm", "batch_hc_split"},
      {"batch_hc_mix", "batch_after_attn_hc"}, {"hc_ffn"}) >>

FfnExperts == <<
    K({"router_logits"}, {"ffn_norm"}, {}),
    K({"router_selected", "router_weights", "router_probs"}, {"router_logits"}, {}),
    K({"routed_out", "routed_gate", "routed_up", "routed_mid", "routed_down"},
      {"router_selected", "router_weights", "ffn_norm"}, {}) >>

FfnOutput == <<
    K({"shared_gate", "shared_up", "shared_mid"}, {"ffn_norm"}, {}),
    K({"after_ffn_hc", "shared_out"},
      {"shared_mid", "routed_out", "batch_after_attn_hc", "batch_hc_split"}, {}) >>

LayerKernels == AttnInput \o AttnProject \o AttnOutput \o FfnInput
                  \o FfnExperts \o FfnOutput

HeadKernels == <<
    K({"batch_flat_hc"}, {"batch_cur_hc"}, {}),
    K({"output_pre"}, {"batch_flat_hc"}, {"output_hc"}),
    K({"output_weights"}, {"output_pre"}, {"output_hc"}),
    K({"output_embd"}, {"batch_cur_hc", "output_weights"}, {}),
    K({"output_norm"}, {"output_embd"}, {"output_hc"}),
    K({"logits"}, {"output_norm"}, {}) >>

HcFields == {"batch_cur_hc", "batch_next_hc", "after_ffn_hc"}
HcTensors == {"hc_a", "hc_b"}
Fields == UNION {kn.out \union kn.in : kn \in
             {LayerKernels[i] : i \in DOMAIN LayerKernels}
               \union {HeadKernels[i] : i \in DOMAIN HeadKernels}}
Tensors == (Fields \ HcFields) \union HcTensors

\* The tensor a field of the graph points to.
At(f) == IF f \in HcFields THEN hc[f] ELSE f

-----------------------------------------------------------------------------
NewHc == [f \in HcFields |-> IF f = "batch_cur_hc" THEN "hc_a" ELSE "hc_b"]

Init ==
    /\ weights \in Models
    /\ lock = "free"
    /\ graph = "none"
    /\ hc = NewHc
    /\ tensor = [t \in Tensors |-> NoStamp]
    /\ batch = FALSE
    /\ pc = "idle" /\ il = 0 /\ k = 1 /\ ok = TRUE
    /\ step = 0
    /\ faulted = FALSE
    /\ result = [c \in Callers |-> "none"]
    /\ freed = [t \in HcTensors |-> 0]

\* The call asks for the mutex; the engine is still alive.
Call(c) ==
    /\ graph # "dropped"
    /\ step + Cardinality({d \in Callers : result[d] = "waiting"}) < MaxSteps
    /\ result[c] \in {"none", "some", "failed"}
    /\ result' = [result EXCEPT ![c] = "waiting"]
    /\ UNCHANGED <<weights, lock, graph, hc, tensor, batch, pc, il, k, ok,
                   step, faulted, freed>>

\* lock().unwrap() panics once a holder has panicked; else the graph is made
\* on first use and the step begins.
Lock(c) ==
    /\ result[c] = "waiting"
    /\ \/ /\ lock = "poisoned"
          /\ result' = [result EXCEPT ![c] = "panicked"]
          /\ UNCHANGED <<lock, graph, hc, pc, step, faulted>>
       \/ /\ lock = "free"
          /\ lock' = c
          /\ graph' = "live"
          /\ hc' = IF graph = "none" THEN NewHc ELSE hc
          /\ pc' = "begin"
          /\ step' = step + 1
          /\ faulted' = FALSE
          /\ UNCHANGED result
    /\ UNCHANGED <<weights, tensor, batch, il, k, ok, freed>>

\* ds4_gpu_begin_commands returns 0 while a command buffer is open.
Begin ==
    /\ pc = "begin"
    /\ \E opened \in IF batch THEN {FALSE} ELSE BOOLEAN :
          /\ batch' = (batch \/ opened)
          /\ pc' = IF opened THEN "embed" ELSE "return"
          /\ ok' = opened
    /\ UNCHANGED <<weights, lock, graph, hc, tensor, il, k, step, faulted,
                   result, freed>>

\* The embedding of the token, and the head of the loop over the layers; a
\* failure goes to the given place.
EmbedOr(next) ==
    /\ pc = "embed"
    /\ il' = 0 /\ k' = 1
    /\ \/ /\ ok' = TRUE
          /\ tensor' = [tensor EXCEPT ![hc["batch_cur_hc"]] = <<step, 0>>]
          /\ pc' = "layer"
       \/ /\ ok' = FALSE
          /\ pc' = next
          /\ UNCHANGED tensor
    /\ UNCHANGED <<weights, lock, graph, hc, batch, step, faulted, result, freed>>

\* Mutant: the step returns without end_commands.
EmbedLeavesBatch == EmbedOr("return")

Embed == EmbedOr("end")

Unwrapped(kn) ==
    \A n \in kn.unwraps : IF n = "output_hc" THEN weights.output_hc
                          ELSE weights.blocks[il + 1][n]

\* weights.blocks[il], blocks[il].ffn and the optional weights of a kernel are
\* unwrapped before it is called, and are there.
Bound(kn) ==
    IF pc = "layer" /\ (il >= Len(weights.blocks) \/ ~weights.blocks[il + 1].ffn)
      THEN FALSE
      ELSE Unwrapped(kn)

WriteOut(kn) ==
    tensor' = [t \in Tensors |-> IF t \in {At(f) : f \in kn.out}
                                   THEN <<step, il + 1>> ELSE tensor[t]]

\* A panic unwinds through the guard, which poisons the mutex; the command
\* buffer stays open.
Panic ==
    /\ lock' = "poisoned"
    /\ result' = [result EXCEPT ![lock] = "panicked"]
    /\ pc' = "idle"
    /\ UNCHANGED <<weights, graph, hc, tensor, batch, il, k, ok, step, faulted, freed>>

LayerKernel ==
    /\ pc = "layer" /\ ok /\ k <= Len(LayerKernels)
    /\ IF ~Bound(LayerKernels[k]) THEN Panic ELSE
          /\ \/ WriteOut(LayerKernels[k]) /\ k' = k + 1 /\ UNCHANGED ok
             \/ ok' = FALSE /\ UNCHANGED <<tensor, k>>
          /\ UNCHANGED <<weights, lock, graph, hc, batch, pc, il, step, faulted,
                         result, freed>>

\* After a layer, failed or not, batch_cur_hc and after_ffn_hc get the given
\* tensors; the loop breaks on the next turn if the layer failed.
EndLayerWith(cur, after) ==
    /\ pc = "layer"
    /\ ~ok \/ k > Len(LayerKernels)
    /\ hc' = [hc EXCEPT !["batch_cur_hc"] = cur, !["after_ffn_hc"] = after]
    /\ k' = 1
    /\ il' = il + 1
    /\ pc' = IF ~ok THEN "end" ELSE IF il' < LoopLayers THEN "layer" ELSE "head"
    /\ UNCHANGED <<weights, lock, graph, tensor, batch, ok, step, faulted,
                   result, freed>>

\* Mutant: no swap.
EndLayerNoSwap == EndLayerWith(hc["batch_cur_hc"], hc["after_ffn_hc"])

EndLayer == EndLayerWith(hc["after_ffn_hc"], hc["batch_cur_hc"])

HeadKernel ==
    /\ pc = "head"
    /\ IF ~Bound(HeadKernels[k]) THEN Panic ELSE
          /\ \/ /\ WriteOut(HeadKernels[k])
                /\ IF k < Len(HeadKernels) THEN k' = k + 1 /\ UNCHANGED pc
                                           ELSE UNCHANGED k /\ pc' = "end"
                /\ UNCHANGED ok
             \/ ok' = FALSE /\ pc' = "end" /\ UNCHANGED <<tensor, k>>
          /\ UNCHANGED <<weights, lock, graph, hc, batch, il, step, faulted,
                         result, freed>>

\* end_commands and synchronize: the buffer is committed and waited for, and
\* what they return is ignored.
End ==
    /\ pc = "end"
    /\ batch' = FALSE
    /\ faulted' \in BOOLEAN
    /\ pc' = "return"
    /\ UNCHANGED <<weights, lock, graph, hc, tensor, il, k, ok, step, result, freed>>

ReturnTo(next) ==
    /\ pc = "return"
    /\ result' = [result EXCEPT ![lock] = IF ok THEN "some" ELSE "failed"]
    /\ lock' = next
    /\ pc' = "idle"
    /\ UNCHANGED <<weights, graph, hc, tensor, batch, il, k, ok, step, faulted, freed>>

\* Mutant: the guard of a failed step is kept.
ReturnKeepsGuard == ReturnTo(IF ok THEN "free" ELSE lock)

\* The logits are read back on success; the guard is released.
Return == ReturnTo("free")

DropFields == {"batch_cur_hc", "batch_next_hc"}

\* The last Arc<Engine> goes when no call is under way.
Drop ==
    /\ graph = "live"
    /\ pc = "idle" /\ \A c \in Callers : result[c] # "waiting"
    /\ graph' = "dropped"
    /\ freed' = [t \in HcTensors |->
                   freed[t] + Cardinality({f \in DropFields : hc[f] = t})]
    /\ UNCHANGED <<weights, lock, hc, tensor, batch, pc, il, k, ok, step, faulted, result>>

Next ==
    \/ \E c \in Callers : Call(c) \/ Lock(c)
    \/ Begin \/ Embed \/ LayerKernel \/ EndLayer \/ HeadKernel \/ End \/ Return
    \/ Drop

\* The holder of the mutex runs on, and the mutex is handed to a waiting thread.
Fairness ==
    /\ WF_vars(Begin \/ Embed \/ LayerKernel \/ EndLayer \/ HeadKernel \/ End \/ Return)
    /\ \A c \in Callers : SF_vars(Lock(c))

Spec == Init /\ [][Next]_vars
FairSpec == Spec /\ Fairness
-----------------------------------------------------------------------------
\* The stamp an operand must have for the kernel about to run.
Due(f) == <<step, IF f = "batch_cur_hc" THEN il ELSE il + 1>>

(* Every operand a kernel reads, other than the raw cache of its layer, was
   written in this step, by this layer or, for the residual stream, by the layer
   before it, even when earlier steps broke off in the middle of a layer and left
   their tensors behind (decode.rs encode_decode_layer, head.rs
   encode_output_head).  No kernel writes the raw cache: a comment (decode.rs:403)
   places the storage of the token's row where nothing is stored.  A step that is
   about to return its logits has put every layer and the head of this very step
   into them, unless the GPU failed to execute the commands, which
   execute_decode_step does not look at (decode.rs:60). *)
OperandsFresh ==
    /\ pc = "layer" /\ ok /\ k <= Len(LayerKernels) =>
          \A f \in LayerKernels[k].in \ CacheFields : tensor[At(f)] = Due(f)
    /\ pc = "head" => \A f \in HeadKernels[k].in : tensor[At(f)] = Due(f)
    /\ pc = "return" /\ ok /\ ~faulted => tensor["logits"] = <<step, LoopLayers + 1>>

(* Whoever takes the mutex finds no open command buffer, so begin_commands never
   refuses a step because an earlier one failed half way (decode.rs:51-61). *)
BatchClosedWhenFree == lock = "free" \/ pc = "begin" => ~batch

(* A call of the decoder returns or panics; none waits for ever for the mutex of
   a caller whose step failed (inference.rs:63). *)
EveryCallEnds ==
    \A c \in Callers : result[c] = "waiting" ~> result[c] \in {"some", "failed", "panicked"}

(* graph.rs:155: "This is called exactly once when `MetalGraph` is dropped,
   preventing double-free." *)
FreedOnce == graph = "dropped" => \A t \in HcTensors : freed[t] = 1
=============================================================================

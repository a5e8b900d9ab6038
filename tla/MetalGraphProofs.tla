-------------------------- MODULE MetalGraphProofs --------------------------
(***************************************************************************)
(* For every number of layers, callers and steps and every set of bound    *)
(* weights, whatever kernels fail or panic: the command buffer of the      *)
(* Metal backend is closed whenever the graph's mutex is free, and every   *)
(* operand a kernel reads, other than the raw cache, which no kernel       *)
(* writes, was written in its own step.                                    *)
(***************************************************************************)
EXTENDS MetalGraph, SequenceTheorems, TLAPS

\* The places where the holder of the mutex can be.
Places == {"idle", "begin", "embed", "layer", "head", "end", "return"}

\* A thread that is inside a step holds the mutex, and no thread is when the
\* mutex is free or poisoned.
HolderIsInside ==
    /\ pc \in Places
    /\ lock \in Callers \union {"free", "poisoned"}
    /\ pc = "idle" <=> lock \in {"free", "poisoned"}

\* Outside begin_commands .. end_commands no command buffer is open; a panic
\* leaves one open behind a poisoned mutex.
ClosedOutside ==
    /\ batch \in BOOLEAN
    /\ pc \in {"begin", "return"} => batch = FALSE
    /\ lock = "free" => batch = FALSE

Inv == HolderIsInside /\ ClosedOutside

\* A panic of the holder, from a layer or the head, keeps the invariant.
LEMMA PanicKeepsInv ==
    ASSUME Inv, pc \in {"layer", "head"}, Panic
    PROVE  Inv'
BY MetalAssumption DEF Inv, HolderIsInside, ClosedOutside, Places, Panic

\* Every step of the Metal backend keeps the invariant.
LEMMA StepKeepsInv ==
    ASSUME Inv, [Next]_vars
    PROVE  Inv'
<1> USE MetalAssumption DEF Inv, HolderIsInside, ClosedOutside, Places
<1>1. ASSUME NEW c \in Callers, Call(c) PROVE Inv'
  BY <1>1 DEF Call
<1>2. ASSUME NEW c \in Callers, Lock(c) PROVE Inv'
  <2>1. CASE lock = "poisoned" /\ UNCHANGED <<lock, pc, batch>>
    BY <2>1
  <2>2. CASE lock = "free" /\ lock' = c /\ pc' = "begin" /\ batch' = batch
    BY <2>2
  <2> QED
    BY <1>2, <2>1, <2>2 DEF Lock
<1>3. CASE Begin
  <2>1. PICK opened \in BOOLEAN : /\ batch' = (batch \/ opened)
                                 /\ pc' = IF opened THEN "embed" ELSE "return"
    BY <1>3 DEF Begin
  <2>2. pc = "begin" /\ lock' = lock /\ batch = FALSE
    BY <1>3 DEF Begin
  <2>3. CASE opened = TRUE
    BY <2>1, <2>2, <2>3
  <2>4. CASE opened = FALSE
    BY <2>1, <2>2, <2>4
  <2> QED
    BY <2>3, <2>4
<1>4. CASE Embed
  BY <1>4 DEF Embed, EmbedOr
<1>5. CASE LayerKernel
  <2>1. CASE Panic
    BY <1>5, <2>1, PanicKeepsInv DEF LayerKernel
  <2>2. CASE UNCHANGED <<lock, batch, pc>>
    BY <2>2
  <2> QED
    BY <1>5, <2>1, <2>2 DEF LayerKernel
<1>6. CASE EndLayer
  <2>1. pc = "layer" /\ pc' \in {"end", "layer", "head"}
    BY <1>6 DEF EndLayer, EndLayerWith
  <2>2. lock' = lock /\ batch' = batch
    BY <1>6 DEF EndLayer, EndLayerWith
  <2> QED
    BY <2>1, <2>2
<1>7. CASE HeadKernel
  <2>1. CASE Panic
    BY <1>7, <2>1, PanicKeepsInv DEF HeadKernel
  <2>2. CASE lock' = lock /\ batch' = batch /\ pc = "head" /\ pc' \in {"head", "end"}
    BY <2>2
  <2> QED
    BY <1>7, <2>1, <2>2 DEF HeadKernel
<1>8. CASE End
  BY <1>8 DEF End
<1>9. CASE Return
  BY <1>9 DEF Return, ReturnTo
<1>10. CASE Drop
  BY <1>10 DEF Drop
<1>11. CASE UNCHANGED vars
  BY <1>11 DEF vars
<1> QED
  BY <1>1, <1>2, <1>3, <1>4, <1>5, <1>6, <1>7, <1>8, <1>9, <1>10, <1>11 DEF Next

(* A thread inside a decode step holds the mutex, and outside
   begin_commands .. end_commands no command buffer is open
   (inference.rs:62-95, decode.rs execute_decode_step). *)
THEOREM MetalInvariant == Spec => []Inv
<1>1. Init => Inv
  BY MetalAssumption DEF Init, Inv, HolderIsInside, ClosedOutside, Places
<1>2. Inv /\ [Next]_vars => Inv'
  BY StepKeepsInv
<1> QED
  BY <1>1, <1>2, PTL DEF Spec

(* No step that fails or panics half way leaves a command buffer open for the
   next holder of the mutex (decode.rs:51-61). *)
THEOREM CommandBufferClosed == Spec => []BatchClosedWhenFree
<1>1. Inv => BatchClosedWhenFree
  BY DEF Inv, ClosedOutside, BatchClosedWhenFree
<1> QED
  BY <1>1, MetalInvariant, PTL

-----------------------------------------------------------------------------
\* The kernels of a list.
Listed(s) == {s[i] : i \in DOMAIN s}
Parts == {AttnInput, AttnProject, AttnOutput, FfnInput, FfnExperts, FfnOutput}

\* a is s followed by t.
Joins(a, s, t, S) ==
    /\ a \in Seq(S) /\ Len(a) = Len(s) + Len(t)
    /\ \A i \in 1..Len(s) : a[i] = s[i]
    /\ \A i \in 1..Len(t) : a[Len(s) + i] = t[i]

\* What the parts of a layer are put together with.
LEMMA Joined ==
    ASSUME NEW S, NEW s \in Seq(S), NEW t \in Seq(S)
    PROVE  Joins(s \o t, s, t, S)
BY ConcatProperties DEF Joins

\* Where the kernels of each part are in a layer.
LEMMA LayerParts ==
    /\ Len(LayerKernels) = 22 /\ DOMAIN LayerKernels = 1..22
    /\ \A i \in 1..3 : LayerKernels[i] = AttnInput[i]
    /\ \A i \in 1..7 : LayerKernels[3 + i] = AttnProject[i]
    /\ \A i \in 1..4 : LayerKernels[10 + i] = AttnOutput[i]
    /\ \A i \in 1..3 : LayerKernels[14 + i] = FfnInput[i]
    /\ \A i \in 1..3 : LayerKernels[17 + i] = FfnExperts[i]
    /\ \A i \in 1..2 : LayerKernels[20 + i] = FfnOutput[i]
<1> DEFINE S == UNION {Listed(s) : s \in Parts}
           a == AttnInput \o AttnProject
           b == a \o AttnOutput
           c == b \o FfnInput
           d == c \o FfnExperts
           e == d \o FfnOutput
<1>1. \A s \in Parts : s \in Seq(Listed(s)) => s \in Seq(S)
  <2> SUFFICES ASSUME NEW s \in Parts, s \in Seq(Listed(s)) PROVE s \in Seq(S)
    OBVIOUS
  <2>1. Listed(s) \subseteq S
    OBVIOUS
  <2> HIDE DEF S
  <2> QED
    BY <2>1
<1> HIDE DEF S
<1>2. AttnInput \in Seq(S) /\ Len(AttnInput) = 3
  <2>1. AttnInput \in Seq(Listed(AttnInput)) /\ Len(AttnInput) = 3
    BY DEF AttnInput, Listed
  <2> QED
    BY <1>1, <2>1 DEF Parts
<1>3. AttnProject \in Seq(S) /\ Len(AttnProject) = 7
  <2>1. AttnProject \in Seq(Listed(AttnProject)) /\ Len(AttnProject) = 7
    BY DEF AttnProject, Listed
  <2> QED
    BY <1>1, <2>1 DEF Parts
<1>4. AttnOutput \in Seq(S) /\ Len(AttnOutput) = 4
  <2>1. AttnOutput \in Seq(Listed(AttnOutput)) /\ Len(AttnOutput) = 4
    BY DEF AttnOutput, Listed
  <2> QED
    BY <1>1, <2>1 DEF Parts
<1>5. FfnInput \in Seq(S) /\ Len(FfnInput) = 3
  <2>1. FfnInput \in Seq(Listed(FfnInput)) /\ Len(FfnInput) = 3
    BY DEF FfnInput, Listed
  <2> QED
    BY <1>1, <2>1 DEF Parts
<1>6. FfnExperts \in Seq(S) /\ Len(FfnExperts) = 3
  <2>1. FfnExperts \in Seq(Listed(FfnExperts)) /\ Len(FfnExperts) = 3
    BY DEF FfnExperts, Listed
  <2> QED
    BY <1>1, <2>1 DEF Parts
<1>7. FfnOutput \in Seq(S) /\ Len(FfnOutput) = 2
  <2>1. FfnOutput \in Seq(Listed(FfnOutput)) /\ Len(FfnOutput) = 2
    BY DEF FfnOutput, Listed
  <2> QED
    BY <1>1, <2>1 DEF Parts
<1>8. /\ a \in Seq(S) /\ Len(a) = 10
      /\ \A i \in 1..3 : a[i] = AttnInput[i]
      /\ \A i \in 1..7 : a[3 + i] = AttnProject[i]
  <2>1. Joins(a, AttnInput, AttnProject, S)
    BY <1>2, <1>3, Joined
  <2> HIDE DEF a
  <2> QED
    BY <1>2, <1>3, <2>1 DEF Joins
<1> HIDE DEF a
<1>9. /\ b \in Seq(S) /\ Len(b) = 14
      /\ \A i \in 1..10 : b[i] = a[i]
      /\ \A i \in 1..4 : b[10 + i] = AttnOutput[i]
  <2>1. Joins(b, a, AttnOutput, S)
    BY <1>4, <1>8, Joined
  <2> HIDE DEF b
  <2> QED
    BY <1>4, <1>8, <2>1 DEF Joins
<1> HIDE DEF b
<1>10. /\ c \in Seq(S) /\ Len(c) = 17
       /\ \A i \in 1..14 : c[i] = b[i]
       /\ \A i \in 1..3 : c[14 + i] = FfnInput[i]
  <2>1. Joins(c, b, FfnInput, S)
    BY <1>5, <1>9, Joined
  <2> HIDE DEF c
  <2> QED
    BY <1>5, <1>9, <2>1 DEF Joins
<1> HIDE DEF c
<1>11. /\ d \in Seq(S) /\ Len(d) = 20
       /\ \A i \in 1..17 : d[i] = c[i]
       /\ \A i \in 1..3 : d[17 + i] = FfnExperts[i]
  <2>1. Joins(d, c, FfnExperts, S)
    BY <1>6, <1>10, Joined
  <2> HIDE DEF d
  <2> QED
    BY <1>6, <1>10, <2>1 DEF Joins
<1> HIDE DEF d
<1>12. /\ e \in Seq(S) /\ Len(e) = 22
       /\ \A i \in 1..20 : e[i] = d[i]
       /\ \A i \in 1..2 : e[20 + i] = FfnOutput[i]
  <2>1. Joins(e, d, FfnOutput, S)
    BY <1>7, <1>11, Joined
  <2> HIDE DEF e
  <2> QED
    BY <1>7, <1>11, <2>1 DEF Joins
<1> HIDE DEF e
<1>13. LayerKernels = e
  BY DEF LayerKernels, a, b, c, d, e
<1>14. Len(LayerKernels) = 22 /\ DOMAIN LayerKernels = 1..22
  BY <1>12, <1>13
<1>15. \A i \in 1..17 : LayerKernels[i] = c[i]
  <2>1. \A i \in 1..20 : LayerKernels[i] = d[i]
    BY <1>12, <1>13
  <2>2. \A i \in 1..17 : d[i] = c[i]
    BY <1>11
  <2> QED
    BY <2>1, <2>2
<1>16. \A i \in 1..10 : LayerKernels[i] = a[i]
  BY <1>9, <1>10, <1>15
<1>17. \A i \in 1..4 : LayerKernels[10 + i] = AttnOutput[i]
  BY <1>9, <1>10, <1>15
<1>18. \A i \in 1..3 : LayerKernels[14 + i] = FfnInput[i]
  BY <1>10, <1>15
<1>19. \A i \in 1..3 : LayerKernels[17 + i] = FfnExperts[i]
  <2>1. \A i \in 1..20 : LayerKernels[i] = d[i]
    BY <1>12, <1>13
  <2> QED
    BY <1>11, <2>1
<1>20. \A i \in 1..3 : LayerKernels[i] = AttnInput[i]
  BY <1>8, <1>16
<1>21. \A i \in 1..7 : LayerKernels[3 + i] = AttnProject[i]
  BY <1>8, <1>16
<1>22. \A i \in 1..2 : LayerKernels[20 + i] = FfnOutput[i]
  BY <1>12, <1>13
<1> QED
  BY <1>14, <1>17, <1>18, <1>19, <1>20, <1>21, <1>22

\* The fields that the kernels before the j-th have written.
WrittenBefore(ks, j) == UNION {ks[i].out : i \in 1..(j - 1)}

\* Each of them has its outputs there.
LEMMA WrittenHas ==
    ASSUME NEW ks, NEW j \in Nat, NEW i \in 1..(j - 1)
    PROVE  ks[i].out \subseteq WrittenBefore(ks, j)
BY DEF WrittenBefore

\* A kernel of a layer reads the residual stream, the raw cache or what an earlier
\* kernel of the layer wrote (encode_decode_layer).
LEMMA LayerOrdered ==
    \A j \in 1..22 : LayerKernels[j].in \ CacheFields \subseteq
                         WrittenBefore(LayerKernels, j) \union {"batch_cur_hc"}
<1> DEFINE Has(j, i) == LayerKernels[i].out \subseteq WrittenBefore(LayerKernels, j)
           Good(j) == LayerKernels[j].in \ CacheFields \subseteq
                          WrittenBefore(LayerKernels, j) \union {"batch_cur_hc"}
<1>0. \A j \in 1..22 : \A i \in 1..(j-1) : Has(j, i)
  BY WrittenHas
<1> HIDE DEF Has
<1>1. Good(1)
  <2>1. LayerKernels[1] = AttnInput[1]
    BY LayerParts
  <2> QED
    BY <2>1 DEF Has, K, AttnInput
<1>2. Good(2)
  <2>1. LayerKernels[2] = AttnInput[2] /\ LayerKernels[1] = AttnInput[1]
    BY LayerParts
  <2>2. Has(2, 1)
    BY <1>0
  <2> QED
    BY <2>1, <2>2 DEF Has, K, AttnInput
<1>3. Good(3)
  <2>1. LayerKernels[3] = AttnInput[3] /\ LayerKernels[2] = AttnInput[2]
    BY LayerParts
  <2>2. Has(3, 2)
    BY <1>0
  <2> QED
    BY <2>1, <2>2 DEF Has, K, AttnInput
<1>4. Good(4)
  <2>1. LayerKernels[4] = AttnProject[1] /\ LayerKernels[3] = AttnInput[3]
    BY LayerParts
  <2>2. Has(4, 3)
    BY <1>0
  <2> QED
    BY <2>1, <2>2 DEF Has, K, AttnInput, AttnProject
<1>5. Good(5)
  <2>1. LayerKernels[5] = AttnProject[2] /\ LayerKernels[3] = AttnInput[3]
    BY LayerParts
  <2>2. Has(5, 3)
    BY <1>0
  <2> QED
    BY <2>1, <2>2 DEF Has, K, AttnInput, AttnProject
<1>6. Good(6)
  <2>1. /\ LayerKernels[6] = AttnProject[3] /\ LayerKernels[4] = AttnProject[1]
        /\ LayerKernels[5] = AttnProject[2]
    BY LayerParts
  <2>2. Has(6, 4) /\ Has(6, 5)
    BY <1>0
  <2> QED
    BY <2>1, <2>2 DEF Has, K, AttnProject
<1>7. Good(7)
  <2>1. LayerKernels[7] = AttnProject[4] /\ LayerKernels[6] = AttnProject[3]
    BY LayerParts
  <2>2. Has(7, 6)
    BY <1>0
  <2> QED
    BY <2>1, <2>2 DEF Has, K, AttnProject
<1>8. Good(8)
  <2>1. LayerKernels[8] = AttnProject[5] /\ LayerKernels[7] = AttnProject[4]
    BY LayerParts
  <2>2. Has(8, 7)
    BY <1>0
  <2> QED
    BY <2>1, <2>2 DEF Has, K, AttnProject
<1>9. Good(9)
  <2>1. LayerKernels[9] = AttnProject[6] /\ LayerKernels[8] = AttnProject[5]
    BY LayerParts
  <2>2. Has(9, 8)
    BY <1>0
  <2> QED
    BY <2>1, <2>2 DEF Has, K, AttnProject
<1>10. Good(10)
  <2>1. LayerKernels[10] = AttnProject[7] /\ LayerKernels[6] = AttnProject[3]
    BY LayerParts
  <2>2. Has(10, 6)
    BY <1>0
  <2> QED
    BY <2>1, <2>2 DEF Has, K, AttnProject
<1>11. Good(11)
  <2>1. LayerKernels[11] = AttnOutput[1] /\ LayerKernels[9] = AttnProject[6]
    BY LayerParts
  <2>2. Has(11, 9)
    BY <1>0
  <2> QED
    BY <2>1, <2>2 DEF Has, K, AttnOutput, AttnProject
<1>12. Good(12)
  <2>1. LayerKernels[12] = AttnOutput[2] /\ LayerKernels[11] = AttnOutput[1]
    BY LayerParts
  <2>2. Has(12, 11)
    BY <1>0
  <2> QED
    BY <2>1, <2>2 DEF Has, K, AttnOutput
<1>13. Good(13)
  <2>1. LayerKernels[13] = AttnOutput[3] /\ LayerKernels[12] = AttnOutput[2]
    BY LayerParts
  <2>2. Has(13, 12)
    BY <1>0
  <2> QED
    BY <2>1, <2>2 DEF Has, K, AttnOutput
<1>14. Good(14)
  <2>1. /\ LayerKernels[14] = AttnOutput[4] /\ LayerKernels[3] = AttnInput[3]
        /\ LayerKernels[13] = AttnOutput[3]
    BY LayerParts
  <2>2. Has(14, 3) /\ Has(14, 13)
    BY <1>0
  <2> QED
    BY <2>1, <2>2 DEF Has, K, AttnInput, AttnOutput
<1>15. Good(15)
  <2>1. LayerKernels[15] = FfnInput[1] /\ LayerKernels[14] = AttnOutput[4]
    BY LayerParts
  <2>2. Has(15, 14)
    BY <1>0
  <2> QED
    BY <2>1, <2>2 DEF Has, K, AttnOutput, FfnInput
<1>16. Good(16)
  <2>1. LayerKernels[16] = FfnInput[2] /\ LayerKernels[15] = FfnInput[1]
    BY LayerParts
  <2>2. Has(16, 15)
    BY <1>0
  <2> QED
    BY <2>1, <2>2 DEF Has, K, FfnInput
<1>17. Good(17)
  <2>1. /\ LayerKernels[17] = FfnInput[3] /\ LayerKernels[14] = AttnOutput[4]
        /\ LayerKernels[16] = FfnInput[2]
    BY LayerParts
  <2>2. Has(17, 14) /\ Has(17, 16)
    BY <1>0
  <2> QED
    BY <2>1, <2>2 DEF Has, K, AttnOutput, FfnInput
<1>18. Good(18)
  <2>1. LayerKernels[18] = FfnExperts[1] /\ LayerKernels[17] = FfnInput[3]
    BY LayerParts
  <2>2. Has(18, 17)
    BY <1>0
  <2> QED
    BY <2>1, <2>2 DEF Has, K, FfnExperts, FfnInput
<1>19. Good(19)
  <2>1. LayerKernels[19] = FfnExperts[2] /\ LayerKernels[18] = FfnExperts[1]
    BY LayerParts
  <2>2. Has(19, 18)
    BY <1>0
  <2> QED
    BY <2>1, <2>2 DEF Has, K, FfnExperts
<1>20. Good(20)
  <2>1. /\ LayerKernels[20] = FfnExperts[3] /\ LayerKernels[17] = FfnInput[3]
        /\ LayerKernels[19] = FfnExperts[2]
    BY LayerParts
  <2>2. Has(20, 17) /\ Has(20, 19)
    BY <1>0
  <2> QED
    BY <2>1, <2>2 DEF Has, K, FfnExperts, FfnInput
<1>21. Good(21)
  <2>1. LayerKernels[21] = FfnOutput[1] /\ LayerKernels[17] = FfnInput[3]
    BY LayerParts
  <2>2. Has(21, 17)
    BY <1>0
  <2> QED
    BY <2>1, <2>2 DEF Has, K, FfnInput, FfnOutput
<1>22. Good(22)
  <2>1. /\ LayerKernels[22] = FfnOutput[2] /\ LayerKernels[14] = AttnOutput[4]
        /\ LayerKernels[17] = FfnInput[3] /\ LayerKernels[20] = FfnExperts[3]
        /\ LayerKernels[21] = FfnOutput[1]
    BY LayerParts
  <2>2. Has(22, 14) /\ Has(22, 17) /\ Has(22, 20) /\ Has(22, 21)
    BY <1>0
  <2> QED
    BY <2>1, <2>2 DEF Has, K, AttnOutput, FfnExperts, FfnInput, FfnOutput
<1> QED
  BY <1>1, <1>2, <1>3, <1>4, <1>5, <1>6, <1>7, <1>8, <1>9, <1>10, <1>11, <1>12,
     <1>13, <1>14, <1>15, <1>16, <1>17, <1>18, <1>19, <1>20, <1>21, <1>22

\* A kernel of the output head reads the residual stream or what an earlier one
\* wrote (encode_output_head).
LEMMA HeadOrdered ==
    /\ Len(HeadKernels) = 6 /\ DOMAIN HeadKernels = 1..6
    /\ \A j \in 1..6 :
          HeadKernels[j].in \subseteq WrittenBefore(HeadKernels, j) \union {"batch_cur_hc"}
<1> DEFINE Has(j, i) == HeadKernels[i].out \subseteq WrittenBefore(HeadKernels, j)
           Good(j) == HeadKernels[j].in \subseteq
                          WrittenBefore(HeadKernels, j) \union {"batch_cur_hc"}
<1>0. \A j \in 1..6 : \A i \in 1..(j - 1) : Has(j, i)
  BY WrittenHas
<1>7. Len(HeadKernels) = 6 /\ DOMAIN HeadKernels = 1..6
  BY DEF HeadKernels
<1> HIDE DEF Has
<1>1. Good(1)
  BY DEF K, HeadKernels
<1>2. Good(2)
  <2>1. Has(2, 1)
    BY <1>0
  <2> QED
    BY <2>1 DEF Has, K, HeadKernels
<1>3. Good(3)
  <2>1. Has(3, 2)
    BY <1>0
  <2> QED
    BY <2>1 DEF Has, K, HeadKernels
<1>4. Good(4)
  <2>1. Has(4, 3)
    BY <1>0
  <2> QED
    BY <2>1 DEF Has, K, HeadKernels
<1>5. Good(5)
  <2>1. Has(5, 4)
    BY <1>0
  <2> QED
    BY <2>1 DEF Has, K, HeadKernels
<1>6. Good(6)
  <2>1. Has(6, 5)
    BY <1>0
  <2> QED
    BY <2>1 DEF Has, K, HeadKernels
<1> QED
  BY <1>1, <1>2, <1>3, <1>4, <1>5, <1>6, <1>7

\* The names no kernel writes to: the residual stream it reads, the field that
\* is never used, and the tensors behind the fields.
Kept == {"batch_cur_hc", "batch_next_hc"} \union HcTensors

\* No kernel writes to them, and the last one of a layer leaves its result in
\* after_ffn_hc.
LEMMA KernelOutputs ==
    /\ \A j \in 1..22 : LayerKernels[j].out \intersect Kept = {}
    /\ \A j \in 1..6 : HeadKernels[j].out \intersect Kept = {}
    /\ "after_ffn_hc" \in LayerKernels[22].out
    /\ "logits" \in HeadKernels[6].out
<1> DEFINE Clean(kn) == kn.out \intersect Kept = {}
<1>1. Clean(AttnInput[1]) /\ Clean(AttnInput[2]) /\ Clean(AttnInput[3])
  BY DEF AttnInput, K, Kept, HcTensors
<1>2. /\ Clean(AttnProject[1]) /\ Clean(AttnProject[2])
      /\ Clean(AttnProject[3]) /\ Clean(AttnProject[4])
      /\ Clean(AttnProject[5]) /\ Clean(AttnProject[6]) /\ Clean(AttnProject[7])
  BY DEF AttnProject, K, Kept, HcTensors
<1>3. /\ Clean(AttnOutput[1]) /\ Clean(AttnOutput[2])
      /\ Clean(AttnOutput[3]) /\ Clean(AttnOutput[4])
  BY DEF AttnOutput, K, Kept, HcTensors
<1>4. Clean(FfnInput[1]) /\ Clean(FfnInput[2]) /\ Clean(FfnInput[3])
  BY DEF FfnInput, K, Kept, HcTensors
<1>5. Clean(FfnExperts[1]) /\ Clean(FfnExperts[2]) /\ Clean(FfnExperts[3])
  BY DEF FfnExperts, K, Kept, HcTensors
<1>6. Clean(FfnOutput[1]) /\ Clean(FfnOutput[2])
  BY DEF FfnOutput, K, Kept, HcTensors
<1>7. /\ Clean(HeadKernels[1]) /\ Clean(HeadKernels[2]) /\ Clean(HeadKernels[3])
      /\ Clean(HeadKernels[4]) /\ Clean(HeadKernels[5]) /\ Clean(HeadKernels[6])
  BY DEF HeadKernels, K, Kept, HcTensors
<1>8. /\ \A i \in 1..3 : Clean(AttnInput[i]) /\ Clean(FfnInput[i]) /\ Clean(FfnExperts[i])
      /\ \A i \in 1..7 : Clean(AttnProject[i])
      /\ \A i \in 1..4 : Clean(AttnOutput[i])
      /\ \A i \in 1..2 : Clean(FfnOutput[i])
      /\ \A i \in 1..6 : Clean(HeadKernels[i])
  BY <1>1, <1>2, <1>3, <1>4, <1>5, <1>6, <1>7
<1>9. "after_ffn_hc" \in LayerKernels[22].out
  <2>1. LayerKernels[20 + 2] = FfnOutput[2]
    BY LayerParts
  <2> QED
    BY <2>1 DEF FfnOutput, K
<1>10. "logits" \in HeadKernels[6].out
  BY DEF HeadKernels, K
<1> HIDE DEF Clean
<1>11. \A j \in 1..22 : Clean(LayerKernels[j])
  <2> TAKE j \in 1..22
  <2>1. CASE j \in 1..3
    BY <2>1, <1>8, LayerParts
  <2>2. CASE j \in 4..10
    <3>1. j - 3 \in 1..7 /\ j = 3 + (j - 3)
      BY <2>2
    <3> QED
      BY <3>1, <1>8, LayerParts
  <2>3. CASE j \in 11..14
    <3>1. j - 10 \in 1..4 /\ j = 10 + (j - 10)
      BY <2>3
    <3> QED
      BY <3>1, <1>8, LayerParts
  <2>4. CASE j \in 15..17
    <3>1. j - 14 \in 1..3 /\ j = 14 + (j - 14)
      BY <2>4
    <3> QED
      BY <3>1, <1>8, LayerParts
  <2>5. CASE j \in 18..20
    <3>1. j - 17 \in 1..3 /\ j = 17 + (j - 17)
      BY <2>5
    <3> QED
      BY <3>1, <1>8, LayerParts
  <2>6. CASE j \in 21..22
    <3>1. j - 20 \in 1..2 /\ j = 20 + (j - 20)
      BY <2>6
    <3> QED
      BY <3>1, <1>8, LayerParts
  <2> QED
    BY <2>1, <2>2, <2>3, <2>4, <2>5, <2>6
<1> QED
  BY <1>8, <1>9, <1>10, <1>11 DEF Clean

-----------------------------------------------------------------------------
\* batch_cur_hc and after_ffn_hc point to the two tensors of the residual stream.
TwoStreams ==
    /\ hc \in [HcFields -> HcTensors]
    /\ hc["batch_cur_hc"] # hc["after_ffn_hc"]
    /\ DOMAIN tensor = Tensors

\* The residual stream is that of the layer before, and what the kernels so far
\* have written is of this layer.
Current(ks) ==
    /\ tensor[hc["batch_cur_hc"]] = <<step, il>>
    /\ \A f \in WrittenBefore(ks, k) : tensor[At(f)] = <<step, il + 1>>

InLayer ==
    pc = "layer" => /\ k \in 1..23
                    /\ il \in 0..(LoopLayers - 1)
                    /\ ok => Current(LayerKernels)

InHead ==
    pc = "head" => k \in 1..6 /\ il = LoopLayers /\ Current(HeadKernels)

LogitsReady ==
    pc \in {"end", "return"} /\ ok => tensor["logits"] = <<step, LoopLayers + 1>>

Counted == step \in Nat /\ il \in Nat /\ k \in Nat /\ ok \in BOOLEAN

Fresh == TwoStreams /\ Counted /\ InLayer /\ InHead /\ LogitsReady

\* The fields kernels write are fields of the graph.
LEMMA OutputsAreFields ==
    /\ \A j \in 1..22 : LayerKernels[j].out \subseteq Fields
    /\ \A j \in 1..6 : HeadKernels[j].out \subseteq Fields
<1>1. ASSUME NEW j \in 1..22 PROVE LayerKernels[j].out \subseteq Fields
  <2>1. LayerKernels[j] \in {LayerKernels[i] : i \in DOMAIN LayerKernels}
    BY LayerParts
  <2> QED
    BY <2>1 DEF Fields
<1>2. ASSUME NEW j \in 1..6 PROVE HeadKernels[j].out \subseteq Fields
  <2>1. HeadKernels[j] \in {HeadKernels[i] : i \in DOMAIN HeadKernels}
    BY HeadOrdered
  <2> QED
    BY <2>1 DEF Fields
<1> QED
  BY <1>1, <1>2

\* The fields written before the next kernel: those before, and its outputs.
LEMMA WrittenGrows ==
    ASSUME NEW ks, NEW j \in Nat \ {0}
    PROVE  /\ WrittenBefore(ks, j + 1) = WrittenBefore(ks, j) \union ks[j].out
           /\ WrittenBefore(ks, 1) = {}
<1>1. 1..((j + 1) - 1) = 1..(j - 1) \union {j}
  OBVIOUS
<1>2. 1..(1 - 1) = {}
  OBVIOUS
<1> QED
  BY <1>1, <1>2 DEF WrittenBefore

\* A field that is not kept and is a field of the graph has a tensor of its own,
\* or it is the other tensor of the residual stream.
LEMMA FieldTensor ==
    ASSUME TwoStreams, NEW f \in Fields, f \notin Kept
    PROVE  At(f) \in Tensors /\ At(f) # hc["batch_cur_hc"]
BY DEF TwoStreams, Kept, At, Tensors, HcFields, HcTensors

\* What a kernel of this step writes, and what it leaves alone.
LEMMA KernelWrites ==
    ASSUME TwoStreams, NEW kn, kn.out \subseteq Fields, kn.out \intersect Kept = {},
           WriteOut(kn)
    PROVE  /\ DOMAIN tensor' = Tensors
           /\ tensor'[hc["batch_cur_hc"]] = tensor[hc["batch_cur_hc"]]
           /\ \A f \in kn.out : tensor'[At(f)] = <<step, il + 1>>
           /\ \A t \in Tensors : tensor[t] = <<step, il + 1>> => tensor'[t] = <<step, il + 1>>
<1> DEFINE W == {At(f) : f \in kn.out}
<1>1. tensor' = [t \in Tensors |-> IF t \in W THEN <<step, il + 1>> ELSE tensor[t]]
  BY DEF WriteOut
<1>2. \A f \in kn.out : At(f) \in W /\ At(f) \in Tensors /\ At(f) # hc["batch_cur_hc"]
  BY FieldTensor
<1>3. hc["batch_cur_hc"] \in Tensors /\ hc["batch_cur_hc"] \notin W
  <2>1. hc["batch_cur_hc"] \in Tensors
    BY DEF TwoStreams, Tensors, HcFields
  <2>2. hc["batch_cur_hc"] \notin W
    BY <1>2
  <2> QED
    BY <2>1, <2>2
<1> HIDE DEF W
<1> QED
  BY <1>1, <1>2, <1>3

\* A kernel that succeeds leaves the outputs of the kernels up to it current.
LEMMA KernelKeepsCurrent ==
    ASSUME TwoStreams, Counted, NEW ks, NEW n \in Nat, k \in 1..n,
           \A j \in 1..n : ks[j].out \subseteq Fields /\ ks[j].out \intersect Kept = {},
           Current(ks), WriteOut(ks[k]), UNCHANGED <<hc, step, il>>
    PROVE  /\ DOMAIN tensor' = Tensors
           /\ tensor'[hc["batch_cur_hc"]] = <<step, il>>
           /\ \A f \in WrittenBefore(ks, k + 1) : tensor'[At(f)] = <<step, il + 1>>
<1>1. /\ DOMAIN tensor' = Tensors
      /\ tensor'[hc["batch_cur_hc"]] = tensor[hc["batch_cur_hc"]]
      /\ \A f \in ks[k].out : tensor'[At(f)] = <<step, il + 1>>
      /\ \A t \in Tensors : tensor[t] = <<step, il + 1>> => tensor'[t] = <<step, il + 1>>
  BY KernelWrites
<1>2. ASSUME NEW f \in WrittenBefore(ks, k) PROVE tensor'[At(f)] = <<step, il + 1>>
  <2>1. PICK i \in 1..(k - 1) : f \in ks[i].out
    BY <1>2 DEF WrittenBefore
  <2>2. i \in 1..n
    BY <2>1 DEF Counted
  <2>3. f \in Fields /\ f \notin Kept
    BY <2>1, <2>2
  <2>4. At(f) \in Tensors
    BY <2>3, FieldTensor
  <2>5. tensor[At(f)] = <<step, il + 1>>
    BY <1>2 DEF Current
  <2> QED
    BY <1>1, <2>4, <2>5
<1>3. WrittenBefore(ks, k + 1) = WrittenBefore(ks, k) \union ks[k].out
  BY WrittenGrows DEF Counted
<1>4. tensor'[hc["batch_cur_hc"]] = <<step, il>>
  BY <1>1 DEF Current
<1> QED
  BY <1>1, <1>2, <1>3, <1>4

\* The step a kernel of a layer takes when it succeeds.
LEMMA LayerKernelKeepsFresh ==
    ASSUME Fresh, pc = "layer", ok, k <= Len(LayerKernels),
           WriteOut(LayerKernels[k]), k' = k + 1,
           UNCHANGED <<hc, pc, il, ok, step>>
    PROVE  Fresh'
<1>1. k \in 1..22 /\ il \in 0..(LoopLayers - 1) /\ Current(LayerKernels)
  BY LayerParts DEF Fresh, InLayer
<1>2. \A j \in 1..22 : /\ LayerKernels[j].out \subseteq Fields
                       /\ LayerKernels[j].out \intersect Kept = {}
  BY OutputsAreFields, KernelOutputs
<1>3. TwoStreams /\ Counted
  BY DEF Fresh
<1>4. /\ DOMAIN tensor' = Tensors
      /\ tensor'[hc["batch_cur_hc"]] = <<step, il>>
      /\ \A f \in WrittenBefore(LayerKernels, k + 1) : tensor'[At(f)] = <<step, il + 1>>
  BY <1>1, <1>2, <1>3, KernelKeepsCurrent
<1>5. TwoStreams'
  BY <1>3, <1>4 DEF TwoStreams
<1>6. Counted'
  BY <1>3 DEF Counted
<1>7. Current(LayerKernels)'
  BY <1>4 DEF Current, At
<1>8. InLayer'
  BY <1>1, <1>7 DEF InLayer
<1> QED
  BY <1>5, <1>6, <1>8 DEF Fresh, InHead, LogitsReady

\* The step a kernel of the head takes when it succeeds.
LEMMA HeadKernelKeepsFresh ==
    ASSUME Fresh, pc = "head", WriteOut(HeadKernels[k]),
           IF k < Len(HeadKernels) THEN k' = k + 1 /\ UNCHANGED pc
                                   ELSE UNCHANGED k /\ pc' = "end",
           UNCHANGED <<hc, il, ok, step>>
    PROVE  Fresh'
<1>1. k \in 1..6 /\ il = LoopLayers /\ Current(HeadKernels)
  BY DEF Fresh, InHead
<1>2. \A j \in 1..6 : /\ HeadKernels[j].out \subseteq Fields
                      /\ HeadKernels[j].out \intersect Kept = {}
  BY OutputsAreFields, KernelOutputs
<1>3. TwoStreams /\ Counted
  BY DEF Fresh
<1>4. /\ DOMAIN tensor' = Tensors
      /\ tensor'[hc["batch_cur_hc"]] = <<step, il>>
      /\ \A f \in WrittenBefore(HeadKernels, k + 1) : tensor'[At(f)] = <<step, il + 1>>
  BY <1>1, <1>2, <1>3, KernelKeepsCurrent
<1>5. TwoStreams'
  BY <1>3, <1>4 DEF TwoStreams
<1>6. Counted'
  BY <1>3 DEF Counted
<1>7. CASE k < 6
  <2>1. k' = k + 1 /\ pc' = "head"
    BY <1>7, HeadOrdered
  <2>2. Current(HeadKernels)'
    BY <1>4, <2>1 DEF Current, At
  <2>3. InHead'
    BY <1>1, <1>7, <2>1, <2>2 DEF InHead
  <2> QED
    BY <1>5, <1>6, <2>1, <2>3 DEF Fresh, InLayer, LogitsReady
<1>8. CASE k = 6
  <2>1. pc' = "end"
    BY <1>8, HeadOrdered
  <2>2. "logits" \in WrittenBefore(HeadKernels, k + 1)
    BY <1>8, KernelOutputs, WrittenGrows
  <2>3. At("logits") = "logits"
    BY DEF At, HcFields
  <2>4. LogitsReady'
    BY <1>1, <1>4, <2>2, <2>3 DEF LogitsReady
  <2> QED
    BY <1>5, <1>6, <2>1, <2>4 DEF Fresh, InLayer, InHead
<1> QED
  BY <1>1, <1>7, <1>8

\* The swap at the end of a layer, whether it failed or not.
LEMMA EndLayerKeepsFresh ==
    ASSUME Fresh, EndLayer
    PROVE  Fresh'
<1> USE MetalAssumption
<1>1. /\ pc = "layer" /\ (~ok \/ k > 22)
      /\ hc' = [hc EXCEPT !["batch_cur_hc"] = hc["after_ffn_hc"],
                          !["after_ffn_hc"] = hc["batch_cur_hc"]]
      /\ k' = 1 /\ il' = il + 1
      /\ pc' = IF ~ok THEN "end" ELSE IF il' < LoopLayers THEN "layer" ELSE "head"
      /\ UNCHANGED <<tensor, ok, step>>
  BY LayerParts DEF EndLayer, EndLayerWith
<1>2. TwoStreams /\ Counted /\ k \in 1..23 /\ il \in 0..(LoopLayers - 1)
  BY <1>1 DEF Fresh, InLayer
<1>3. TwoStreams' /\ hc'["batch_cur_hc"] = hc["after_ffn_hc"]
  BY <1>1, <1>2 DEF TwoStreams, HcFields
<1>4. Counted'
  BY <1>1, <1>2 DEF Counted
<1>5. CASE ok = FALSE
  BY <1>1, <1>3, <1>4, <1>5 DEF Fresh, InLayer, InHead, LogitsReady
<1>6. CASE ok = TRUE
  <2>1. k = 23 /\ Current(LayerKernels)
    <3>1. k > 22
      BY <1>1, <1>6
    <3>2. k = 23
      BY <1>2, <3>1
    <3>3. Current(LayerKernels)
      BY <1>1, <1>6 DEF Fresh, InLayer
    <3> QED
      BY <3>2, <3>3
  <2>2. "after_ffn_hc" \in WrittenBefore(LayerKernels, k)
    BY <2>1, KernelOutputs, WrittenHas
  <2>3. tensor[hc["after_ffn_hc"]] = <<step, il + 1>>
    BY <2>1, <2>2 DEF Current, At, HcFields
  <2>4. \A ks : WrittenBefore(ks, k') = {}
    BY <1>1, WrittenGrows
  <2>5. tensor'[hc'["batch_cur_hc"]] = <<step', il'>>
    BY <1>1, <1>3, <2>3
  <2>6. Current(LayerKernels)' /\ Current(HeadKernels)'
    BY <2>4, <2>5 DEF Current
  <2>7. pc' = IF il' < LoopLayers THEN "layer" ELSE "head"
    BY <1>1, <1>6
  <2>8. InLayer'
    BY <1>1, <1>2, <2>6, <2>7 DEF InLayer
  <2>9. InHead'
    BY <1>1, <1>2, <2>6, <2>7 DEF InHead
  <2>10. LogitsReady'
    BY <2>7 DEF LogitsReady
  <2> QED
    BY <1>3, <1>4, <2>8, <2>9, <2>10 DEF Fresh
<1> QED
  BY <1>2, <1>5, <1>6 DEF Counted

\* A panic leaves the tensors as they are and no step under way.
LEMMA PanicKeepsFresh ==
    ASSUME Fresh, Panic
    PROVE  Fresh'
BY DEF Fresh, Panic, TwoStreams, Counted, InLayer, InHead, LogitsReady

\* Every step of the Metal backend keeps what the operands hold.
LEMMA StepKeepsFresh ==
    ASSUME Fresh, [Next]_vars
    PROVE  Fresh'
<1> USE MetalAssumption
<1> DEFINE Still == UNCHANGED <<hc, tensor, il, k, ok, step>>
           Idle == TwoStreams' /\ Counted' /\ pc' \in {"idle", "begin", "embed"}
<1>0. Idle => Fresh'
  BY DEF Fresh, InLayer, InHead, LogitsReady
<1>00. TwoStreams /\ Counted
  BY DEF Fresh
<1>1. ASSUME NEW c \in Callers, Call(c) PROVE Fresh'
  BY <1>1 DEF Call, Fresh, TwoStreams, Counted, InLayer, InHead, LogitsReady, Current, At
<1>2. ASSUME NEW c \in Callers, Lock(c) PROVE Fresh'
  <2>1. CASE lock = "poisoned"
    <3>1. Still /\ pc' = pc
      BY <1>2, <2>1 DEF Lock
    <3> QED
      BY <3>1 DEF Fresh, TwoStreams, Counted, InLayer, InHead, LogitsReady, Current, At
  <2>2. CASE lock = "free"
    <3>1. /\ hc' = (IF graph = "none" THEN NewHc ELSE hc) /\ pc' = "begin" /\ step' = step + 1
          /\ UNCHANGED <<tensor, il, k, ok>>
      BY <1>2, <2>2 DEF Lock
    <3>2. Counted'
      BY <1>00, <3>1 DEF Counted
    <3>3. TwoStreams'
      BY <1>00, <3>1 DEF TwoStreams, NewHc, HcFields, HcTensors
    <3> QED
      BY <1>0, <3>1, <3>2, <3>3
  <2> QED
    BY <1>2, <2>1, <2>2 DEF Lock
<1>3. CASE Begin
  <2>1. PICK opened \in BOOLEAN : /\ ok' = opened
                                 /\ pc' = IF opened THEN "embed" ELSE "return"
    BY <1>3 DEF Begin
  <2>2. UNCHANGED <<hc, tensor, il, k, step>>
    BY <1>3 DEF Begin
  <2>3. TwoStreams' /\ Counted'
    BY <1>00, <2>1, <2>2 DEF TwoStreams, Counted
  <2>4. CASE opened = TRUE
    BY <1>0, <2>1, <2>3, <2>4
  <2>5. CASE opened = FALSE
    BY <2>1, <2>3, <2>5 DEF Fresh, InLayer, InHead, LogitsReady
  <2> QED
    BY <2>4, <2>5
<1>4. CASE Embed
  <2>1. il' = 0 /\ k' = 1 /\ UNCHANGED <<hc, step>>
    BY <1>4 DEF Embed, EmbedOr
  <2>2. CASE ok' = TRUE /\ tensor' = [tensor EXCEPT ![hc["batch_cur_hc"]] = <<step, 0>>]
             /\ pc' = "layer"
    <3>1. TwoStreams' /\ Counted'
      BY <1>00, <2>1, <2>2 DEF TwoStreams, Counted
    <3>2. tensor'[hc["batch_cur_hc"]] = <<step, 0>>
      BY <1>00, <2>2 DEF TwoStreams, Tensors, HcFields
    <3>3. WrittenBefore(LayerKernels, k') = {}
      BY <2>1, WrittenGrows
    <3>4. Current(LayerKernels)'
      BY <2>1, <3>2, <3>3 DEF Current
    <3>5. InLayer'
      BY <2>1, <3>4 DEF InLayer
    <3> QED
      BY <2>2, <3>1, <3>5 DEF Fresh, InHead, LogitsReady
  <2>3. CASE ok' = FALSE /\ pc' = "end" /\ UNCHANGED tensor
    <3>1. TwoStreams' /\ Counted'
      BY <1>00, <2>1, <2>3 DEF TwoStreams, Counted
    <3> QED
      BY <2>3, <3>1 DEF Fresh, InLayer, InHead, LogitsReady
  <2> QED
    BY <1>4, <2>2, <2>3 DEF Embed, EmbedOr
<1>5. CASE LayerKernel
  <2>1. CASE Panic
    BY <2>1, PanicKeepsFresh
  <2>2. CASE WriteOut(LayerKernels[k]) /\ k' = k + 1 /\ UNCHANGED <<hc, pc, il, ok, step>>
    BY <1>5, <2>2, LayerKernelKeepsFresh DEF LayerKernel
  <2>3. CASE ok' = FALSE /\ UNCHANGED <<hc, pc, il, step, tensor, k>>
    <3>1. TwoStreams' /\ Counted'
      BY <1>00, <2>3 DEF TwoStreams, Counted
    <3>2. pc = "layer"
      BY <1>5 DEF LayerKernel
    <3>3. InLayer'
      BY <2>3, <3>2 DEF Fresh, InLayer
    <3> QED
      BY <2>3, <3>1, <3>2, <3>3 DEF Fresh, InHead, LogitsReady
  <2> QED
    BY <1>5, <2>1, <2>2, <2>3 DEF LayerKernel
<1>6. CASE EndLayer
  BY <1>6, EndLayerKeepsFresh
<1>7. CASE HeadKernel
  <2>1. CASE Panic
    BY <2>1, PanicKeepsFresh
  <2>2. CASE /\ WriteOut(HeadKernels[k])
             /\ IF k < Len(HeadKernels) THEN k' = k + 1 /\ UNCHANGED pc
                                        ELSE UNCHANGED k /\ pc' = "end"
             /\ UNCHANGED <<hc, il, ok, step>>
    BY <1>7, <2>2, HeadKernelKeepsFresh DEF HeadKernel
  <2>3. CASE ok' = FALSE /\ pc' = "end" /\ UNCHANGED <<hc, il, step, tensor, k>>
    <3>1. TwoStreams' /\ Counted'
      BY <1>00, <2>3 DEF TwoStreams, Counted
    <3> QED
      BY <2>3, <3>1 DEF Fresh, InLayer, InHead, LogitsReady
  <2> QED
    BY <1>7, <2>1, <2>2, <2>3 DEF HeadKernel
<1>8. CASE End
  <2>1. pc = "end" /\ pc' = "return" /\ Still
    BY <1>8 DEF End
  <2>2. TwoStreams' /\ Counted'
    BY <1>00, <2>1 DEF TwoStreams, Counted
  <2> QED
    BY <2>1, <2>2 DEF Fresh, InLayer, InHead, LogitsReady
<1>9. CASE Return
  <2>1. pc' = "idle" /\ Still
    BY <1>9 DEF Return, ReturnTo
  <2>2. TwoStreams' /\ Counted'
    BY <1>00, <2>1 DEF TwoStreams, Counted
  <2> QED
    BY <1>0, <2>1, <2>2
<1>10. CASE Drop
  <2>1. pc' = pc /\ pc = "idle" /\ Still
    BY <1>10 DEF Drop
  <2>2. TwoStreams' /\ Counted'
    BY <1>00, <2>1 DEF TwoStreams, Counted
  <2> QED
    BY <1>0, <2>1, <2>2
<1>11. CASE UNCHANGED vars
  BY <1>11 DEF vars, Fresh, TwoStreams, Counted, InLayer, InHead, LogitsReady, Current, At
<1> QED
  BY <1>1, <1>2, <1>3, <1>4, <1>5, <1>6, <1>7, <1>8, <1>9, <1>10, <1>11 DEF Next

\* What the invariant says of the operands of the kernel about to run.
LEMMA FreshOperands ==
    ASSUME Fresh
    PROVE  OperandsFresh
<1>1. ASSUME NEW ks, NEW f \in WrittenBefore(ks, k) \union {"batch_cur_hc"}, Current(ks),
             "batch_cur_hc" \notin WrittenBefore(ks, k)
      PROVE  tensor[At(f)] = Due(f)
  BY <1>1 DEF Current, Due, At, HcFields
<1>2. ASSUME pc = "layer", ok, k <= Len(LayerKernels),
             NEW f \in LayerKernels[k].in \ CacheFields
      PROVE  tensor[At(f)] = Due(f)
  <2>1. k \in 1..22 /\ Current(LayerKernels)
    BY <1>2, LayerParts DEF Fresh, InLayer
  <2>2. f \in WrittenBefore(LayerKernels, k) \union {"batch_cur_hc"}
    BY <1>2, <2>1, LayerOrdered
  <2>3. "batch_cur_hc" \notin WrittenBefore(LayerKernels, k)
    <3>1. \A j \in 1..22 : "batch_cur_hc" \notin LayerKernels[j].out
      BY KernelOutputs DEF Kept
    <3>2. \A j \in 1..(k - 1) : j \in 1..22
      BY <2>1
    <3> QED
      BY <3>1, <3>2 DEF WrittenBefore
  <2> QED
    BY <1>1, <2>1, <2>2, <2>3
<1>3. ASSUME pc = "head", NEW f \in HeadKernels[k].in
      PROVE  tensor[At(f)] = Due(f)
  <2>1. k \in 1..6 /\ Current(HeadKernels)
    BY <1>3 DEF Fresh, InHead
  <2>2. f \in WrittenBefore(HeadKernels, k) \union {"batch_cur_hc"}
    BY <1>3, <2>1, HeadOrdered
  <2>3. "batch_cur_hc" \notin WrittenBefore(HeadKernels, k)
    <3>1. \A j \in 1..6 : "batch_cur_hc" \notin HeadKernels[j].out
      BY KernelOutputs DEF Kept
    <3>2. \A j \in 1..(k - 1) : j \in 1..6
      BY <2>1
    <3> QED
      BY <3>1, <3>2 DEF WrittenBefore
  <2> QED
    BY <1>1, <2>1, <2>2, <2>3
<1>4. pc = "return" /\ ok => tensor["logits"] = <<step, LoopLayers + 1>>
  BY DEF Fresh, LogitsReady
<1> QED
  BY <1>2, <1>3, <1>4 DEF OperandsFresh

(* Apart from the raw cache, which no kernel writes, every kernel of
   encode_decode_layer and encode_output_head reads what this step wrote, for any
   number of layers, callers and steps, whatever kernels of the steps before
   failed or panicked, and the logits a step returns have gone through every
   layer of it. *)
THEOREM OperandsAlwaysFresh == Spec => []OperandsFresh
<1>1. Init => Fresh
  BY DEF Init, Fresh, TwoStreams, Counted, InLayer, InHead, LogitsReady, NewHc, HcFields, HcTensors
<1>2. Fresh /\ [Next]_vars => Fresh'
  BY StepKeepsFresh
<1>3. Fresh => OperandsFresh
  BY FreshOperands
<1> QED
  BY <1>1, <1>2, <1>3, PTL DEF Spec
=============================================================================

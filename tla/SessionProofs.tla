--------------------------- MODULE SessionProofs ---------------------------
(***************************************************************************)
(* Proofs about Session for every engine, every set of callers' inputs and *)
(* every bound: its state stays well formed, its cache holds no foreign    *)
(* row and its logits are a function of its tokens.                        *)
(***************************************************************************)
EXTENDS Session, FiniteSetTheorems, SequenceTheorems, TLAPS

(* What every private helper of the session leaves behind. *)
GoodLive(l) ==
    /\ l.checkpoint \in Seq(Tokens)
    /\ l.kv \in Seq(Row)
    /\ l.logits \in LogitsSet
    /\ RowsOfSuffix(l.checkpoint, l.kv)
    /\ AllDecodable(l.checkpoint) => Len(l.kv) = Len(l.checkpoint)
    /\ MatchesFresh(l.checkpoint, l.logits)

(* The snapshots that callers hold carry logits that match their tokens. *)
SavedOK == \A s \in saved : s.ctx # 0 /\ MatchesFresh(s.tokens, s.logits)

GenOK == gen.left = 0 => gen.out = <<>>

IInv ==
    /\ TypeOK
    /\ GoodLive(Live(checkpoint, transformer_kv, logits))
    /\ SavedOK
    /\ GenOK
    /\ OutputIsCheckpointSuffix

(* RowsAt yields one well-typed row per token. *)
LEMMA RowsAtType ==
    ASSUME NEW s \in Seq(Tokens), NEW n \in Nat
    PROVE  /\ RowsAt(s, n) \in Seq(Row)
           /\ Len(RowsAt(s, n)) = Len(s)
           /\ \A i \in 1..Len(s) : RowsAt(s, n)[i] = [tok |-> s[i], pos |-> n + i - 1]
<1>1. \A i \in 1..Len(s) : [tok |-> s[i], pos |-> n + i - 1] \in Row
  BY DEF Row
<1>2. RowsAt(s, n) \in [1..Len(s) -> Row]
  BY <1>1 DEF RowsAt
<1>3. RowsAt(s, n) \in Seq(Row)
  BY <1>2
<1>4. Len(RowsAt(s, n)) = Len(s)
  BY <1>2
<1> QED
  BY <1>3, <1>4 DEF RowsAt

(* The three constructors yield logits. *)
LEMMA LogitsType ==
    ASSUME NEW s \in Seq(Tokens), s # <<>>
    PROVE  /\ StubLogits(s) \in LogitsSet
           /\ InferLogits(s) \in LogitsSet
           /\ \A kv \in Seq(Row) : RefLogits(kv) \in LogitsSet
<1>1. StubLogits(s) \in LogitsSet
  BY RowsAtType DEF StubLogits, LogitsSet
<1>2. \A kv \in Seq(Row) : RefLogits(kv) \in LogitsSet
  BY DEF RefLogits, LogitsSet
<1>3. Len(s) - 1 \in Nat /\ Last(s) \in Tokens
  BY DEF Last
<1>4. <<Last(s)>> \in Seq(Tokens)
  BY <1>3
<1>5. RowsAt(<<Last(s)>>, Len(s) - 1) \in Seq(Row)
  BY <1>3, <1>4, RowsAtType
<1> QED
  BY <1>1, <1>2, <1>5 DEF InferLogits

(* rebuild_prompt_state leaves a good state with exactly the prompt. *)
LEMMA RebuildGood ==
    ASSUME NEW s \in Seq(Tokens)
    PROVE  /\ GoodLive(RebuildPromptState(s))
           /\ RebuildPromptState(s).checkpoint = s
<1>1. CASE s = <<>>
  <2>1. RebuildPromptState(s) = Live(<<>>, <<>>, ZeroLogits)
    BY <1>1 DEF RebuildPromptState
  <2>2. ZeroLogits \in LogitsSet
    BY DEF ZeroLogits, LogitsSet
  <2>3. <<>> \in Seq(Row) /\ <<>> \in Seq(Tokens)
    OBVIOUS
  <2>5. RowsOfSuffix(<<>>, <<>>)
    BY DEF RowsOfSuffix
  <2>6. RebuildPromptState(s).kv = <<>> /\ RebuildPromptState(s).checkpoint = <<>>
        /\ RebuildPromptState(s).logits = ZeroLogits
    BY <2>1 DEF Live
  <2>4. MatchesFresh(<<>>, ZeroLogits)
    BY DEF MatchesFresh
  <2> QED
    BY <1>1, <2>6, <2>2, <2>3, <2>4, <2>5 DEF GoodLive
<1>2. CASE s # <<>> /\ PrefillSucceeds(s)
  <2>1. RebuildPromptState(s) = Live(s, RowsAt(s, 0), RefLogits(RowsAt(s, 0)))
    BY <1>2 DEF RebuildPromptState
  <2>2. RefLogits(RowsAt(s, 0)) \in LogitsSet
    BY <1>2, LogitsType, RowsAtType
  <2>3. RowsOfSuffix(s, RowsAt(s, 0))
    BY RowsAtType DEF RowsOfSuffix
  <2>4. MatchesFresh(s, RefLogits(RowsAt(s, 0)))
    BY <2>1 DEF MatchesFresh, Live
  <2> QED
    BY <2>1, <2>2, <2>3, <2>4, RowsAtType DEF GoodLive, Live
<1>3. CASE s # <<>> /\ ~PrefillSucceeds(s)
  <2>1. RebuildPromptState(s) = Live(s, <<>>, InferLogits(s))
    BY <1>3 DEF RebuildPromptState
  <2>2. InferLogits(s) \in LogitsSet
    BY <1>3, LogitsType
  <2>3. ~AllDecodable(s)
    BY <1>3 DEF PrefillSucceeds, AllDecodable, Last
  <2>4. RowsOfSuffix(s, <<>>)
    BY DEF RowsOfSuffix
  <2>5. MatchesFresh(s, InferLogits(s))
    BY <2>1 DEF MatchesFresh, Live
  <2> QED
    BY <2>1, <2>2, <2>3, <2>4, <2>5 DEF GoodLive, Live
<1> QED
  BY <1>1, <1>2, <1>3

(* A state is good when its parts are. *)
LEMMA LiveGood ==
    ASSUME NEW s \in Seq(Tokens), NEW kv \in Seq(Row), NEW lg \in LogitsSet,
           RowsOfSuffix(s, kv),
           AllDecodable(s) => Len(kv) = Len(s),
           MatchesFresh(s, lg)
    PROVE  GoodLive(Live(s, kv, lg))
BY DEF GoodLive, Live

(* The parts of a good state. *)
LEMMA LiveParts ==
    ASSUME NEW s, NEW kv, NEW lg, GoodLive(Live(s, kv, lg))
    PROVE  /\ s \in Seq(Tokens) /\ kv \in Seq(Row) /\ lg \in LogitsSet
           /\ RowsOfSuffix(s, kv)
           /\ AllDecodable(s) => Len(kv) = Len(s)
           /\ MatchesFresh(s, lg)
BY DEF GoodLive, Live

(* An empty session is good with any logits, stale ones included. *)
LEMMA EmptyGood ==
    ASSUME NEW lg \in LogitsSet
    PROVE  GoodLive(Live(<<>>, <<>>, lg))
<1>1. <<>> \in Seq(Row) /\ <<>> \in Seq(Tokens)
  OBVIOUS
<1>2. RowsOfSuffix(<<>>, <<>>) /\ Len(<<>>) = Len(<<>>)
  BY DEF RowsOfSuffix
<1>3. MatchesFresh(<<>>, lg)
  BY DEF MatchesFresh
<1> QED
  BY <1>1, <1>2, <1>3, LiveGood

(* A cache that covers its tokens is the cache of a fresh prefill. *)
LEMMA FullCache ==
    ASSUME NEW s \in Seq(Tokens), NEW kv \in Seq(Row),
           RowsOfSuffix(s, kv), Len(kv) = Len(s)
    PROVE  kv = RowsAt(s, 0)
<1>1. /\ RowsAt(s, 0) \in Seq(Row)
      /\ Len(RowsAt(s, 0)) = Len(s)
      /\ \A i \in 1..Len(s) : RowsAt(s, 0)[i] = [tok |-> s[i], pos |-> 0 + i - 1]
  BY RowsAtType
<1>2. \A i \in 1..Len(kv) : kv[i] = [tok |-> s[i], pos |-> i - 1]
  BY DEF RowsOfSuffix
<1>3. ASSUME NEW i \in 1..Len(kv) PROVE kv[i] = RowsAt(s, 0)[i]
  <2>1. 0 + i - 1 = i - 1
    OBVIOUS
  <2> QED
    BY <1>1, <1>2, <2>1
<1>4. Len(kv) = Len(RowsAt(s, 0))
  BY <1>1
<1> QED
  BY <1>1, <1>3, <1>4, SeqEqual, Zenon

(* The incremental path: tokens u, the last of which decodes, are attempted *)
(* after the good state of s.                                               *)
LEMMA ExtendedGood ==
    ASSUME NEW s \in Seq(Tokens), NEW u \in Seq(Tokens), NEW kv \in Seq(Row),
           RowsOfSuffix(s, kv),
           AllDecodable(s) => Len(kv) = Len(s),
           PrefillSucceeds(u)
    PROVE  GoodLive(Live(s \o u, kv \o RowsAt(u, Len(s)),
                         RefLogits(kv \o RowsAt(u, Len(s)))))
<1> DEFINE t == s \o u
           r == RowsAt(u, Len(s))
           k == kv \o r
<1>1. u # <<>> /\ Len(u) >= 1 /\ u[Len(u)] \in Decodable
  BY DEF PrefillSucceeds, Last
<1>2. /\ r \in Seq(Row) /\ Len(r) = Len(u)
      /\ \A i \in 1..Len(u) : r[i] = [tok |-> u[i], pos |-> Len(s) + i - 1]
  BY RowsAtType
<1>3. /\ t \in Seq(Tokens) /\ Len(t) = Len(s) + Len(u)
      /\ \A i \in 1..Len(s) : t[i] = s[i]
      /\ \A i \in 1..Len(u) : t[Len(s) + i] = u[i]
  OBVIOUS
<1> HIDE DEF r
<1>4. /\ k \in Seq(Row) /\ Len(k) = Len(kv) + Len(u)
      /\ \A i \in 1..Len(kv) : k[i] = kv[i]
      /\ \A i \in 1..Len(u) : k[Len(kv) + i] = r[i]
  <2>1. r \in Seq(Row) /\ Len(r) = Len(u)
    BY <1>2
  <2>2. k \in Seq(Row) /\ Len(k) = Len(kv) + Len(r)
    BY <2>1, ConcatProperties, Zenon
  <2>3. \A i \in 1..Len(kv) : k[i] = kv[i]
    BY <2>1
  <2>4. \A i \in 1..Len(r) : k[Len(kv) + i] = r[i]
    BY <2>1
  <2> QED
    BY <2>1, <2>2, <2>3, <2>4
<1> HIDE DEF t, k
<1>5. RowsOfSuffix(t, k)
  <2> DEFINE skip == Len(s) - Len(kv)
  <2>1. skip \in Nat /\ Len(t) - Len(k) = skip
    BY <1>3, <1>4 DEF RowsOfSuffix
  <2>2. ASSUME NEW i \in 1..Len(k)
        PROVE  k[i] = [tok |-> t[skip + i], pos |-> skip + i - 1]
    <3>1. CASE i \in 1..Len(kv)
      <4>1. kv[i] = [tok |-> s[skip + i], pos |-> skip + i - 1]
        BY <3>1 DEF RowsOfSuffix
      <4>2. skip + i \in 1..Len(s)
        BY <2>1, <3>1
      <4> QED
        BY <1>3, <1>4, <3>1, <4>1, <4>2
    <3>2. CASE i \notin 1..Len(kv)
      <4> DEFINE j == i - Len(kv)
      <4>1. j \in 1..Len(u) /\ i = Len(kv) + j /\ skip + i = Len(s) + j
        BY <1>4, <3>2
      <4> HIDE DEF j, skip
      <4>2. k[i] = [tok |-> u[j], pos |-> Len(s) + j - 1]
        BY <1>2, <1>4, <4>1
      <4>4. Len(s) + j - 1 = skip + i - 1
        BY <2>1, <4>1
      <4>3. t[skip + i] = u[j]
        BY <1>3, <4>1
      <4> QED
        BY <4>2, <4>3, <4>4
    <3> QED
      BY <3>1, <3>2
  <2> QED
    BY <2>1, <2>2 DEF RowsOfSuffix
<1>6. AllDecodable(t) => Len(k) = Len(t)
  <2>1. AllDecodable(t) => AllDecodable(s)
    <3>1. ASSUME AllDecodable(t), NEW i \in 1..Len(s)
          PROVE  s[i] \in Decodable
      <4>1. i \in 1..Len(t)
        BY <1>3
      <4> QED
        BY <1>3, <3>1, <4>1 DEF AllDecodable
    <3> QED
      BY <3>1 DEF AllDecodable
  <2> QED
    BY <1>3, <1>4, <2>1
<1>7. MatchesFresh(t, RefLogits(k))
  <2>6. Len(u) \in 1..Len(u) /\ Len(s) \in Nat
    BY <1>1
  <2>7. t[Len(s) + Len(u)] = u[Len(u)]
    BY <1>3, <2>6
  <2>1. Len(s) + Len(u) \in 1..Len(t) /\ t[Len(s) + Len(u)] \in Decodable
    BY <1>1, <1>3, <2>6, <2>7
  <2>2. ~NoneDecodable(t)
    BY <2>1 DEF NoneDecodable
  <2>3. t # <<>> /\ PrefillSucceeds(t)
    BY <1>1, <1>3, <2>1 DEF PrefillSucceeds, Last
  <2>4. RebuildPromptState(t).logits = RefLogits(RowsAt(t, 0))
    BY <2>3 DEF RebuildPromptState, Live
  <2>5. AllDecodable(t) => k = RowsAt(t, 0)
    BY <1>3, <1>4, <1>5, <1>6, FullCache
  <2> QED
    BY <2>2, <2>4, <2>5 DEF MatchesFresh, Uniform
<1>8. RefLogits(k) \in LogitsSet
  BY <1>4 DEF RefLogits, LogitsSet
<1>9. GoodLive(Live(t, k, RefLogits(k)))
  BY <1>3, <1>4, <1>5, <1>6, <1>7, <1>8, LiveGood
<1> QED
  BY <1>9 DEF t, r, k

(* rehydrate_live_state leaves a good state; the logits it may keep only    *)
(* have to be right when the recomputation fails.                           *)
LEMMA RehydrateGood ==
    ASSUME NEW s \in Seq(Tokens), NEW lg \in LogitsSet,
           ~PrefillSucceeds(s) => MatchesFresh(s, lg)
    PROVE  /\ GoodLive(Rehydrate(s, lg))
           /\ Rehydrate(s, lg).checkpoint = s
<1> DEFINE kv == RowsAt(s, 0)
           l2 == IF PrefillSucceeds(s) THEN RefLogits(kv) ELSE lg
<1>1. kv \in Seq(Row) /\ Len(kv) = Len(s) /\ RowsOfSuffix(s, kv)
  BY RowsAtType DEF RowsOfSuffix
<1>2. l2 \in LogitsSet
  BY <1>1 DEF RefLogits, LogitsSet
<1>3. MatchesFresh(s, l2)
  <2>1. CASE PrefillSucceeds(s)
    BY <2>1 DEF MatchesFresh, RebuildPromptState, Live, PrefillSucceeds
  <2>2. CASE ~PrefillSucceeds(s)
    BY <2>2
  <2> QED
    BY <2>1, <2>2
<1>4. Rehydrate(s, lg) = Live(s, kv, l2)
  BY DEF Rehydrate
<1> HIDE DEF kv, l2
<1>5. GoodLive(Live(s, kv, l2))
  BY <1>1, <1>2, <1>3, LiveGood
<1> QED
  BY <1>4, <1>5 DEF Live

(* append_token_with_reference_fallback leaves a good state with the token  *)
(* appended, on the incremental path and on the fallback.                   *)
LEMMA AppendGood ==
    ASSUME GoodLive(Live(checkpoint, transformer_kv, logits)),
           NEW token \in Tokens
    PROVE  /\ GoodLive(AppendToken(token))
           /\ AppendToken(token).checkpoint = Append(checkpoint, token)
<1> DEFINE u   == <<token>>
           row == [tok |-> token, pos |-> Len(checkpoint)]
           kv  == Append(transformer_kv, row)
           nxt == Append(checkpoint, token)
<1>1. /\ checkpoint \in Seq(Tokens) /\ transformer_kv \in Seq(Row)
      /\ RowsOfSuffix(checkpoint, transformer_kv)
      /\ AllDecodable(checkpoint) => Len(transformer_kv) = Len(checkpoint)
  BY LiveParts
<1>2. nxt \in Seq(Tokens) /\ nxt = checkpoint \o u /\ u \in Seq(Tokens)
  BY <1>1
<1>3. CASE token \in Decodable
  <2>1. PrefillSucceeds(u)
    BY <1>3 DEF PrefillSucceeds, Last
  <2>2. Len(checkpoint) + 1 - 1 = Len(checkpoint) /\ Len(checkpoint) \in Nat
    BY <1>1
  <2>3. RowsAt(u, Len(checkpoint)) = <<row>>
    BY <2>2 DEF RowsAt
  <2>4. row \in Row
    BY <2>2 DEF Row
  <2>5. kv = transformer_kv \o <<row>>
    BY <1>1, <2>4
  <2>6. AppendToken(token) = Live(nxt, kv, RefLogits(kv))
    BY <1>3 DEF AppendToken
  <2>7. GoodLive(Live(checkpoint \o u, transformer_kv \o RowsAt(u, Len(checkpoint)),
                      RefLogits(transformer_kv \o RowsAt(u, Len(checkpoint)))))
    BY <1>1, <1>2, <2>1, ExtendedGood
  <2>8. AppendToken(token).checkpoint = nxt
    BY <2>6 DEF Live
  <2> HIDE DEF u, row, kv, nxt
  <2>9. GoodLive(AppendToken(token))
    BY <1>2, <2>3, <2>5, <2>6, <2>7
  <2> QED
    BY <2>8, <2>9 DEF nxt
<1>4. CASE token \notin Decodable
  <2>1. AppendToken(token) = RebuildPromptState(nxt)
    BY <1>4 DEF AppendToken
  <2> QED
    BY <1>2, <2>1, RebuildGood
<1> QED
  BY <1>3, <1>4

(* A full common prefix means the checkpoint is a prefix of the prompt. *)
LEMMA FullCommonPrefix ==
    ASSUME NEW s \in Seq(Tokens), NEW t \in Seq(Tokens),
           CommonPrefixLen(s, t) = Len(s)
    PROVE  Len(s) <= Len(t) /\ \A i \in 1..Len(s) : s[i] = t[i]
<1> DEFINE P == {n \in 1..Len(s) : n <= Len(t) /\ \A i \in 1..n : s[i] = t[i]}
<1>1. Len(s) \in Nat
  OBVIOUS
<1>2. IsFiniteSet(1..Len(s)) /\ Cardinality(1..Len(s)) = Len(s)
  <2>1. /\ IsFiniteSet(1..Len(s))
        /\ Cardinality(1..Len(s)) = IF 1 > Len(s) THEN 0 ELSE Len(s) - 1 + 1
    <3>1. 1 \in Int /\ Len(s) \in Int
      BY <1>1
    <3> QED
      BY <3>1, FS_Interval, Zenon
  <2> QED
    BY <1>1, <2>1
<1>3. P \subseteq 1..Len(s) /\ Cardinality(P) = Len(s)
  BY DEF CommonPrefixLen
<1>4. P = 1..Len(s)
  <2> HIDE DEF P
  <2> QED
    BY <1>2, <1>3, FS_Subset
<1>5. CASE Len(s) = 0
  BY <1>5
<1>6. CASE Len(s) # 0
  <2>1. Len(s) \in 1..Len(s)
    BY <1>1, <1>6
  <2> QED
    BY <1>4, <2>1
<1> QED
  BY <1>5, <1>6

(* prefill leaves a good state with exactly the prompt, on every path. *)
LEMMA PrefillGood ==
    ASSUME GoodLive(Live(checkpoint, transformer_kv, logits)),
           NEW prompt \in Seq(Tokens)
    PROVE  /\ GoodLive(PrefillState(prompt))
           /\ PrefillState(prompt).checkpoint = prompt
<1> DEFINE common  == CommonPrefixLen(checkpoint, prompt)
           rebuilt == common # Len(checkpoint)
           cached  == IF rebuilt THEN 0 ELSE common
           suffix  == SubSeq(prompt, cached + 1, Len(prompt))
<1>1. /\ checkpoint \in Seq(Tokens) /\ transformer_kv \in Seq(Row)
      /\ logits \in LogitsSet
      /\ RowsOfSuffix(checkpoint, transformer_kv)
      /\ AllDecodable(checkpoint) => Len(transformer_kv) = Len(checkpoint)
  BY LiveParts
<1>2. ~rebuilt => /\ cached = Len(checkpoint)
                  /\ Len(checkpoint) <= Len(prompt)
                  /\ \A i \in 1..Len(checkpoint) : checkpoint[i] = prompt[i]
  BY <1>1, FullCommonPrefix
<1>3. CASE Len(prompt) = cached /\ ~rebuilt
  <2>1. PrefillState(prompt) = Live(checkpoint, transformer_kv, logits)
    BY <1>3 DEF PrefillState
  <2>2. checkpoint = prompt
    BY <1>1, <1>2, <1>3, SeqEqual
  <2> QED
    BY <2>1, <2>2 DEF Live
<1>4. CASE Len(prompt) = cached /\ rebuilt
  <2>1. PrefillState(prompt) = Live(<<>>, <<>>, logits)
    BY <1>4 DEF PrefillState
  <2>2. prompt = <<>>
    BY <1>4
  <2> QED
    BY <1>1, <2>1, <2>2, EmptyGood DEF Live
<1>5. CASE Len(prompt) # cached /\ cached = 0
  <2>1. PrefillState(prompt) = RebuildPromptState(prompt)
    BY <1>5 DEF PrefillState
  <2> QED
    BY <2>1, RebuildGood
<1>6. CASE Len(prompt) # cached /\ cached # 0
  <2>1. ~rebuilt /\ cached = Len(checkpoint)
    BY <1>2, <1>6
  <2>2. PrefillState(prompt) = ExtendLiveSuffix(prompt, cached)
    BY <1>6 DEF PrefillState
  <2>3. suffix \in Seq(Tokens) /\ prompt = checkpoint \o suffix
    <3> DEFINE n == Len(checkpoint)
    <3>1. n \in Nat /\ n < Len(prompt) /\ suffix = SubSeq(prompt, n + 1, Len(prompt))
      BY <1>1, <1>2, <1>6, <2>1
    <3>2. /\ suffix \in Seq(Tokens) /\ Len(suffix) = Len(prompt) - n
          /\ \A i \in 1..Len(prompt) - n : suffix[i] = prompt[n + i]
      BY <3>1
    <3> HIDE DEF suffix
    <3>3. checkpoint \o suffix \in Seq(Tokens) /\ Len(checkpoint \o suffix) = Len(prompt)
      BY <1>1, <3>1, <3>2
    <3>4. ASSUME NEW i \in 1..Len(prompt) PROVE prompt[i] = (checkpoint \o suffix)[i]
      <4>1. CASE i <= n
        BY <1>1, <1>2, <2>1, <3>2, <4>1
      <4>2. CASE ~(i <= n)
        <5>1. i - n \in 1..Len(prompt) - n /\ n + (i - n) = i
          BY <3>1, <4>2
        <5>2. suffix[i - n] = prompt[i]
          BY <3>2, <5>1
        <5>3. (checkpoint \o suffix)[i] = suffix[i - n]
          BY <1>1, <3>1, <3>2, <4>2
        <5> QED
          BY <5>2, <5>3
      <4> QED
        BY <4>1, <4>2
    <3> QED
      BY <3>2, <3>3, <3>4, SeqEqual
  <2>4. CASE PrefillSucceeds(suffix)
    <3>1. ExtendLiveSuffix(prompt, cached)
            = Live(prompt, transformer_kv \o RowsAt(suffix, cached),
                   RefLogits(transformer_kv \o RowsAt(suffix, cached)))
      BY <2>4 DEF ExtendLiveSuffix
    <3> HIDE DEF suffix, cached
    <3>2. GoodLive(Live(checkpoint \o suffix,
                        transformer_kv \o RowsAt(suffix, Len(checkpoint)),
                        RefLogits(transformer_kv \o RowsAt(suffix, Len(checkpoint)))))
      BY <1>1, <2>3, <2>4, ExtendedGood
    <3> QED
      BY <2>1, <2>2, <2>3, <3>1, <3>2 DEF Live
  <2>5. CASE ~PrefillSucceeds(suffix)
    <3>1. ExtendLiveSuffix(prompt, cached) = RebuildPromptState(prompt)
      BY <2>5 DEF ExtendLiveSuffix
    <3> QED
      BY <2>2, <3>1, RebuildGood
  <2> QED
    BY <2>4, <2>5
<1> QED
  BY <1>3, <1>4, <1>5, <1>6

-----------------------------------------------------------------------------
(* The inductive step, one lemma for the operations that set the live state *)
(* and one case per action.                                                 *)

(* A good state assigned to the session's fields leaves them good. *)
LEMMA SetLiveGood ==
    ASSUME NEW l, GoodLive(l), SetLive(l)
    PROVE  /\ checkpoint' \in Seq(Tokens)
           /\ transformer_kv' \in Seq(Row)
           /\ logits' \in LogitsSet
           /\ GoodLive(Live(checkpoint, transformer_kv, logits))'
           /\ checkpoint' = l.checkpoint
<1>1. /\ checkpoint' \in Seq(Tokens) /\ transformer_kv' \in Seq(Row)
      /\ logits' \in LogitsSet
      /\ RowsOfSuffix(checkpoint', transformer_kv')
      /\ AllDecodable(checkpoint') => Len(transformer_kv') = Len(checkpoint')
      /\ MatchesFresh(checkpoint', logits')
  BY DEF SetLive, GoodLive
<1>2. GoodLive(Live(checkpoint', transformer_kv', logits'))
  BY <1>1, LiveGood
<1> QED
  BY <1>1, <1>2 DEF SetLive

(* While no generate call runs, its output is empty and stays so. *)
LEMMA IdleOutput ==
    ASSUME TypeOK, GenOK, Idle, gen' = gen, checkpoint' \in Seq(Tokens)
    PROVE  GenOK' /\ OutputIsCheckpointSuffix'
<1>1. gen'.left = 0 /\ gen'.out = <<>>
  BY DEF GenOK, Idle
<1>2. GenOK'
  BY <1>1 DEF GenOK
<1>3. Len(gen'.out) = 0
  BY <1>1
<1>4. OutputIsCheckpointSuffix'
  BY <1>3 DEF OutputIsCheckpointSuffix, TailOf
<1> QED
  BY <1>2, <1>4

(* An operation outside generate that sets a good live state. *)
LEMMA LiveStep ==
    ASSUME IInv, NEW l, GoodLive(l), SetLive(l), Idle,
           ctx_size' \in Nat \ {0}, prefill_boundary' \in Nat,
           UNCHANGED <<saved, gen>>
    PROVE  IInv'
<1>1. /\ checkpoint' \in Seq(Tokens)
      /\ transformer_kv' \in Seq(Row)
      /\ logits' \in LogitsSet
      /\ GoodLive(Live(checkpoint, transformer_kv, logits))'
  BY SetLiveGood
<1>2. TypeOK'
  BY <1>1 DEF IInv, TypeOK
<1>3. SavedOK'
  BY DEF IInv, SavedOK
<1>4. GenOK' /\ OutputIsCheckpointSuffix'
  BY <1>1, IdleOutput DEF IInv
<1> QED
  BY <1>1, <1>2, <1>3, <1>4 DEF IInv

(* Appending the same token to a sequence and to its end. *)
LEMMA AppendTail ==
    ASSUME NEW o \in Seq(Tokens), NEW c \in Seq(Tokens), NEW t \in Tokens,
           TailOf(o, c)
    PROVE  TailOf(Append(o, t), Append(c, t))
<1> DEFINE n  == Len(o)
           m  == Len(c)
           o2 == Append(o, t)
           c2 == Append(c, t)
<1>1. /\ n \in Nat /\ m \in Nat /\ n <= m
      /\ \A i \in 1..n : o[i] = c[m - n + i]
  BY DEF TailOf
<1>2. /\ Len(o2) = n + 1 /\ Len(c2) = m + 1
      /\ \A i \in 1..n : o2[i] = o[i]
      /\ \A i \in 1..m : c2[i] = c[i]
      /\ o2[n + 1] = t /\ c2[m + 1] = t
  BY AppendProperties
<1> HIDE DEF n, m, o2, c2
<1>3. ASSUME NEW i \in 1..n + 1
      PROVE  o2[i] = c2[(m + 1) - (n + 1) + i]
  <2>1. CASE i <= n
    <3>1. i \in 1..n /\ m - n + i \in 1..m /\ (m + 1) - (n + 1) + i = m - n + i
      BY <1>1, <2>1
    <3> QED
      BY <1>1, <1>2, <3>1
  <2>2. CASE ~(i <= n)
    <3>1. i = n + 1 /\ (m + 1) - (n + 1) + i = m + 1
      BY <1>1, <2>2
    <3> QED
      BY <1>2, <3>1
  <2> QED
    BY <2>1, <2>2
<1>4. TailOf(o2, c2)
  BY <1>1, <1>2, <1>3 DEF TailOf
<1> QED
  BY <1>4 DEF o2, c2

(* One turn of the generate loop. *)
LEMMA GenerateStepGood ==
    ASSUME IInv, NEW token \in Tokens, GenerateStep(token)
    PROVE  IInv'
<1>1. GoodLive(AppendToken(token)) /\ SetLive(AppendToken(token))
      /\ AppendToken(token).checkpoint = Append(checkpoint, token)
  BY AppendGood DEF IInv, GenerateStep
<1>2. /\ checkpoint' \in Seq(Tokens)
      /\ transformer_kv' \in Seq(Row)
      /\ logits' \in LogitsSet
      /\ GoodLive(Live(checkpoint, transformer_kv, logits))'
      /\ checkpoint' = Append(checkpoint, token)
  BY <1>1, SetLiveGood
<1>3. checkpoint \in Seq(Tokens) /\ gen.out \in Seq(Tokens) /\ gen.left \in Nat
  BY DEF IInv, TypeOK
<1>4. SavedOK'
  BY DEF IInv, SavedOK, GenerateStep
<1>5. CASE gen.left = 1
  <2>1. gen' = NoGen
    BY <1>5 DEF GenerateStep
  <2>2. gen'.left = 0 /\ gen'.out = <<>> /\ gen' \in [left : Nat, out : Seq(Tokens)]
    BY <2>1 DEF NoGen
  <2>3. TypeOK'
    BY <1>2, <2>2 DEF IInv, TypeOK, GenerateStep
  <2>4. Len(gen'.out) = 0
    BY <2>2
  <2>5. GenOK' /\ OutputIsCheckpointSuffix'
    BY <1>2, <2>2, <2>4 DEF GenOK, OutputIsCheckpointSuffix, TailOf
  <2> QED
    BY <1>2, <1>4, <2>3, <2>5 DEF IInv
<1>6. CASE gen.left # 1
  <2>1. gen' = [left |-> gen.left - 1, out |-> Append(gen.out, token)]
    BY <1>6 DEF GenerateStep
  <2>2. gen.left # 0
    BY DEF GenerateStep, Idle
  <2>3. gen'.left # 0 /\ gen'.left \in Nat /\ gen'.out = Append(gen.out, token)
    BY <1>3, <1>6, <2>1, <2>2
  <2>4. gen' \in [left : Nat, out : Seq(Tokens)]
    BY <1>3, <2>1, <2>3
  <2>5. TypeOK'
    BY <1>2, <2>4 DEF IInv, TypeOK, GenerateStep
  <2>6. GenOK'
    BY <2>3 DEF GenOK
  <2>7. OutputIsCheckpointSuffix'
    <3>1. TailOf(gen.out, checkpoint)
      BY DEF IInv, OutputIsCheckpointSuffix
    <3>2. TailOf(Append(gen.out, token), Append(checkpoint, token))
      BY <1>3, <3>1, AppendTail
    <3> QED
      BY <1>2, <2>3, <3>2 DEF OutputIsCheckpointSuffix
  <2> QED
    BY <1>2, <1>4, <2>5, <2>6, <2>7 DEF IInv
<1> QED
  BY <1>5, <1>6

(* A new session satisfies the inductive invariant. *)
LEMMA InitIInv == Init => IInv
<1> SUFFICES ASSUME Init PROVE IInv
  OBVIOUS
<1>1. CreateLogits \in LogitsSet
  BY DEF CreateLogits, LogitsSet
<1>2. TypeOK
  BY <1>1, CallerAssumption DEF Init, TypeOK, NoGen
<1>3. GoodLive(Live(checkpoint, transformer_kv, logits))
  BY <1>1, EmptyGood DEF Init
<1>4. SavedOK /\ GenOK
  BY DEF Init, SavedOK, GenOK, NoGen
<1>5. gen.out = <<>> /\ checkpoint = <<>>
  BY DEF Init, NoGen
<1>6. OutputIsCheckpointSuffix
  BY <1>5 DEF OutputIsCheckpointSuffix, TailOf
<1> QED
  BY <1>2, <1>3, <1>4, <1>6 DEF IInv

(* Every operation of session.rs preserves the inductive invariant. *)
LEMMA NextIInv == IInv /\ [Next]_vars => IInv'
<1> SUFFICES ASSUME IInv, [Next]_vars PROVE IInv'
  OBVIOUS
<1>0. /\ TypeOK /\ SavedOK /\ GenOK /\ OutputIsCheckpointSuffix
      /\ GoodLive(Live(checkpoint, transformer_kv, logits))
  BY DEF IInv
<1>a. /\ ctx_size \in Nat \ {0} /\ prefill_boundary \in Nat
      /\ checkpoint \in Seq(Tokens) /\ logits \in LogitsSet
  BY <1>0 DEF TypeOK
<1>1. ASSUME NEW ctx \in CtxSizes, Create(ctx) PROVE IInv'
  <2>1. CreateLogits \in LogitsSet
    BY DEF CreateLogits, LogitsSet
  <2>2. GoodLive(Live(<<>>, <<>>, CreateLogits))
    BY <2>1, EmptyGood
  <2>3. ctx \in Nat \ {0}
    BY CallerAssumption
  <2> QED
    BY <1>1, <2>2, <2>3, LiveStep DEF Create
<1>2. ASSUME NEW b \in Boundaries, SetPrefillBoundary(b) PROVE IInv'
  <2>1. b \in Nat
    BY CallerAssumption
  <2>2. TypeOK'
    BY <1>0, <1>2, <2>1 DEF TypeOK, SetPrefillBoundary
  <2> QED
    BY <1>0, <1>2, <2>2
    DEF IInv, SavedOK, GenOK, OutputIsCheckpointSuffix, SetPrefillBoundary
<1>3. ASSUME NEW prompt \in Prompts, Prefill(prompt) PROVE IInv'
  <2>1. prompt \in Seq(Tokens)
    BY CallerAssumption
  <2>2. GoodLive(PrefillState(prompt))
    BY <1>0, <2>1, PrefillGood
  <2> QED
    BY <1>3, <1>a, <2>2, LiveStep DEF Prefill
<1>4. ASSUME NEW token \in Tokens, DecodeNext(token) PROVE IInv'
  <2>1. GoodLive(AppendToken(token))
    BY <1>0, AppendGood
  <2> QED
    BY <1>4, <1>a, <2>1, LiveStep DEF DecodeNext
<1>5. ASSUME NEW pos \in 0..Len(checkpoint), Rewind(pos) PROVE IInv'
  <2>1. SubSeq(checkpoint, 1, pos) \in Seq(Tokens)
    BY <1>a
  <2>2. GoodLive(RebuildPromptState(SubSeq(checkpoint, 1, pos)))
    BY <2>1, RebuildGood
  <2> QED
    BY <1>5, <1>a, <2>2, LiveStep DEF Rewind
<1>6. ASSUME Invalidate PROVE IInv'
  <2>1. GoodLive(Live(<<>>, <<>>, logits))
    BY <1>a, EmptyGood
  <2> QED
    BY <1>6, <1>a, <2>1, LiveStep DEF Invalidate
<1>7. ASSUME SaveSnapshot PROVE IInv'
  <2> DEFINE snap == [ctx |-> ctx_size, boundary |-> prefill_boundary,
                      tokens |-> checkpoint, logits |-> logits]
  <2>1. snap \in Snapshot
    BY <1>a DEF Snapshot
  <2>2. snap.ctx # 0 /\ MatchesFresh(snap.tokens, snap.logits)
    BY <1>0, <1>a, LiveParts
  <2>3. saved' = saved \union {snap}
    BY <1>7 DEF SaveSnapshot
  <2> HIDE DEF snap
  <2>4. TypeOK'
    BY <1>0, <1>7, <2>1, <2>3 DEF TypeOK, SaveSnapshot
  <2>5. SavedOK'
    BY <1>0, <2>2, <2>3 DEF SavedOK
  <2> QED
    BY <1>0, <1>7, <2>4, <2>5
    DEF IInv, GenOK, OutputIsCheckpointSuffix, SaveSnapshot
<1>8. ASSUME NEW s \in saved, DropSnapshot(s) PROVE IInv'
  <2>1. TypeOK'
    BY <1>0, <1>8 DEF TypeOK, DropSnapshot
  <2>2. SavedOK'
    BY <1>0, <1>8 DEF SavedOK, DropSnapshot
  <2> QED
    BY <1>0, <1>8, <2>1, <2>2
    DEF IInv, GenOK, OutputIsCheckpointSuffix, DropSnapshot
<1>9. ASSUME NEW s \in saved, LoadSnapshot(s) PROVE IInv'
  <2>1. s \in Snapshot /\ s.ctx # 0 /\ MatchesFresh(s.tokens, s.logits)
    BY <1>0 DEF TypeOK, SavedOK
  <2>2. /\ s.ctx \in Nat \ {0} /\ s.boundary \in Nat
        /\ s.tokens \in Seq(Tokens) /\ s.logits \in LogitsSet
    BY <2>1 DEF Snapshot
  <2>3. GoodLive(Rehydrate(s.tokens, s.logits))
    BY <2>1, <2>2, RehydrateGood
  <2> QED
    BY <1>9, <2>2, <2>3, LiveStep DEF LoadSnapshot
<1>10. ASSUME NEW s \in RawPayloads, LoadRaw(s) PROVE IInv'
  <2> DEFINE lg == IF s = <<>> THEN ZeroLogits ELSE InferLogits(s)
  <2>1. s \in Seq(Tokens)
    BY CallerAssumption
  <2>2. ZeroLogits \in LogitsSet
    BY DEF ZeroLogits, LogitsSet
  <2>3. lg \in LogitsSet
    BY <2>1, <2>2, LogitsType
  <2>4. ~PrefillSucceeds(s) => MatchesFresh(s, lg)
    BY DEF MatchesFresh, RebuildPromptState, Live
  <2> HIDE DEF lg
  <2>5. GoodLive(Rehydrate(s, lg))
    BY <2>1, <2>3, <2>4, RehydrateGood
  <2>6. SetLive(Rehydrate(s, lg))
    BY <1>10 DEF LoadRaw, lg
  <2> QED
    BY <1>10, <1>a, <2>5, <2>6, LiveStep DEF LoadRaw
<1>11. ASSUME NEW n \in 1..MaxGen, GenerateBegin(n) PROVE IInv'
  <2>1. gen' = [left |-> n, out |-> <<>>] /\ n \in Nat /\ n # 0
    BY <1>11, CallerAssumption DEF GenerateBegin
  <2>2. TypeOK'
    BY <1>0, <1>11, <2>1 DEF TypeOK, GenerateBegin
  <2>3. gen'.out = <<>> /\ gen'.left # 0 /\ Len(gen'.out) = 0
    BY <2>1
  <2>4. GenOK' /\ OutputIsCheckpointSuffix'
    BY <1>11, <1>a, <2>3 DEF GenOK, OutputIsCheckpointSuffix, TailOf, GenerateBegin
  <2> QED
    BY <1>0, <1>11, <2>2, <2>4 DEF IInv, SavedOK, GenerateBegin
<1>12. ASSUME NEW token \in Tokens, GenerateStep(token) PROVE IInv'
  BY <1>12, GenerateStepGood
<1>13. ASSUME GenerateErr PROVE IInv'
  <2>1. gen'.left = 0 /\ gen'.out = <<>> /\ Len(gen'.out) = 0
        /\ gen' \in [left : Nat, out : Seq(Tokens)]
    BY <1>13 DEF GenerateErr, NoGen
  <2>2. TypeOK'
    BY <1>0, <1>13, <2>1 DEF TypeOK, GenerateErr
  <2>3. GenOK' /\ OutputIsCheckpointSuffix'
    BY <1>13, <1>a, <2>1 DEF GenOK, OutputIsCheckpointSuffix, TailOf, GenerateErr
  <2> QED
    BY <1>0, <1>13, <2>2, <2>3 DEF IInv, SavedOK, GenerateErr
<1>14. ASSUME UNCHANGED vars PROVE IInv'
  BY <1>0, <1>14
  DEF IInv, TypeOK, SavedOK, GenOK, OutputIsCheckpointSuffix, vars
<1> QED
  BY <1>1, <1>2, <1>3, <1>4, <1>5, <1>6, <1>7, <1>8, <1>9, <1>10, <1>11,
     <1>12, <1>13, <1>14
  DEF Next, Generate

(* The inductive invariant holds in every reachable state. *)
THEOREM SessionInvariant == Spec => []IInv
BY InitIInv, NextIInv, PTL DEF Spec

(* Every reachable session state is well formed: session.rs never mixes up  *)
(* the parts of its state, whatever its callers do.                         *)
THEOREM TypeCorrect == Spec => []TypeOK
<1>1. IInv => TypeOK
  BY DEF IInv
<1> QED
  BY <1>1, SessionInvariant, PTL

(* The live cache never holds a row that does not belong to the tokens of   *)
(* the session, for any engine and any failing tokens.                      *)
THEOREM CacheHasNoForeignRows == Spec => []NoForeignRows
<1>1. IInv => NoForeignRows
  BY LiveParts DEF IInv, NoForeignRows
<1> QED
  BY <1>1, SessionInvariant, PTL

(* While every token decodes, the cache has a row for each token.           *)
THEOREM CacheIsComplete == Spec => []CacheCoversCheckpoint
<1>1. IInv => CacheCoversCheckpoint
  BY LiveParts DEF IInv, CacheCoversCheckpoint
<1> QED
  BY <1>1, SessionInvariant, PTL

(* The logits of the session and of its snapshots are those of a fresh      *)
(* prefill: rewind, restore and incremental decode agree.                   *)
THEOREM SessionHistoryIndependent == Spec => []HistoryIndependent
<1>1. IInv => HistoryIndependent
  BY LiveParts DEF IInv, HistoryIndependent, SavedOK
<1> QED
  BY <1>1, SessionInvariant, PTL

(* What a generate call has collected is the end of the checkpoint.         *)
THEOREM GeneratedTokensRecorded == Spec => []OutputIsCheckpointSuffix
<1>1. IInv => OutputIsCheckpointSuffix
  BY DEF IInv
<1> QED
  BY <1>1, SessionInvariant, PTL

-----------------------------------------------------------------------------
(* The context limit.  A load replaces the limit together with the tokens, *)
(* so the bound must hold of every snapshot as well.                        *)

RawFits == \A p \in RawPayloads, c \in CtxSizes : Len(p) < c

CtxInv ==
    /\ ctx_size \in CtxSizes
    /\ Len(checkpoint) < ctx_size
    /\ \A s \in saved : s.ctx \in CtxSizes /\ Len(s.tokens) < s.ctx

(* Every operation keeps the checkpoint below the limit it leaves in force. *)
LEMMA NextCtxInv ==
    ASSUME RawFits
    PROVE  IInv /\ CtxInv /\ [Next]_vars => CtxInv'
<1> SUFFICES ASSUME IInv, CtxInv, [Next]_vars PROVE CtxInv'
  OBVIOUS
<1>0. /\ checkpoint \in Seq(Tokens) /\ ctx_size \in Nat /\ ctx_size \in CtxSizes
      /\ Len(checkpoint) < ctx_size
      /\ GoodLive(Live(checkpoint, transformer_kv, logits))
  BY DEF IInv, TypeOK, CtxInv
<1>1. ASSUME NEW l, SetLive(l), l.checkpoint \in Seq(Tokens),
             ctx_size' = ctx_size, saved' = saved, Len(l.checkpoint) < ctx_size
      PROVE  CtxInv'
  BY <1>1 DEF CtxInv, SetLive
<1>2. ASSUME NEW ctx \in CtxSizes, Create(ctx) PROVE CtxInv'
  <2>1. checkpoint' = <<>> /\ ctx_size' = ctx /\ saved' = saved
    BY <1>2 DEF Create, SetLive, Live
  <2>2. ctx \in Nat \ {0}
    BY CallerAssumption
  <2>3. Len(checkpoint') = 0
    BY <2>1
  <2> QED
    BY <2>1, <2>2, <2>3 DEF CtxInv
<1>3. ASSUME NEW prompt \in Prompts, Prefill(prompt) PROVE CtxInv'
  <2>1. prompt \in Seq(Tokens)
    BY CallerAssumption
  <2>2. PrefillState(prompt).checkpoint = prompt
    BY <1>0, <2>1, PrefillGood
  <2> QED
    BY <1>1, <1>3, <2>1, <2>2 DEF Prefill
<1>4. ASSUME NEW token \in Tokens, DecodeNext(token) \/ GenerateStep(token)
      PROVE  CtxInv'
  <2>1. AppendToken(token).checkpoint = Append(checkpoint, token)
    BY <1>0, AppendGood
  <2>2. /\ Append(checkpoint, token) \in Seq(Tokens)
        /\ Len(Append(checkpoint, token)) = Len(checkpoint) + 1
    BY <1>0
  <2> QED
    BY <1>1, <1>4, <2>1, <2>2 DEF DecodeNext, GenerateStep
<1>5. ASSUME NEW pos \in 0..Len(checkpoint), Rewind(pos) PROVE CtxInv'
  <2> DEFINE t == SubSeq(checkpoint, 1, pos)
  <2>1. t \in Seq(Tokens) /\ Len(t) = pos /\ pos \in Nat /\ pos <= Len(checkpoint)
    BY <1>0
  <2> HIDE DEF t
  <2>2. RebuildPromptState(t).checkpoint = t
    BY <2>1, RebuildGood
  <2>3. Len(t) < ctx_size
    BY <1>0, <2>1
  <2>4. /\ SetLive(RebuildPromptState(t))
        /\ ctx_size' = ctx_size /\ saved' = saved
    BY <1>5 DEF Rewind, t
  <2> QED
    BY <1>1, <2>1, <2>2, <2>3, <2>4
<1>6. ASSUME Invalidate PROVE CtxInv'
  <2>1. checkpoint' = <<>> /\ ctx_size' = ctx_size /\ saved' = saved
    BY <1>6 DEF Invalidate, SetLive, Live
  <2>2. Len(checkpoint') = 0 /\ 0 < ctx_size
    BY <1>0, <2>1
  <2> QED
    BY <2>1, <2>2 DEF CtxInv
<1>7. ASSUME SaveSnapshot PROVE CtxInv'
  BY <1>0, <1>7 DEF CtxInv, SaveSnapshot
<1>8. ASSUME NEW s \in saved, DropSnapshot(s) PROVE CtxInv'
  BY <1>8 DEF CtxInv, DropSnapshot
<1>9. ASSUME NEW s \in saved, LoadSnapshot(s) PROVE CtxInv'
  BY <1>9 DEF CtxInv, LoadSnapshot, SetLive, Rehydrate, Live
<1>10. ASSUME NEW s \in RawPayloads, LoadRaw(s) PROVE CtxInv'
  <2>1. Len(s) < ctx_size
    BY <1>0 DEF RawFits
  <2> QED
    BY <1>10, <2>1 DEF CtxInv, LoadRaw, SetLive, Rehydrate, Live
<1>11. ASSUME \/ \E b \in Boundaries : SetPrefillBoundary(b)
              \/ \E n \in 1..MaxGen : GenerateBegin(n)
              \/ GenerateErr
              \/ UNCHANGED vars
       PROVE  CtxInv'
  <2>1. UNCHANGED <<ctx_size, checkpoint, saved>>
    BY <1>11 DEF SetPrefillBoundary, GenerateBegin, GenerateErr, vars
  <2> QED
    BY <2>1 DEF CtxInv
<1> QED
  BY <1>2, <1>3, <1>4, <1>5, <1>6, <1>7, <1>8, <1>9, <1>10, <1>11
  DEF Next, Generate

(* No order of syncs, decodes and loads brings the checkpoint to the        *)
(* context limit, provided legacy payloads, whose length load_snapshot does *)
(* not check, are short enough.                                             *)
THEOREM ContextLimitHolds ==
    ASSUME RawFits
    PROVE  Spec => []CheckpointWithinCtx
<1>1. Init => CtxInv
  <2> SUFFICES ASSUME Init PROVE CtxInv
    OBVIOUS
  <2>1. ctx_size \in Nat \ {0} /\ Len(checkpoint) = 0 /\ saved = {}
    BY CallerAssumption DEF Init
  <2> QED
    BY <2>1 DEF CtxInv, Init
<1>2. IInv /\ CtxInv /\ [Next]_vars => CtxInv'
  BY NextCtxInv
<1>3. CtxInv => CheckpointWithinCtx
  BY DEF CtxInv, CheckpointWithinCtx
<1> QED
  BY <1>1, <1>2, <1>3, SessionInvariant, PTL DEF Spec

-----------------------------------------------------------------------------
(* The promise of TokenSession.                                            *)

(* A fresh prefill gives the logits that the tokens determine. *)
LEMMA DeterminedIsFresh ==
    ASSUME NEW s \in Seq(Tokens), NEW lg, MatchesFresh(s, lg)
    PROVE  Determined(s, lg) = Fresh(s)
<1>1. CASE s = <<>> \/ ~Uniform(s)
  BY <1>1 DEF Determined, Fresh, Uniform
<1>2. CASE s # <<>> /\ Uniform(s)
  <2>1. Len(s) \in 1..Len(s) /\ lg = RebuildPromptState(s).logits /\ Determined(s, lg) = lg
    BY <1>2 DEF MatchesFresh, Determined
  <2>2. CASE AllDecodable(s)
    <3>1. PrefillSucceeds(s)
      BY <1>2, <2>1, <2>2 DEF PrefillSucceeds, AllDecodable, Last
    <3>2. RebuildPromptState(s).logits = RefLogits(RowsAt(s, 0))
      BY <1>2, <3>1 DEF RebuildPromptState, Live
    <3>3. ~NoneDecodable(s)
      BY <2>1, <2>2 DEF AllDecodable, NoneDecodable
    <3> QED
      BY <1>2, <2>1, <2>2, <3>2, <3>3 DEF Fresh
  <2>3. CASE NoneDecodable(s)
    <3>1. ~PrefillSucceeds(s) /\ ~AllDecodable(s)
      BY <1>2, <2>1, <2>3 DEF PrefillSucceeds, AllDecodable, NoneDecodable, Last
    <3>2. RebuildPromptState(s).logits = InferLogits(s)
      BY <1>2, <3>1 DEF RebuildPromptState, Live
    <3> QED
      BY <1>2, <2>1, <2>3, <3>1, <3>2 DEF Fresh
  <2> QED
    BY <1>2, <2>2, <2>3 DEF Uniform
<1> QED
  BY <1>1, <1>2

(* A good state assigned to the session's fields is the tokens it holds. *)
LEMMA LiveHolds ==
    ASSUME NEW l, GoodLive(l), SetLive(l)
    PROVE  Promise!Hold(l.checkpoint)
<1>1. /\ checkpoint' = l.checkpoint /\ checkpoint' \in Seq(Tokens)
      /\ MatchesFresh(checkpoint', logits')
  BY DEF SetLive, GoodLive
<1>2. Determined(checkpoint', logits') = Fresh(checkpoint')
  BY <1>1, DeterminedIsFresh
<1> QED
  BY <1>1, <1>2 DEF Promise!Hold

(* The callers' snapshots are what TokenSession keeps. *)
LEMMA DropKept ==
    ASSUME NEW s \in saved, DropSnapshot(s)
    PROVE  [Promise!Next]_(Promise!vars)
<1> DEFINE K(S) == {Kept(x) : x \in S}
<1>1. saved' = saved \ {s} /\ UNCHANGED <<ctx_size, checkpoint, logits>>
  BY DEF DropSnapshot
<1>2. K(saved') = K(saved) \/ K(saved') = K(saved) \ {Kept(s)}
  BY <1>1
<1>3. UNCHANGED Determined(checkpoint, logits)
  BY <1>1
<1>4. CASE K(saved') = K(saved)
  BY <1>1, <1>3, <1>4 DEF Promise!vars
<1>5. CASE K(saved') = K(saved) \ {Kept(s)}
  <2>1. Promise!Drop(Kept(s))
    BY <1>1, <1>3, <1>5 DEF Promise!Drop
  <2>2. Kept(s) \in K(saved)
    OBVIOUS
  <2> QED
    BY <2>1, <2>2 DEF Promise!Next
<1> QED
  BY <1>2, <1>4, <1>5

(* Every step of the session is one of the promise, or none at all. *)
LEMMA StepKeepsPromise ==
    ASSUME IInv, [Next]_vars
    PROVE  [Promise!Next]_(Promise!vars)
<1>0. /\ TypeOK /\ SavedOK
      /\ GoodLive(Live(checkpoint, transformer_kv, logits))
      /\ checkpoint \in Seq(Tokens) /\ logits \in LogitsSet /\ ctx_size \in Nat
  BY DEF IInv, TypeOK
<1>1. ASSUME NEW ctx \in CtxSizes, Create(ctx) PROVE Promise!Next
  <2>1. CreateLogits \in LogitsSet
    BY DEF CreateLogits, LogitsSet
  <2>2. GoodLive(Live(<<>>, <<>>, CreateLogits))
    BY <2>1, EmptyGood
  <2>3. Promise!Hold(<<>>)
    BY <1>1, <2>2, LiveHolds DEF Create, Live
  <2>4. Promise!Create(ctx)
    BY <1>1, <2>3 DEF Create, Promise!Create
  <2> QED
    BY <2>4 DEF Promise!Next
<1>2. ASSUME NEW prompt \in Prompts, Prefill(prompt) PROVE Promise!Next
  <2>1. prompt \in Seq(Tokens)
    BY CallerAssumption
  <2>2. GoodLive(PrefillState(prompt)) /\ PrefillState(prompt).checkpoint = prompt
    BY <1>0, <2>1, PrefillGood
  <2>3. Promise!Hold(prompt)
    BY <1>2, <2>2, LiveHolds DEF Prefill
  <2>4. Promise!Prefill(prompt)
    BY <1>2, <2>3 DEF Prefill, Promise!Prefill
  <2> QED
    BY <2>4 DEF Promise!Next
<1>3. ASSUME NEW token \in Tokens, DecodeNext(token) \/ GenerateStep(token)
      PROVE  Promise!Next
  <2>1. GoodLive(AppendToken(token)) /\ AppendToken(token).checkpoint = Append(checkpoint, token)
    BY <1>0, AppendGood
  <2>2. Promise!Hold(Append(checkpoint, token))
    BY <1>3, <2>1, LiveHolds DEF DecodeNext, GenerateStep
  <2>3. Promise!Decode(token)
    BY <1>3, <2>2 DEF DecodeNext, GenerateStep, Promise!Decode
  <2> QED
    BY <2>3 DEF Promise!Next
<1>4. ASSUME NEW pos \in 0..Len(checkpoint), Rewind(pos) PROVE Promise!Next
  <2> DEFINE t == SubSeq(checkpoint, 1, pos)
  <2>1. t \in Seq(Tokens)
    BY <1>0
  <2>2. GoodLive(RebuildPromptState(t)) /\ RebuildPromptState(t).checkpoint = t
    BY <2>1, RebuildGood
  <2>3. Promise!Hold(t)
    BY <1>4, <2>2, LiveHolds DEF Rewind
  <2>4. Promise!Rewind(pos)
    BY <1>4, <2>3 DEF Rewind, Promise!Rewind
  <2> QED
    BY <2>4 DEF Promise!Next
<1>5. ASSUME Invalidate PROVE Promise!Next
  <2>1. GoodLive(Live(<<>>, <<>>, logits))
    BY <1>0, EmptyGood
  <2>2. Promise!Hold(<<>>)
    BY <1>5, <2>1, LiveHolds DEF Invalidate, Live
  <2>3. SubSeq(checkpoint, 1, 0) = <<>> /\ 0 \in 0..Len(checkpoint)
    BY <1>0
  <2>4. Promise!Rewind(0)
    BY <1>5, <2>2, <2>3 DEF Invalidate, Promise!Rewind
  <2> QED
    BY <2>3, <2>4 DEF Promise!Next
<1>6. ASSUME SaveSnapshot PROVE Promise!Next
  <2> DEFINE snap == [ctx |-> ctx_size, boundary |-> prefill_boundary,
                      tokens |-> checkpoint, logits |-> logits]
  <2>1. saved' = saved \union {snap} /\ UNCHANGED <<ctx_size, checkpoint, logits>>
    BY <1>6 DEF SaveSnapshot
  <2>2. Kept(snap) = [limit |-> ctx_size, tokens |-> checkpoint,
                      logits |-> Determined(checkpoint, logits)]
    BY DEF Kept
  <2> HIDE DEF snap
  <2>3. {Kept(s) : s \in saved'} = {Kept(s) : s \in saved} \union {Kept(snap)}
    BY <2>1
  <2>4. UNCHANGED Determined(checkpoint, logits)
    BY <2>1
  <2>5. Promise!Save
    BY <2>1, <2>2, <2>3, <2>4 DEF Promise!Save
  <2> QED
    BY <2>5 DEF Promise!Next
<1>7. ASSUME NEW s \in saved, LoadSnapshot(s) PROVE Promise!Next
  <2>1. s \in Snapshot /\ MatchesFresh(s.tokens, s.logits)
    BY <1>0 DEF TypeOK, SavedOK
  <2>2. s.tokens \in Seq(Tokens) /\ s.logits \in LogitsSet
    BY <2>1 DEF Snapshot
  <2>3. /\ GoodLive(Rehydrate(s.tokens, s.logits))
        /\ Rehydrate(s.tokens, s.logits).checkpoint = s.tokens
    BY <2>1, <2>2, RehydrateGood DEF Rehydrate, Live
  <2>4. Promise!Hold(s.tokens)
    BY <1>7, <2>3, LiveHolds DEF LoadSnapshot
  <2>5. Kept(s) = [limit |-> s.ctx, tokens |-> s.tokens, logits |-> Fresh(s.tokens)]
    BY <2>1, <2>2, DeterminedIsFresh DEF Kept
  <2>6. /\ Kept(s).limit = s.ctx /\ Kept(s).tokens = s.tokens
        /\ Kept(s).logits = Fresh(s.tokens)
    BY <2>5
  <2>7. Promise!Load(Kept(s))
    BY <1>7, <2>4, <2>6 DEF LoadSnapshot, Promise!Load, Promise!Hold
  <2> QED
    BY <2>7 DEF Promise!Next
<1>8. ASSUME NEW s \in RawPayloads, LoadRaw(s) PROVE Promise!Next
  <2> DEFINE lg == IF s = <<>> THEN ZeroLogits ELSE InferLogits(s)
  <2>1. s \in Seq(Tokens)
    BY CallerAssumption
  <2>2. ZeroLogits \in LogitsSet
    BY DEF ZeroLogits, LogitsSet
  <2>3. lg \in LogitsSet
    BY <2>1, <2>2, LogitsType
  <2>4. ~PrefillSucceeds(s) => MatchesFresh(s, lg)
    BY DEF MatchesFresh, RebuildPromptState, Live
  <2>5. SetLive(Rehydrate(s, lg))
    BY <1>8 DEF LoadRaw
  <2> HIDE DEF lg
  <2>6. GoodLive(Rehydrate(s, lg)) /\ Rehydrate(s, lg).checkpoint = s
    BY <2>1, <2>3, <2>4, RehydrateGood DEF Rehydrate, Live
  <2>7. Promise!Hold(s)
    BY <2>5, <2>6, LiveHolds
  <2>8. Promise!LoadRaw(s)
    BY <1>8, <2>7 DEF LoadRaw, Promise!LoadRaw
  <2> QED
    BY <2>8 DEF Promise!Next
<1>9. ASSUME \/ \E b \in Boundaries : SetPrefillBoundary(b)
             \/ \E n \in 1..MaxGen : GenerateBegin(n)
             \/ GenerateErr
             \/ UNCHANGED vars
      PROVE  UNCHANGED Promise!vars
  <2>1. UNCHANGED <<ctx_size, checkpoint, logits, saved>>
    BY <1>9 DEF SetPrefillBoundary, GenerateBegin, GenerateErr, vars
  <2> QED
    BY <2>1 DEF Promise!vars
<1> QED
  BY <1>1, <1>2, <1>3, <1>4, <1>5, <1>6, <1>7, <1>8, <1>9, DropKept
  DEF Next, Generate

(* The session implements TokenSession: whatever path an operation takes    *)
(* through the cache, the rebuilds and the fallbacks of session.rs, its     *)
(* caller sees the tokens and the logits of a fresh prefill of them.        *)
THEOREM SessionKeepsPromise == Spec => ImplementsPromise
<1>1. Init => Promise!Init
  <2>1. Determined(<<>>, CreateLogits) = Fresh(<<>>)
    <3>1. <<>> \in Seq(Tokens) /\ MatchesFresh(<<>>, CreateLogits)
      BY DEF MatchesFresh
    <3> QED
      BY <3>1, DeterminedIsFresh
  <2> QED
    BY <2>1 DEF Init, Promise!Init
<1>2. IInv /\ [Next]_vars => [Promise!Next]_(Promise!vars)
  BY StepKeepsPromise
<1> QED
  BY <1>1, <1>2, SessionInvariant, PTL DEF Spec, ImplementsPromise, Promise!Spec
=============================================================================

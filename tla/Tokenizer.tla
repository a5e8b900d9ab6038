----------------------------- MODULE Tokenizer ------------------------------
(***************************************************************************)
(* The GGUF tokenizer (src/tokenizer.rs): a prompt is a list of control    *)
(* tokens and texts, a text is cut into pieces by joyai_pieces, and each   *)
(* piece is merged by byte pairs.                                          *)
(*                                                                         *)
(* A text is the sequence of its bytes, a token the sequence of its code   *)
(* points; positions count from 1.  The preview tokenizer, one token a     *)
(* byte, is not modelled.                                                  *)
(***************************************************************************)
EXTENDS Integers, Sequences, FiniteSets, SequencesExt

CONSTANTS
    Texts,      \* the texts of a behaviour, valid UTF-8
    Prompts,    \* pairs <<system, prompt>> for render_chat_prompt
    Vocab,      \* tokenizer.ggml.tokens
    Merges,     \* tokenizer.ggml.merges, pairs of symbols
    Control,    \* spellings in UTF-8: [bos, eos, user, assistant, think_start, think_end, dsml]
    Effort,     \* what ThinkMode::Max says first
    None

VARIABLES
    phase,      \* "scan", "segment", "pieces", "bpe" or "done"
    input,      \* [kind, text, system]
    pos, from,  \* the scan for control tokens, the start of the open span
    todo,       \* segments still to encode: [token, text], one of them None
    cut,        \* the end of the pieces cut so far of the first segment
    pieces,     \* where they end, of the segment
    sym,        \* the symbols of the current piece
    rank,       \* the rank of the piece's last merge, 0 if none
    out

vars == <<phase, input, pos, from, todo, cut, pieces, sym, rank, out>>

Flat(seqs) == FlattenSeq(seqs)

-----------------------------------------------------------------------------
(* Bytes and characters.                                                   *)
Alpha == (65..90) \union (97..122)
Digit == 48..57
Newline == {10, 13}
Space == {32, 9, 10, 13, 11, 12}
Punct == (33..47) \union (58..64) \union (91..96) \union (123..126)
LetterLike == (128..255) \union Alpha

Bytes == 0..255
Lead(b) == b \notin 128..191
Ends(s) == {i \in 1..Len(s) : Lead(s[i])} \union {Len(s) + 1}
NextChar(s, p) == Min({i \in Ends(s) : i > p})

CharAt(s, p) == SubSeq(s, p, NextChar(s, p) - 1)

CodePoint(c) ==
    CASE Len(c) = 1 -> c[1]
      [] Len(c) = 2 -> (c[1] - 192) * 64 + (c[2] - 128)
      [] Len(c) = 3 -> (c[1] - 224) * 4096 + (c[2] - 128) * 64 + (c[3] - 128)
      [] OTHER -> (c[1] - 240) * 262144 + (c[2] - 128) * 4096
                    + (c[3] - 128) * 64 + (c[4] - 128)

Utf8(cp) ==
    IF cp < 128 THEN <<cp>>
    ELSE IF cp < 2048 THEN <<192 + (cp \div 64), 128 + (cp % 64)>>
    ELSE IF cp < 65536
      THEN <<224 + (cp \div 4096), 128 + ((cp \div 64) % 64), 128 + (cp % 64)>>
    ELSE <<240 + (cp \div 262144), 128 + ((cp \div 4096) % 64), 128 + ((cp \div 64) % 64),
           128 + (cp % 64)>>

\* What a str is: every character is as long as its first byte says, and is how its
\* code point is written.
Width(b) == IF b < 128 THEN 1 ELSE IF b < 224 THEN 2 ELSE IF b < 240 THEN 3 ELSE 4
Utf8Text(s) ==
    /\ s \in Seq(Bytes)
    /\ \A i \in DOMAIN s : Lead(s[i]) =>
          /\ NextChar(s, i) = i + Width(s[i])
          /\ CodePoint(CharAt(s, i)) \in Nat /\ Utf8(CodePoint(CharAt(s, i))) = CharAt(s, i)
    /\ s # <<>> => Lead(s[1])

Chars(s) == Flat([i \in DOMAIN s |-> IF Lead(s[i]) THEN <<CodePoint(CharAt(s, i))>> ELSE <<>>])

\* The control tokens as the vocabulary spells them, and what a merge makes.
Spelling(name) == Chars(Control[name])
Merged(merge) == merge[1] \o merge[2]

ASSUME TokenizerAssumption ==
    /\ \A t \in Texts : Utf8Text(t)
    /\ \A p \in Prompts : Utf8Text(p[1]) /\ Utf8Text(p[2])
    /\ \A c \in DOMAIN Control : Utf8Text(Control[c]) /\ Control[c] # <<>>
    \* the words of render_chat_prompt are ASCII, and no control token is one character
    /\ Utf8Text(Effort) /\ \A i \in DOMAIN Effort : Effort[i] < 128
    /\ \A c \in DOMAIN Control : Effort # Control[c] /\ Len(Spelling(c)) > 1
    /\ {"bos", "user", "assistant", "think_start", "think_end"} \subseteq DOMAIN Control
    \* from_gguf refuses a vocabulary without the control tokens
    /\ Vocab \in Seq(Seq(Nat))
    /\ \A c \in DOMAIN Control : Spelling(c) \in Range(Vocab)
    \* Option::None is no id, text or spelling
    /\ None \notin Nat /\ None \notin Seq(Bytes) /\ None \notin DOMAIN Control

ASSUME MergesAssumption == Merges \in Seq(Seq(Nat) \X Seq(Nat))

\* What byte-pair training leaves, and from_gguf takes from the file unchecked: the
\* merge that makes a part of another has a lower rank. Only RanksAscend rests on it.
ASSUME TrainingAssumption ==
    \A q, r \in DOMAIN Merges : \A k \in {1, 2} : Merged(Merges[q]) = Merges[r][k] => q < r

CjkAt(s, p) ==
    LET cp == CodePoint(CharAt(s, p))
    IN cp \in 19968..40869 \/ cp \in 12352..12447 \/ cp \in 12448..12543

-----------------------------------------------------------------------------
(* joyai_pieces: where the piece that starts at p ends.                    *)
RunEnd(s, p, class) ==
    Min({i \in p..(Len(s) + 1) : IF i > Len(s) THEN TRUE ELSE s[i] \notin class})

At(s, p, class) == p <= Len(s) /\ s[p] \in class

CjkEnd(s, p) ==
    Min({i \in Ends(s) : i > p /\ (IF i > Len(s) THEN TRUE ELSE ~CjkAt(s, i))})

\* White space up to its last newline, or up to a space before a word.
SpaceEnd(s, p) ==
    LET end == RunEnd(s, p, Space)
        newlines == {i \in p..(end - 1) : s[i] \in Newline}
    IN IF newlines # {} THEN Max(newlines) + 1
       ELSE IF end > p + 1 /\ (At(s, end, LetterLike) \/ At(s, end, Punct)) THEN end - 1
       ELSE end

\* Mutant: three bytes, not three digits.
PieceEndBytes(s, p) == Min({p + 3, Len(s) + 1})

PieceEnd(s, p) ==
    LET c == s[p]
        punct(q) == RunEnd(s, RunEnd(s, q, Punct), Newline)
    IN IF c \in Digit THEN Min({RunEnd(s, p, Digit), p + 3})
       ELSE IF CjkAt(s, p) THEN CjkEnd(s, p)
       ELSE IF c \in Punct /\ At(s, p + 1, Alpha) THEN RunEnd(s, p + 1, Alpha)
       ELSE IF c \in LetterLike THEN RunEnd(s, p, LetterLike)
       ELSE IF c \notin Newline /\ c \notin Punct /\ At(s, p + 1, LetterLike)
         THEN RunEnd(s, p + 1, LetterLike)
       ELSE IF c = 32 /\ At(s, p + 1, Punct) THEN punct(p + 1)
       ELSE IF c \in Punct THEN punct(p)
       ELSE IF c \in Space THEN SpaceEnd(s, p)
       ELSE NextChar(s, p)

-----------------------------------------------------------------------------
(* The byte alphabet of GPT-2.                                             *)
Unprintable == (0..32) \union (127..160) \union {173}

ByteToCodepoint(b) ==
    IF b \notin Unprintable THEN b ELSE 256 + Cardinality({x \in Unprintable : x < b})

\* The search over the 256 bytes: a printable one is its own code point.
CodepointToByte(cp) ==
    LET bytes == {b \in (Unprintable \union {cp}) \intersect (0..255) : ByteToCodepoint(b) = cp}
    IN IF bytes = {} THEN None ELSE Min(bytes)

ByteEncode(s) == [i \in DOMAIN s |-> <<ByteToCodepoint(s[i])>>]

-----------------------------------------------------------------------------
(* The vocabulary: of two equal tokens, or merges, the later one counts.   *)
LastOf(places) == IF places = {} THEN None ELSE Max(places)
TokenId(spelling) == LastOf({i \in DOMAIN Vocab : Vocab[i] = spelling})
MergeRank(a, b) == LastOf({r \in DOMAIN Merges : Merges[r] = <<a, b>>})

Mergeable(s) == {i \in 1..(Len(s) - 1) : MergeRank(s[i], s[i + 1]) # None}

\* Mutant: the leftmost pair, whatever its rank.
BestPairLeftmost(s) == Min(Mergeable(s))

BestPair(s) ==
    CHOOSE i \in Mergeable(s) : \A j \in Mergeable(s) :
        LET ri == MergeRank(s[i], s[i + 1])
            rj == MergeRank(s[j], s[j + 1])
        IN ri < rj \/ (ri = rj /\ i <= j)

MergeAt(s, i) == SubSeq(s, 1, i - 1) \o <<s[i] \o s[i + 1]>> \o SubSeq(s, i + 2, Len(s))

\* A symbol that is no token is spelled out, and what has no token is lost.
Known(symbol) == IF TokenId(symbol) = None THEN <<>> ELSE <<TokenId(symbol)>>

\* Mutant: it is dropped.
SymbolTokensLost(symbol) == Known(symbol)

SymbolTokens(symbol) ==
    IF TokenId(symbol) # None THEN <<TokenId(symbol)>>
    ELSE Flat([i \in DOMAIN symbol |-> Known(<<symbol[i]>>)])

-----------------------------------------------------------------------------
Segment(token, text) == [token |-> token, text |-> text]
Says(text) == Segment(None, text)
Mark(name) == Segment(TokenId(Spelling(name)), None)

Inputs == [kind : {"text", "rendered"}, text : Texts, system : {<<>>}]
            \union {[kind |-> k, text |-> p[2], system |-> p[1]] :
                    k \in {"none", "high", "max"}, p \in Prompts}

Asked(in) == IF in.kind = "max" THEN Effort ELSE <<>>

\* render_chat_prompt, or tokenize_text.
Segments(in) ==
    IF in.kind = "text" THEN <<Says(in.text)>>
    ELSE <<Mark("bos"), Says(Asked(in)), Says(in.system), Mark("user"), Says(in.text),
           Mark("assistant"), Mark(IF in.kind = "none" THEN "think_end" ELSE "think_start")>>

Init ==
    /\ input \in Inputs
    /\ IF input.kind = "rendered"
         THEN phase = "scan" /\ todo = <<>>
         ELSE phase = "segment" /\ todo = Segments(input)
    /\ pos = 1 /\ from = 1 /\ cut = 1 /\ pieces = <<>> /\ sym = <<>> /\ rank = 0 /\ out = <<>>

\* tokenize_rendered_chat: the control token spelled at pos, or None.
SpecialAt(p) ==
    LET here == {c \in DOMAIN Control : IsPrefix(Control[c], SubSeq(input.text, p, Len(input.text)))}
    IN IF here = {} THEN None ELSE CHOOSE c \in here : TRUE

Span == Says(SubSeq(input.text, from, pos - 1))

ScanChar ==
    /\ phase = "scan" /\ pos <= Len(input.text) /\ SpecialAt(pos) = None
    /\ pos' = NextChar(input.text, pos)
    /\ UNCHANGED <<phase, input, from, todo, cut, pieces, sym, rank, out>>

\* Mutant: the next span starts where the control token does.
ScanSpecialKeeps ==
    /\ phase = "scan" /\ pos <= Len(input.text) /\ SpecialAt(pos) # None
    /\ todo' = todo \o <<Span, Mark(SpecialAt(pos))>>
    /\ pos' = pos + Len(Control[SpecialAt(pos)])
    /\ from' = pos
    /\ UNCHANGED <<phase, input, cut, pieces, sym, rank, out>>

ScanSpecial ==
    /\ phase = "scan" /\ pos <= Len(input.text) /\ SpecialAt(pos) # None
    /\ todo' = todo \o <<Span, Mark(SpecialAt(pos))>>
    /\ pos' = pos + Len(Control[SpecialAt(pos)])
    /\ from' = pos'
    /\ UNCHANGED <<phase, input, cut, pieces, sym, rank, out>>

ScanEnd ==
    /\ phase = "scan" /\ pos > Len(input.text)
    /\ todo' = Append(todo, Span)
    /\ phase' = "segment"
    /\ UNCHANGED <<input, pos, from, cut, pieces, sym, rank, out>>

\* The first segment: a control token, an empty text, a text that is a token
\* (compared unencoded), or a text to cut.
StartSegment ==
    LET seg == Head(todo)
        whole == IF seg.text = None THEN seg.token ELSE TokenId(Chars(seg.text))
    IN /\ phase = "segment" /\ todo # <<>>
       /\ IF seg.text = <<>> THEN todo' = Tail(todo) /\ UNCHANGED <<phase, cut, pieces, out>>
          ELSE IF whole # None
            THEN todo' = Tail(todo) /\ out' = Append(out, whole) /\ UNCHANGED <<phase, cut, pieces>>
            ELSE phase' = "pieces" /\ cut' = 1 /\ pieces' = <<>> /\ UNCHANGED <<todo, out>>
       /\ UNCHANGED <<input, pos, from, sym, rank>>

TakePiece ==
    LET text == Head(todo).text
        end == PieceEnd(text, cut)
    IN /\ phase = "pieces" /\ cut <= Len(text)
       /\ sym' = ByteEncode(SubSeq(text, cut, end - 1))
       /\ rank' = 0
       /\ cut' = end /\ pieces' = Append(pieces, end)
       /\ phase' = "bpe"
       /\ UNCHANGED <<input, pos, from, todo, out>>

Merge ==
    LET i == BestPair(sym)
    IN /\ phase = "bpe" /\ Mergeable(sym) # {}
       /\ rank' = MergeRank(sym[i], sym[i + 1])
       /\ sym' = MergeAt(sym, i)
       /\ UNCHANGED <<phase, input, pos, from, todo, cut, pieces, out>>

Emit ==
    /\ phase = "bpe" /\ Mergeable(sym) = {}
    /\ out' = out \o Flat([i \in DOMAIN sym |-> SymbolTokens(sym[i])])
    /\ phase' = "pieces"
    /\ UNCHANGED <<input, pos, from, todo, cut, pieces, sym, rank>>

EndSegment ==
    /\ phase = "pieces" /\ cut > Len(Head(todo).text)
    /\ todo' = Tail(todo) /\ phase' = "segment"
    /\ UNCHANGED <<input, pos, from, cut, pieces, sym, rank, out>>

Finish ==
    /\ phase = "segment" /\ todo = <<>>
    /\ phase' = "done"
    /\ UNCHANGED <<input, pos, from, todo, cut, pieces, sym, rank, out>>

Next == \/ ScanChar \/ ScanSpecial \/ ScanEnd \/ StartSegment
        \/ TakePiece \/ Merge \/ Emit \/ EndSegment \/ Finish

Spec == Init /\ [][Next]_vars

-----------------------------------------------------------------------------
(* decode_tokens.                                                          *)
IsControl(token) == \E c \in DOMAIN Control : token = TokenId(Spelling(c))

\* A character that stands for no byte is written as it is.
DecodedChar(cp) == IF CodepointToByte(cp) = None THEN Utf8(cp) ELSE <<CodepointToByte(cp)>>

DecodedBytes(token) == Flat([i \in DOMAIN Vocab[token] |-> DecodedChar(Vocab[token][i])])

Decode(tokens) ==
    Flat([i \in DOMAIN tokens |-> IF IsControl(tokens[i]) THEN <<>> ELSE DecodedBytes(tokens[i])])

-----------------------------------------------------------------------------
\* joyai_pieces slices the text at the ends it computes from single bytes: each
\* piece has something in it, and each end is the end of a character, or
\* the slice would panic.
PiecesCutCharacters ==
    phase \in {"pieces", "bpe"} =>
        /\ \A i \in DOMAIN pieces : pieces[i] \in Ends(Head(todo).text)
        /\ \A i, j \in DOMAIN pieces : i < j => pieces[i] < pieces[j]
        /\ pieces # <<>> => Last(pieces) = cut

\* bpe_emit_piece looks for the best pair from the start after each merge: with
\* the merges of a trained vocabulary it never goes back to a lower rank, so the
\* result is that of the merges applied one rank after the other.
RanksAscend == [][phase = "bpe" /\ phase' = "bpe" => rank' >= rank]_vars

\* The control tokens a rendered text spells, from the left, none inside another:
\* after p bytes, where the last of them ends (past p, when the p-th is part of it).
LastEnds ==
    LET end[p \in 0..Len(input.text)] ==
          IF p = 0 THEN 1
          ELSE LET last == end[p - 1]
               IN IF last <= p /\ SpecialAt(p) # None THEN p + Len(Control[SpecialAt(p)]) ELSE last
    IN end

\* What the input says outside the control tokens.
Stripped ==
    IF input.kind # "rendered" THEN Asked(input) \o input.system \o input.text
    ELSE LET end == LastEnds
         IN Flat([p \in DOMAIN input.text |-> IF end[p] <= p THEN <<input.text[p]>> ELSE <<>>])

\* The control tokens the input asks for: those of the template, or those it spells.
Template ==
    LET think == IF input.kind = "none" THEN "think_end" ELSE "think_start"
        end == LastEnds
        starts(p) == end[p - 1] <= p /\ SpecialAt(p) # None
    IN CASE input.kind = "text" -> <<>>
         [] input.kind = "rendered" ->
              Flat([p \in DOMAIN input.text |->
                      IF starts(p) THEN <<TokenId(Spelling(SpecialAt(p)))>> ELSE <<>>])
         [] OTHER -> <<TokenId(Spelling("bos")), TokenId(Spelling("user")),
                       TokenId(Spelling("assistant")), TokenId(Spelling(think))>>

Encodable(s) == \A i \in DOMAIN s : TokenId(<<ByteToCodepoint(s[i])>>) # None

\* tokenize_text_bpe looks a text up before it encodes it (tokenizer.rs:179): one that
\* is exactly the spelling of a control token is taken for it ...
SpellsControl(s) == \E c \in DOMAIN Control : Chars(s) = Spelling(c)

\* ... and one whose characters are those of a token in which they stand for other
\* bytes is taken for that.
Mistaken(s) ==
    LET chars == Chars(s)
        occurs(t) == \E k \in 0..(Len(chars) - Len(t)) : SubSeq(chars, k + 1, k + Len(t)) = t
    IN \/ \E i \in DOMAIN Vocab : (\E k \in DOMAIN Vocab[i] : Vocab[i][k] \in 128..323) /\ occurs(Vocab[i])
       \/ SpellsControl(s)

\* ... and from_gguf looks at no merge (tokenizer.rs:54): with one that makes the spelling
\* of a control token, any text the merge applies to has that token.
MergesMakeNoControl ==
    \A r \in DOMAIN Merges, c \in DOMAIN Control : Merged(Merges[r]) # Spelling(c)

\* decode_tokens after the three encoders: what was said comes back byte for byte,
\* whatever the pieces and whatever merges that make no control token, and a control
\* token leaves no trace.
DecodeGivesText ==
    MergesMakeNoControl /\ phase = "done" /\ Encodable(Stripped) /\ ~Mistaken(input.text) /\ ~Mistaken(input.system)
        => Decode(out) = Stripped

ControlsOf(tokens) ==
    Flat([i \in DOMAIN tokens |-> IF IsControl(tokens[i]) THEN <<tokens[i]>> ELSE <<>>])

\* The three encoders: the control tokens are those of the template or of the rendered
\* text, in order; nothing a user or a system prompt says becomes one, unless it is
\* exactly the token's spelling, and nothing between two of a rendered text does, with
\* every vocabulary whose merges make no control token.
ControlsFromTemplate ==
    MergesMakeNoControl /\ phase = "done"
    /\ (input.kind = "rendered" \/ (~SpellsControl(input.text) /\ ~SpellsControl(input.system)))
        => ControlsOf(out) = Template
=============================================================================

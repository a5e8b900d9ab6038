-------------------------- MODULE TokenizerProofs ---------------------------
(***************************************************************************)
(* What the tokenizer keeps for every vocabulary and every UTF-8 text: the *)
(* pieces and the spans between control tokens end where characters do,    *)
(* though joyai_pieces looks at single bytes, the merges of a piece never  *)
(* go back to a lower rank, the control tokens of the result are those of  *)
(* the template or of the rendered text, and decoding gives the text back. *)
(***************************************************************************)
EXTENDS Tokenizer, SequenceTheorems, NaturalsInduction, WellFoundedInduction, FiniteSetTheorems,
        TLAPS

\* A set of naturals has a least element.
LEMMA LeastElement ==
    ASSUME NEW T, T \subseteq Nat, T # {}
    PROVE  Min(T) \in T /\ \A y \in T : Min(T) <= y
<1>1. PICK x \in T : \A y \in T : ~(<<y, x>> \in OpToRel(<, Nat))
  BY WFMin, NatLessThanWellFounded
<1>2. \A y \in T : ~(y < x)
  BY <1>1 DEF OpToRel
<1>3. \E z \in T : \A y \in T : z <= y
  BY <1>2
<1> QED
  BY <1>3 DEF Min

\* A bounded set of naturals has a greatest element.
LEMMA GreatestElement ==
    ASSUME NEW n \in Nat, NEW T, T \subseteq 0..n, T # {}
    PROVE  Max(T) \in T /\ \A y \in T : y <= Max(T)
<1> DEFINE U == {n - x : x \in T}
<1>0. \A x \in T : x \in Nat /\ n - x \in Nat
  OBVIOUS
<1>1. U \subseteq Nat /\ U # {}
  BY <1>0
<1>2. Min(U) \in U /\ \A y \in U : Min(U) <= y
  BY <1>1, LeastElement
<1>3. PICK x \in T : Min(U) = n - x
  BY <1>2
<1>4. \A y \in T : n - x <= n - y
  BY <1>2, <1>3
<1>5. \A y \in T : x >= y
  BY <1>4
<1> QED
  BY <1>5 DEF Max

-----------------------------------------------------------------------------
(* Characters.                                                             *)
\* Where the characters of a byte string end.
LEMMA EndsFacts ==
    ASSUME NEW s \in Seq(Bytes)
    PROVE  /\ Len(s) \in Nat /\ DOMAIN s = 1..Len(s)
           /\ \A i \in 1..Len(s) : s[i] \in Bytes
           /\ Ends(s) \subseteq 1..(Len(s) + 1) /\ Len(s) + 1 \in Ends(s)
           /\ \A i \in 1..Len(s) : i \in Ends(s) <=> Lead(s[i])
<1>1. Len(s) \in Nat /\ DOMAIN s = 1..Len(s) /\ \A i \in 1..Len(s) : s[i] \in Bytes
  OBVIOUS
<1>2. Len(s) + 1 \notin 1..Len(s)
  BY <1>1
<1>3. \A i \in 1..Len(s) : i \in Ends(s) <=> Lead(s[i])
  BY <1>1, <1>2 DEF Ends
<1> QED
  BY <1>1, <1>3 DEF Ends

\* next_utf8_char: the nearest end of a character after p.
LEMMA NextCharFacts ==
    ASSUME NEW s \in Seq(Bytes), NEW p \in 1..Len(s)
    PROVE  /\ NextChar(s, p) \in Ends(s) /\ NextChar(s, p) > p
           /\ \A i \in Ends(s) : i > p => NextChar(s, p) <= i
<1> DEFINE T == {i \in Ends(s) : i > p}
<1>1. T \subseteq Nat
  BY EndsFacts
<1>2. T # {}
  BY EndsFacts
<1>3. NextChar(s, p) = Min(T)
  BY DEF NextChar
<1>4. Min(T) \in T /\ \A y \in T : Min(T) <= y
  BY <1>1, <1>2, LeastElement
<1> QED
  BY <1>3, <1>4

\* A byte below 128 is a character.
LEMMA AsciiByte ==
    ASSUME NEW b \in Bytes
    PROVE  /\ b < 128 => Lead(b) /\ Width(b) = 1
           /\ b \in 0..127 => b < 128
           /\ b \notin LetterLike => b < 128 /\ Lead(b)
BY DEF Lead, Width, Bytes, LetterLike

\* A character ends after an ASCII byte.
LEMMA AfterAscii ==
    ASSUME NEW s, Utf8Text(s), NEW i \in 1..Len(s), s[i] < 128
    PROVE  i + 1 \in Ends(s)
<1>1. s \in Seq(Bytes)
  BY DEF Utf8Text
<1>2. s[i] \in Bytes /\ DOMAIN s = 1..Len(s)
  BY <1>1
<1>3. Lead(s[i]) /\ Width(s[i]) = 1
  BY <1>2, AsciiByte
<1>4. NextChar(s, i) = i + 1
  BY <1>2, <1>3 DEF Utf8Text
<1> QED
  BY <1>1, <1>4, NextCharFacts

\* A run starts at p, is of the class, and is as long as it can be.
LEMMA RunEndFacts ==
    ASSUME NEW s \in Seq(Bytes), NEW p \in 1..(Len(s) + 1), NEW class
    PROVE  /\ RunEnd(s, p, class) \in p..(Len(s) + 1)
           /\ \A i \in p..(RunEnd(s, p, class) - 1) : i \in 1..Len(s) /\ s[i] \in class
           /\ RunEnd(s, p, class) \in 1..Len(s) => s[RunEnd(s, p, class)] \notin class
<1> DEFINE T == {i \in p..(Len(s) + 1) : IF i > Len(s) THEN TRUE ELSE s[i] \notin class}
<1>1. Len(s) \in Nat
  OBVIOUS
<1>2. T \subseteq Nat
  BY <1>1
<1>3. Len(s) + 1 \in T
  BY <1>1
<1>4. RunEnd(s, p, class) = Min(T)
  BY DEF RunEnd
<1>5. Min(T) \in T /\ \A y \in T : Min(T) <= y
  BY <1>2, <1>3, LeastElement
<1> DEFINE e == Min(T)
<1>6. e \in p..(Len(s) + 1) /\ (e > Len(s) \/ s[e] \notin class)
  BY <1>5
<1>7. ASSUME NEW i \in p..(e - 1)
      PROVE  i \in 1..Len(s) /\ s[i] \in class
  <2>1. i \in 1..Len(s) /\ i < e /\ i \in p..(Len(s) + 1)
    BY <1>1, <1>6
  <2>2. i \notin T
    BY <1>5, <1>6, <2>1
  <2> QED
    BY <1>1, <2>1, <2>2
<1> HIDE DEF T, e
<1>8. e = RunEnd(s, p, class)
  BY <1>4 DEF e
<1> QED
  BY <1>1, <1>6, <1>7, <1>8

\* A run of ASCII bytes ends where a character does.
LEMMA AsciiRun ==
    ASSUME NEW s, Utf8Text(s), NEW p \in Ends(s), NEW class, class \subseteq 0..127
    PROVE  RunEnd(s, p, class) \in Ends(s)
<1>1. s \in Seq(Bytes)
  BY DEF Utf8Text
<1>2. p \in 1..(Len(s) + 1) /\ Len(s) \in Nat
  BY <1>1, EndsFacts
<1> DEFINE e == RunEnd(s, p, class)
<1>3. e \in p..(Len(s) + 1) /\ \A i \in p..(e - 1) : i \in 1..Len(s) /\ s[i] \in class
  BY <1>1, <1>2, RunEndFacts
<1> HIDE DEF e
<1>4. CASE e = p
  BY <1>4 DEF e
<1>5. CASE e > p
  <2>1. e - 1 \in p..(e - 1)
    BY <1>2, <1>3, <1>5
  <2>2. e - 1 \in 1..Len(s) /\ s[e - 1] \in class
    BY <1>3, <2>1
  <2>6. s[e - 1] \in Bytes
    BY <1>1, <2>2, EndsFacts
  <2>7. \A x \in class : x < 128
    OBVIOUS
  <2>4. s[e - 1] < 128
    BY <2>2, <2>7
  <2>5. (e - 1) + 1 \in Ends(s)
    BY <2>2, <2>4, AfterAscii
  <2>3. (e - 1) + 1 = e
    BY <1>2, <1>3
  <2> QED
    BY <2>5, <2>3 DEF e
<1> QED
  BY <1>2, <1>3, <1>4, <1>5

\* A run of letters, and of bytes above 127, ends where a character does.
LEMMA LetterRun ==
    ASSUME NEW s, Utf8Text(s), NEW p \in 1..(Len(s) + 1)
    PROVE  RunEnd(s, p, LetterLike) \in Ends(s)
<1>1. s \in Seq(Bytes)
  BY DEF Utf8Text
<1> DEFINE e == RunEnd(s, p, LetterLike)
<1>2. e \in p..(Len(s) + 1) /\ (e \in 1..Len(s) => s[e] \notin LetterLike)
  BY <1>1, RunEndFacts
<1> HIDE DEF e
<1>3. CASE e \in 1..Len(s)
  <2>1. s[e] \in Bytes /\ s[e] \notin LetterLike
    BY <1>1, <1>2, <1>3
  <2>2. Lead(s[e])
    BY <2>1 DEF Lead, Bytes, LetterLike
  <2> QED
    BY <1>1, <1>3, <2>2, EndsFacts DEF e
<1>4. CASE e = Len(s) + 1
  BY <1>1, <1>4, EndsFacts DEF e
<1> QED
  BY <1>1, <1>2, <1>3, <1>4

-----------------------------------------------------------------------------
(* joyai_pieces.                                                           *)
\* The least of two numbers is one of them.
LEMMA MinOfTwo ==
    ASSUME NEW a \in Nat, NEW b \in Nat
    PROVE  Min({a, b}) = IF a <= b THEN a ELSE b
<1>1. Min({a, b}) \in {a, b} /\ \A y \in {a, b} : Min({a, b}) <= y
  BY LeastElement
<1> QED
  BY <1>1

\* Digits, in pieces of three.
LEMMA DigitPiece ==
    ASSUME NEW s, Utf8Text(s), NEW p \in Ends(s), p <= Len(s), s[p] \in Digit
    PROVE  Min({RunEnd(s, p, Digit), p + 3}) \in {x \in Ends(s) : x > p}
<1>1. s \in Seq(Bytes)
  BY DEF Utf8Text
<1>2. p \in 1..Len(s) /\ p \in 1..(Len(s) + 1) /\ Len(s) \in Nat
  BY <1>1, EndsFacts
<1> DEFINE e == RunEnd(s, p, Digit)
<1>3. /\ e \in p..(Len(s) + 1) /\ \A i \in p..(e - 1) : i \in 1..Len(s) /\ s[i] \in Digit
      /\ e \in 1..Len(s) => s[e] \notin Digit
  BY <1>1, <1>2, RunEndFacts
<1>4. e \in Ends(s)
  BY AsciiRun DEF Digit
<1> HIDE DEF e
<1>5. e > p
  BY <1>2, <1>3
<1>6. CASE e <= p + 3
  <2>1. Min({e, p + 3}) = e
    BY <1>2, <1>3, <1>6, MinOfTwo
  <2> QED
    BY <1>4, <1>5, <2>1 DEF e
<1>7. CASE e > p + 3
  <2>1. Min({e, p + 3}) = p + 3
    BY <1>2, <1>3, <1>7, MinOfTwo
  <2>2. p + 2 \in 1..Len(s) /\ s[p + 2] < 128
    <3>1. p + 2 \in p..(e - 1)
      BY <1>2, <1>3, <1>7
    <3>2. p + 2 \in 1..Len(s) /\ s[p + 2] \in Digit
      BY <1>3, <3>1
    <3> QED
      BY <3>2 DEF Digit
  <2>3. (p + 2) + 1 \in Ends(s)
    BY <2>2, AfterAscii
  <2>4. (p + 2) + 1 = p + 3 /\ p + 3 > p
    BY <1>2
  <2> QED
    BY <2>1, <2>3, <2>4 DEF e
<1> QED
  BY <1>2, <1>3, <1>6, <1>7

\* Ideographs and kana are taken character by character.
LEMMA CjkPiece ==
    ASSUME NEW s \in Seq(Bytes), NEW p \in 1..Len(s)
    PROVE  CjkEnd(s, p) \in {x \in Ends(s) : x > p}
<1> DEFINE T == {i \in Ends(s) : i > p /\ (IF i > Len(s) THEN TRUE ELSE ~CjkAt(s, i))}
<1>1. T \subseteq Nat
  BY EndsFacts
<1>2. Len(s) + 1 \in T
  BY EndsFacts
<1>3. Min(T) \in T
  BY <1>1, <1>2, LeastElement
<1> QED
  BY <1>3 DEF CjkEnd

\* White space, up to a newline, the last blank or all of it.
LEMMA SpacePiece ==
    ASSUME NEW s, Utf8Text(s), NEW p \in Ends(s), p <= Len(s), s[p] \in Space
    PROVE  SpaceEnd(s, p) \in {x \in Ends(s) : x > p}
<1>1. s \in Seq(Bytes)
  BY DEF Utf8Text
<1>2. p \in 1..Len(s) /\ p \in 1..(Len(s) + 1) /\ Len(s) \in Nat
  BY <1>1, EndsFacts
<1> DEFINE e == RunEnd(s, p, Space)
           newlines == {i \in p..(e - 1) : s[i] \in Newline}
<1>3. /\ e \in p..(Len(s) + 1) /\ \A i \in p..(e - 1) : i \in 1..Len(s) /\ s[i] \in Space
      /\ e \in 1..Len(s) => s[e] \notin Space
  BY <1>1, <1>2, RunEndFacts
<1>4. e \in Ends(s)
  BY AsciiRun DEF Space
<1>5. \/ newlines # {} /\ SpaceEnd(s, p) = Max(newlines) + 1
      \/ newlines = {} /\ e > p + 1 /\ SpaceEnd(s, p) = e - 1
      \/ SpaceEnd(s, p) = e
  BY DEF SpaceEnd
<1> HIDE DEF e
<1>6. e > p
  BY <1>2, <1>3
<1>7. CASE newlines # {} /\ SpaceEnd(s, p) = Max(newlines) + 1
  <2>1. newlines \subseteq 0..Len(s)
    BY <1>2, <1>3
  <2>2. Max(newlines) \in newlines
    BY <1>2, <1>7, <2>1, GreatestElement
  <2> DEFINE m == Max(newlines)
  <2>3. m \in p..(e - 1) /\ s[m] \in Newline
    BY <2>2
  <2> HIDE DEF newlines, m
  <2>4. m \in 1..Len(s) /\ s[m] < 128 /\ m >= p
    BY <1>2, <1>3, <2>3 DEF Newline
  <2>5. m + 1 \in Ends(s) /\ m + 1 > p
    BY <1>2, <2>4, AfterAscii
  <2> QED
    BY <1>7, <2>5 DEF m
<1>8. CASE e > p + 1 /\ SpaceEnd(s, p) = e - 1
  <2>1. e - 2 \in p..(e - 1)
    BY <1>2, <1>3, <1>8
  <2>2. e - 2 \in 1..Len(s) /\ s[e - 2] < 128
    BY <1>3, <2>1 DEF Space
  <2>3. (e - 2) + 1 \in Ends(s)
    BY <2>2, AfterAscii
  <2>4. (e - 2) + 1 = e - 1 /\ e - 1 > p
    BY <1>2, <1>3, <1>8
  <2> QED
    BY <1>8, <2>3, <2>4
<1>9. CASE SpaceEnd(s, p) = e
  BY <1>4, <1>6, <1>9
<1> QED
  BY <1>5, <1>7, <1>8, <1>9

\* Punctuation and the newlines after it.
LEMMA PunctRun ==
    ASSUME NEW s, Utf8Text(s), NEW q \in Ends(s)
    PROVE  /\ RunEnd(s, RunEnd(s, q, Punct), Newline) \in Ends(s)
           /\ RunEnd(s, RunEnd(s, q, Punct), Newline) >= q
           /\ (q <= Len(s) /\ s[q] \in Punct) => RunEnd(s, RunEnd(s, q, Punct), Newline) > q
<1>1. s \in Seq(Bytes)
  BY DEF Utf8Text
<1>2. q \in 1..(Len(s) + 1) /\ Len(s) \in Nat
  BY <1>1, EndsFacts
<1> DEFINE e == RunEnd(s, q, Punct)
           f == RunEnd(s, e, Newline)
<1>3. e \in q..(Len(s) + 1) /\ (e \in 1..Len(s) => s[e] \notin Punct)
  BY <1>1, <1>2, RunEndFacts
<1>4. e \in Ends(s)
  BY AsciiRun DEF Punct
<1> HIDE DEF e
<1>5. e \in 1..(Len(s) + 1)
  BY <1>2, <1>3
<1>6. f \in e..(Len(s) + 1)
  BY <1>1, <1>5, RunEndFacts
<1>7. f \in Ends(s)
  BY <1>4, AsciiRun DEF Newline
<1> HIDE DEF f
<1>8. f >= q /\ ((q <= Len(s) /\ s[q] \in Punct) => f > q)
  BY <1>2, <1>3, <1>6
<1> QED
  BY <1>7, <1>8 DEF e, f

\* Every piece has something in it and ends where a character does.
LEMMA PieceFacts ==
    ASSUME NEW s, Utf8Text(s), NEW p \in Ends(s), p <= Len(s)
    PROVE  PieceEnd(s, p) \in {x \in Ends(s) : x > p}
<1> DEFINE Good(x) == x \in Ends(s) /\ x > p
<1> SUFFICES Good(PieceEnd(s, p))
  OBVIOUS
<1>1. s \in Seq(Bytes)
  BY DEF Utf8Text
<1>2. p \in 1..Len(s) /\ p \in 1..(Len(s) + 1) /\ Len(s) \in Nat /\ s[p] \in Bytes
  BY <1>1, EndsFacts
<1>3. ASSUME NEW q \in 1..(Len(s) + 1), q >= p, q = p => s[p] \in LetterLike
      PROVE  Good(RunEnd(s, q, LetterLike))
  <2>1. RunEnd(s, q, LetterLike) \in Ends(s)
    BY LetterRun
  <2>2. /\ RunEnd(s, q, LetterLike) \in q..(Len(s) + 1)
        /\ RunEnd(s, q, LetterLike) \in 1..Len(s) => s[RunEnd(s, q, LetterLike)] \notin LetterLike
    BY <1>1, RunEndFacts
  <2>3. RunEnd(s, q, LetterLike) > p
    BY <1>2, <1>3, <2>2
  <2> QED
    BY <2>1, <2>3
<1>4. s[p] < 128 => p + 1 \in Ends(s) /\ p + 1 \in 1..(Len(s) + 1)
  BY <1>1, <1>2, AfterAscii, EndsFacts
<1>5. CASE s[p] \in Digit
  <2>1. PieceEnd(s, p) = Min({RunEnd(s, p, Digit), p + 3})
    BY <1>5 DEF PieceEnd
  <2> QED
    BY <1>5, <2>1, DigitPiece
<1>6. CASE s[p] \notin Digit /\ CjkAt(s, p)
  <2>1. PieceEnd(s, p) = CjkEnd(s, p)
    BY <1>6 DEF PieceEnd
  <2> QED
    BY <1>1, <1>2, <2>1, CjkPiece
<1>7. CASE /\ s[p] \notin Digit /\ ~CjkAt(s, p)
           /\ s[p] \in Punct /\ At(s, p + 1, Alpha)
  <2>1. PieceEnd(s, p) = RunEnd(s, p + 1, Alpha)
    BY <1>7 DEF PieceEnd
  <2>0. s[p] < 128
    <3>1. Punct \subseteq 0..127
      BY DEF Punct
    <3> QED
      BY <1>2, <1>7, <3>1, AsciiByte
  <2>2. p + 1 \in Ends(s) /\ p + 1 \in 1..(Len(s) + 1)
    BY <1>4, <2>0
  <2>3. RunEnd(s, p + 1, Alpha) \in Ends(s)
    BY <2>2, AsciiRun DEF Alpha
  <2>4. RunEnd(s, p + 1, Alpha) \in (p + 1)..(Len(s) + 1)
    BY <1>1, <2>2, RunEndFacts
  <2>5. RunEnd(s, p + 1, Alpha) > p
    BY <1>2, <2>4
  <2> QED
    BY <2>1, <2>3, <2>5
<1> DEFINE Rest == /\ s[p] \notin Digit /\ ~CjkAt(s, p)
                   /\ ~(s[p] \in Punct /\ At(s, p + 1, Alpha))
<1>8. CASE Rest /\ s[p] \in LetterLike
  <2>1. PieceEnd(s, p) = RunEnd(s, p, LetterLike)
    BY <1>8 DEF PieceEnd
  <2>2. p >= p
    BY <1>2
  <2> QED
    BY <1>2, <1>3, <1>8, <2>1, <2>2
<1>9. CASE /\ Rest /\ s[p] \notin LetterLike
           /\ s[p] \notin Newline /\ s[p] \notin Punct /\ At(s, p + 1, LetterLike)
  <2>1. PieceEnd(s, p) = RunEnd(s, p + 1, LetterLike)
    BY <1>9 DEF PieceEnd
  <2>2. p + 1 \in 1..(Len(s) + 1) /\ p + 1 >= p /\ p + 1 # p
    BY <1>2
  <2> QED
    BY <1>3, <2>1, <2>2
<1> DEFINE Ascii == /\ Rest /\ s[p] \notin LetterLike
                    /\ ~(s[p] \notin Newline /\ s[p] \notin Punct /\ At(s, p + 1, LetterLike))
<1>10. CASE Ascii /\ s[p] = 32 /\ At(s, p + 1, Punct)
  <2>1. PieceEnd(s, p) = RunEnd(s, RunEnd(s, p + 1, Punct), Newline)
    BY <1>10 DEF PieceEnd
  <2>2. p + 1 \in Ends(s)
    BY <1>4, <1>10
  <2>3. RunEnd(s, RunEnd(s, p + 1, Punct), Newline) \in Ends(s)
    BY <2>2, PunctRun
  <2>4. RunEnd(s, RunEnd(s, p + 1, Punct), Newline) >= p + 1
    BY <2>2, PunctRun
  <2>5. RunEnd(s, RunEnd(s, p + 1, Punct), Newline) \in Nat
    BY <1>1, <2>3, EndsFacts
  <2> QED
    BY <1>2, <2>1, <2>3, <2>4, <2>5
<1>11. CASE Ascii /\ ~(s[p] = 32 /\ At(s, p + 1, Punct)) /\ s[p] \in Punct
  <2>1. PieceEnd(s, p) = RunEnd(s, RunEnd(s, p, Punct), Newline)
    BY <1>11 DEF PieceEnd
  <2> QED
    BY <1>11, <2>1, PunctRun
<1>12. CASE Ascii /\ ~(s[p] = 32 /\ At(s, p + 1, Punct)) /\ s[p] \notin Punct /\ s[p] \in Space
  <2>1. PieceEnd(s, p) = SpaceEnd(s, p)
    BY <1>12 DEF PieceEnd
  <2> QED
    BY <1>12, <2>1, SpacePiece
<1>13. CASE /\ Ascii /\ ~(s[p] = 32 /\ At(s, p + 1, Punct))
            /\ s[p] \notin Punct /\ s[p] \notin Space
  <2>1. PieceEnd(s, p) = NextChar(s, p)
    BY <1>13 DEF PieceEnd
  <2> QED
    BY <1>1, <1>2, <2>1, NextCharFacts
<1> HIDE DEF Good
<1>14. Rest \/ s[p] \in Digit \/ (s[p] \notin Digit /\ CjkAt(s, p))
         \/ (s[p] \notin Digit /\ ~CjkAt(s, p) /\ s[p] \in Punct /\ At(s, p + 1, Alpha))
  OBVIOUS
<1> QED
  BY <1>5, <1>6, <1>7, <1>8, <1>9, <1>10, <1>11, <1>12, <1>13, <1>14

-----------------------------------------------------------------------------
(* Slices.                                                                 *)

\* A slice of a slice.
LEMMA SliceOfSlice ==
    ASSUME NEW S, NEW s \in Seq(S), NEW i, NEW j, NEW m, NEW n, NEW x, NEW y,
           i \in 1..Len(s) /\ j \in 1..Len(s), m \in 1..(j - i + 1) /\ n \in 1..(j - i + 1),
           x = i + m - 1 /\ y = i + n - 1
    PROVE  SubSeq(SubSeq(s, i, j), m, n) = SubSeq(s, x, y)
<1>1. \A t \in Seq(S) : SubSeq(SubSeq(s, i, j), m, n) = SubSeq(s, i + m - 1, i + n - 1)
  BY SubSeqOfSubSeq
<1> QED
  BY <1>1

\* The part of a text from a up to b.
Slice(s, a, b) == SubSeq(s, a, b - 1)

\* A text cut at two ends of characters is a text, of the same characters.
LEMMA SliceFacts ==
    ASSUME NEW s, Utf8Text(s), NEW a \in Ends(s), NEW b \in Ends(s), a <= b,
           NEW t, t = Slice(s, a, b)
    PROVE  /\ Utf8Text(t) /\ Len(t) = b - a
           /\ \A i \in 1..(b - a) : /\ a + i - 1 \in 1..Len(s) /\ t[i] = s[a + i - 1]
                                    /\ Lead(t[i]) => CharAt(t, i) = CharAt(s, a + i - 1)
<1> DEFINE n == b - a
<1>1. s \in Seq(Bytes)
  BY DEF Utf8Text
<1>2. a \in 1..(Len(s) + 1) /\ b \in 1..(Len(s) + 1) /\ Len(s) \in Nat /\ n \in Nat
  BY <1>1, EndsFacts
<1>3. /\ t \in Seq(Bytes) /\ Len(t) = n /\ DOMAIN t = 1..n
      /\ \A i \in 1..n : t[i] = s[a + i - 1] /\ a + i - 1 \in 1..Len(s)
  <2>1. \A i \in a..(b - 1) : i \in 1..Len(s)
    BY <1>2
  <2>2. \A i \in a..(b - 1) : s[i] \in Bytes
    BY <1>1, <2>1
  <2>3. t \in Seq(Bytes)
    BY <1>1, <1>2, <2>2, SubSeqProperties DEF Slice
  <2>4. Len(t) = n /\ \A i \in 1..n : t[i] = s[a + i - 1]
    BY <1>1, <1>2, <2>2, SubSeqProperties DEF Slice
  <2>5. DOMAIN t = 1..n
    BY <2>3, <2>4
  <2>6. \A i \in 1..n : a + i - 1 \in 1..Len(s)
    BY <1>2
  <2> QED
    BY <2>3, <2>4, <2>5, <2>6
<1>4. ASSUME NEW j \in Ends(t)
      PROVE  j \in 1..(n + 1) /\ a + j - 1 \in Ends(s)
  <2>1. j \in 1..(n + 1)
    BY <1>3, EndsFacts
  <2>2. CASE j = n + 1
    <3>1. a + j - 1 = b
      BY <1>2, <2>2
    <3> QED
      BY <2>1, <3>1
  <2>3. CASE j \in 1..n
    <3>1. Lead(t[j]) /\ t[j] = s[a + j - 1] /\ a + j - 1 \in 1..Len(s)
      BY <1>3, <2>3, EndsFacts
    <3>2. Lead(s[a + j - 1])
      BY <3>1
    <3> QED
      BY <1>1, <2>1, <3>1, <3>2, EndsFacts
  <2> QED
    BY <1>2, <2>1, <2>2, <2>3
<1>5. ASSUME NEW i \in 1..n, Lead(t[i])
      PROVE  NextChar(t, i) = i + Width(t[i]) /\ CharAt(t, i) = CharAt(s, a + i - 1)
  <2> DEFINE q == a + i - 1
             w == Width(t[i])
             x == NextChar(t, i)
  <2>1. i \in 1..n /\ t[i] = s[q] /\ q \in 1..Len(s) /\ DOMAIN s = 1..Len(s)
    BY <1>1, <1>3, <1>5
  <2>2. NextChar(s, q) = q + w
    BY <1>5, <2>1 DEF Utf8Text
  <2>3. w \in 1..4
    BY DEF Width
  <2>4. q + w \in Ends(s) /\ \A y \in Ends(s) : y > q => q + w <= y
    BY <1>1, <2>1, <2>2, NextCharFacts
  <2> HIDE DEF w
  <2>5. q < b
    BY <1>2, <2>1
  <2>6. q + w <= b
    BY <2>4, <2>5
  <2>7. i + w \in Ends(t)
    <3>1. i + w \in 1..(n + 1)
      BY <1>2, <2>1, <2>3, <2>6
    <3>2. CASE i + w = n + 1
      BY <1>3, <3>2, EndsFacts
    <3>3. CASE i + w \in 1..n
      <4>1. t[i + w] = s[a + (i + w) - 1] /\ a + (i + w) - 1 \in 1..Len(s)
        BY <1>3, <3>3
      <4>2. a + (i + w) - 1 = q + w
        <5>1. a \in Int /\ i \in Int /\ w \in Int
          BY <1>2, <2>1, <2>3
        <5> QED
          BY <5>1
      <4>3. Lead(s[q + w])
        BY <1>1, <2>4, <4>1, <4>2, EndsFacts
      <4>4. Lead(t[i + w])
        BY <4>1, <4>2, <4>3
      <4> QED
        BY <1>3, <3>3, <4>4, EndsFacts
    <3> QED
      BY <1>2, <3>1, <3>2, <3>3
  <2>8. /\ x \in Ends(t) /\ x > i /\ \A y \in Ends(t) : y > i => x <= y
    BY <1>3, <1>5, NextCharFacts
  <2> HIDE DEF x
  <2>9. x <= i + w
    <3>1. i + w > i
      BY <2>1, <2>3
    <3> QED
      BY <2>7, <2>8, <3>1
  <2>10. x >= i + w
    <3>1. x \in 1..(n + 1) /\ a + x - 1 \in Ends(s)
      BY <1>4, <2>8
    <3>2. a + x - 1 > q
      BY <1>2, <2>1, <2>8, <3>1
    <3>3. q + w <= a + x - 1
      BY <2>4, <3>1, <3>2
    <3> QED
      BY <1>2, <2>1, <2>3, <3>1, <3>3
  <2>11. x = i + w
    <3>1. x \in Nat
      BY <1>2, <1>4, <2>8
    <3> QED
      BY <2>1, <2>3, <2>9, <2>10, <3>1
  <2>12. SubSeq(t, i, x - 1) = SubSeq(s, q, (q + w) - 1)
    <3> DEFINE y == (i + w) - 1
               z == b - 1
               e == (q + w) - 1
    <3>1. a \in Nat /\ b \in Nat /\ i \in Nat /\ Len(s) \in Nat /\ w \in Nat /\ b <= Len(s) + 1
          /\ i >= 1 /\ a >= 1 /\ w >= 1 /\ a + i - 1 < b /\ a + i - 1 + w <= b
      BY <1>2, <2>1, <2>3, <2>5, <2>6
    <3>2. i \in 1..(z - a + 1) /\ y \in 1..(z - a + 1)
      BY <3>1
    <3>3. a \in 1..Len(s) /\ z \in 1..Len(s)
      BY <3>1
    <3>4. q = a + i - 1 /\ e = a + y - 1
      BY <3>1
    <3>9. x - 1 = y
      BY <2>11
    <3>5. t = SubSeq(s, a, z)
      BY DEF Slice
    <3> HIDE DEF y, z, e, q
    <3>6. SubSeq(SubSeq(s, a, z), i, y) = SubSeq(s, q, e)
      BY <1>1, <3>2, <3>3, <3>4, SliceOfSlice
    <3>7. SubSeq(t, i, y) = SubSeq(s, q, e)
      BY <3>5, <3>6, Zenon
    <3>8. SubSeq(t, i, x - 1) = SubSeq(s, q, e)
      BY <3>7, <3>9, Zenon
    <3> QED
      BY <3>8 DEF e
  <2>13. CharAt(t, i) = CharAt(s, q)
    BY <2>2, <2>12 DEF CharAt, x
  <2> QED
    BY <2>11, <2>13 DEF x, w
<1>6. t # <<>> => Lead(t[1])
  <2> SUFFICES ASSUME t # <<>> PROVE Lead(t[1])
    OBVIOUS
  <2>1. n >= 1
    BY <1>2, <1>3
  <2>2. t[1] = s[a] /\ a \in 1..Len(s)
    <3>1. t[1] = s[a + 1 - 1] /\ a + 1 - 1 \in 1..Len(s)
      BY <1>2, <1>3, <2>1
    <3>2. a + 1 - 1 = a
      BY <1>2
    <3> QED
      BY <3>1, <3>2
  <2> QED
    BY <1>1, <2>2, EndsFacts
<1>7. ASSUME NEW i \in DOMAIN t, Lead(t[i])
      PROVE  CodePoint(CharAt(t, i)) \in Nat /\ Utf8(CodePoint(CharAt(t, i))) = CharAt(t, i)
  <2> DEFINE q == a + i - 1
  <2>1. q \in DOMAIN s /\ Lead(s[q]) /\ CharAt(t, i) = CharAt(s, q)
    BY <1>1, <1>3, <1>5, <1>7
  <2> HIDE DEF q
  <2> QED
    BY <2>1 DEF Utf8Text
<1>8. Utf8Text(t)
  BY <1>3, <1>5, <1>6, <1>7 DEF Utf8Text
<1> QED
  BY <1>3, <1>5, <1>8

\* So it is a text.
LEMMA SliceIsText ==
    ASSUME NEW s, Utf8Text(s), NEW a \in Ends(s), NEW b \in Ends(s), a <= b
    PROVE  Utf8Text(SubSeq(s, a, b - 1))
BY SliceFacts DEF Slice

\* special_token_at: the text goes on at the start of a character after the
\* spelling of a control token.
LEMMA AfterSpelling ==
    ASSUME NEW s, Utf8Text(s), NEW c, Utf8Text(c), c # <<>>, NEW p \in Ends(s),
           IsPrefix(c, SubSeq(s, p, Len(s)))
    PROVE  p + Len(c) \in Ends(s) /\ Len(c) \in Nat
<1> DEFINE t == SubSeq(s, p, Len(s))
           m == Len(c)
<1>1. s \in Seq(Bytes) /\ c \in Seq(Bytes)
  BY DEF Utf8Text
<1>2. p \in 1..(Len(s) + 1) /\ Len(s) \in Nat /\ m \in Nat /\ m >= 1
  BY <1>1, EndsFacts
<1>3. /\ t \in Seq(Bytes) /\ Len(t) = Len(s) - p + 1
      /\ \A i \in 1..(Len(s) - p + 1) : t[i] = s[p + i - 1]
  <2>1. \A i \in p..Len(s) : s[i] \in Bytes
    BY <1>1, <1>2
  <2> QED
    BY <1>1, <1>2, <2>1, SubSeqProperties
<1>4. m <= Len(s) - p + 1 /\ \A i \in 1..m : c[i] = t[i]
  <2>1. Len(c) <= Len(t) /\ SubSeq(c, 1, Len(c)) = SubSeq(t, 1, Len(c))
    BY DEF IsPrefix
  <2>2. \A i \in 1..m : SubSeq(c, 1, m)[i] = c[1 + i - 1]
    BY <1>1, <1>2, SubSeqProperties
  <2>3. \A i \in 1..m : SubSeq(t, 1, m)[i] = t[1 + i - 1]
    BY <1>2, <1>3, <2>1, SubSeqProperties
  <2>4. \A i \in 1..m : 1 + i - 1 = i
    BY <1>2
  <2> QED
    BY <1>3, <2>1, <2>2, <2>3, <2>4
<1> HIDE DEF t
<1>5. \A i \in 1..m : p + i - 1 \in 1..Len(s) /\ c[i] = s[p + i - 1]
  BY <1>2, <1>3, <1>4
<1> DEFINE L == {i \in 1..m : Lead(c[i])}
           l == Max(L)
<1>6. l \in L /\ \A y \in L : y <= l
  <2>1. L \subseteq 0..m
    BY <1>2
  <2>2. 1 \in L
    BY <1>2 DEF Utf8Text
  <2> QED
    BY <1>2, <2>1, <2>2, GreatestElement
<1>7. l \in 1..m /\ Lead(c[l])
  BY <1>6
<1>8. \A y \in 1..m : Lead(c[y]) => y <= l
  BY <1>6
<1> HIDE DEF L, l
<1>9. NextChar(c, l) = m + 1
  <2>1. NextChar(c, l) \in Ends(c) /\ NextChar(c, l) > l
    BY <1>1, <1>7, NextCharFacts
  <2>2. NextChar(c, l) \in 1..(m + 1)
    BY <1>1, <2>1, EndsFacts
  <2>3. NextChar(c, l) \in 1..m => Lead(c[NextChar(c, l)])
    BY <1>1, <2>1, EndsFacts
  <2> QED
    BY <1>2, <1>7, <1>8, <2>1, <2>2, <2>3
<1>10. l + Width(c[l]) = m + 1
  BY <1>1, <1>7, <1>9 DEF Utf8Text
<1> DEFINE q == p + l - 1
           w == Width(c[l])
<1>11. q \in 1..Len(s) /\ c[l] = s[q]
  BY <1>5, <1>7
<1>12. NextChar(s, q) = q + w
  BY <1>1, <1>7, <1>11 DEF Utf8Text
<1>13. q + w \in Ends(s)
  BY <1>1, <1>11, <1>12, NextCharFacts
<1>14. w \in Nat
  BY DEF Width
<1> HIDE DEF w
<1>15. q + w = p + m
  BY <1>2, <1>7, <1>10, <1>14 DEF w
<1> QED
  BY <1>2, <1>13, <1>15

-----------------------------------------------------------------------------
(* The vocabulary.                                                         *)

\* The last of some places is one of them.
LEMMA LastOfIs ==
    ASSUME NEW n \in Nat, NEW T, T \subseteq 1..n
    PROVE  /\ T = {} => LastOf(T) = None
           /\ T # {} => LastOf(T) \in T /\ LastOf(T) # None
<1>1. CASE T # {}
  <2>1. T \subseteq 0..n
    OBVIOUS
  <2>2. Max(T) \in T
    BY <1>1, <2>1, GreatestElement
  <2>4. \A x \in T : x \in Nat
    OBVIOUS
  <2>3. Max(T) \in Nat
    BY <2>2, <2>4
  <2> QED
    BY <1>1, <2>2, <2>3, TokenizerAssumption DEF LastOf
<1> QED
  BY <1>1 DEF LastOf

\* A control token has an id.
LEMMA ControlHasId ==
    ASSUME NEW c \in DOMAIN Control
    PROVE  TokenId(Spelling(c)) \in Nat
<1> DEFINE T == {i \in DOMAIN Vocab : Vocab[i] = Spelling(c)}
<1>1. Vocab \in Seq(Seq(Nat)) /\ Spelling(c) \in Range(Vocab)
  BY TokenizerAssumption
<1>2. Len(Vocab) \in Nat /\ DOMAIN Vocab = 1..Len(Vocab)
  BY <1>1
<1>3. T # {} /\ T \subseteq 1..Len(Vocab)
  BY <1>1, <1>2 DEF Range
<1>4. LastOf(T) \in T
  BY <1>2, <1>3, LastOfIs
<1>5. LastOf(T) \in Nat
  BY <1>2, <1>3, <1>4
<1> QED
  BY <1>5 DEF TokenId

\* The rank of a pair is the place of a merge of that pair.
LEMMA RankIs ==
    ASSUME NEW a, NEW b, MergeRank(a, b) # None
    PROVE  MergeRank(a, b) \in DOMAIN Merges /\ Merges[MergeRank(a, b)] = <<a, b>>
<1> DEFINE T == {r \in DOMAIN Merges : Merges[r] = <<a, b>>}
<1>1. Len(Merges) \in Nat /\ DOMAIN Merges = 1..Len(Merges)
  BY MergesAssumption
<1>2. T \subseteq 1..Len(Merges)
  BY <1>1
<1>3. MergeRank(a, b) = LastOf(T)
  BY DEF MergeRank
<1>4. LastOf(T) \in T
  BY <1>1, <1>2, <1>3, LastOfIs
<1> QED
  BY <1>3, <1>4

-----------------------------------------------------------------------------
(* The texts and control tokens of a prompt, and the pieces of a text.     *)
Utf8Texts == {t \in Seq(Bytes) : Utf8Text(t)}
PromptParts == [token : {None}, text : Utf8Texts] \union [token : Nat, text : {None}]

\* The scan stands at the start of a character, and so does the open span.
Scanning ==
    phase = "scan" =>
        /\ pos \in Ends(input.text) /\ from \in Ends(input.text) /\ from <= pos

\* A text is being cut, up to the end of a character.
Cutting ==
    phase \in {"pieces", "bpe"} =>
        /\ todo # <<>> /\ Utf8Text(Head(todo).text)
        /\ cut \in Ends(Head(todo).text)
        /\ pieces \in Seq(Nat)
        /\ \A i \in DOMAIN pieces : pieces[i] <= cut

\* The invariant of the scan and of the pieces.
PiecesInv ==
    /\ input \in Inputs
    /\ todo \in Seq(PromptParts)
    /\ Scanning
    /\ Cutting
    /\ PiecesCutCharacters

\* The parts of an input are texts.
LEMMA InputTexts ==
    ASSUME NEW in \in Inputs
    PROVE  Utf8Text(in.text) /\ Utf8Text(in.system) /\ Utf8Text(Asked(in))
<1>1. Utf8Text(<<>>)
  <2>1. <<>> \in Seq(Bytes) /\ DOMAIN <<>> = {}
    OBVIOUS
  <2> QED
    BY <2>1 DEF Utf8Text
<1>2. Utf8Text(Asked(in))
  BY <1>1, TokenizerAssumption DEF Asked
<1>3. CASE in \in [kind : {"text", "rendered"}, text : Texts, system : {<<>>}]
  <2>1. in.text \in Texts /\ in.system = <<>>
    BY <1>3
  <2> QED
    BY <1>1, <1>2, <2>1, TokenizerAssumption
<1>4. CASE in \in {[kind |-> k, text |-> p[2], system |-> p[1]] :
                    k \in {"none", "high", "max"}, p \in Prompts}
  <2>1. PICK p \in Prompts : in.text = p[2] /\ in.system = p[1]
    BY <1>4
  <2> QED
    BY <1>2, <2>1, TokenizerAssumption
<1> QED
  BY <1>3, <1>4 DEF Inputs

\* A text is a part of a prompt.
LEMMA SaysIsSegment ==
    ASSUME NEW t, Utf8Text(t)
    PROVE  Says(t) \in PromptParts
<1>1. t \in Utf8Texts
  BY DEF Utf8Texts, Utf8Text
<1> QED
  BY <1>1 DEF Says, Segment, PromptParts

\* So is a control token, by its id.
LEMMA MarkIsSegment ==
    ASSUME NEW c \in DOMAIN Control
    PROVE  Mark(c) \in PromptParts
BY ControlHasId DEF Mark, Segment, PromptParts

\* render_chat_prompt makes parts of a prompt.
LEMMA PromptSegments ==
    ASSUME NEW in \in Inputs
    PROVE  Segments(in) \in Seq(PromptParts)
<1>1. /\ Says(in.text) \in PromptParts /\ Says(in.system) \in PromptParts
      /\ Says(Asked(in)) \in PromptParts
  BY InputTexts, SaysIsSegment
<1>2. {"bos", "user", "assistant", "think_start", "think_end"} \subseteq DOMAIN Control
  BY TokenizerAssumption
<1>3. /\ Mark("bos") \in PromptParts /\ Mark("user") \in PromptParts
      /\ Mark("assistant") \in PromptParts /\ Mark("think_start") \in PromptParts
      /\ Mark("think_end") \in PromptParts
  BY <1>2, MarkIsSegment
<1>4. Mark(IF in.kind = "none" THEN "think_end" ELSE "think_start") \in PromptParts
  BY <1>3
<1> QED
  BY <1>1, <1>3, <1>4 DEF Segments

\* special_token_at finds a control token that the text goes on with.
LEMMA SpecialIsControl ==
    ASSUME NEW p, SpecialAt(p) # None
    PROVE  /\ SpecialAt(p) \in DOMAIN Control
           /\ IsPrefix(Control[SpecialAt(p)], SubSeq(input.text, p, Len(input.text)))
<1> DEFINE here == {c \in DOMAIN Control :
                      IsPrefix(Control[c], SubSeq(input.text, p, Len(input.text)))}
<1>1. here # {} /\ SpecialAt(p) = CHOOSE c \in here : TRUE
  BY DEF SpecialAt
<1>2. SpecialAt(p) \in here
  BY <1>1
<1> QED
  BY <1>2

\* Nothing is cut at first.
LEMMA PiecesInit == Init => PiecesInv
<1> SUFFICES ASSUME Init PROVE PiecesInv
  OBVIOUS
<1>1. input \in Inputs /\ phase \in {"scan", "segment"} /\ pos = 1 /\ from = 1
  BY DEF Init
<1>2. todo \in Seq(PromptParts)
  <2>1. todo = <<>> \/ todo = Segments(input)
    BY DEF Init
  <2>2. Segments(input) \in Seq(PromptParts)
    BY <1>1, PromptSegments
  <2>3. <<>> \in Seq(PromptParts)
    OBVIOUS
  <2> QED
    BY <2>1, <2>2, <2>3
<1>3. Utf8Text(input.text)
  BY <1>1, InputTexts
<1>4. 1 \in Ends(input.text)
  <2>1. input.text \in Seq(Bytes) /\ (input.text # <<>> => Lead(input.text[1]))
    BY <1>3 DEF Utf8Text
  <2>2. CASE input.text = <<>>
    <3>1. Len(input.text) + 1 = 1
      BY <2>2
    <3> QED
      BY <2>1, <3>1, EndsFacts
  <2>3. CASE input.text # <<>>
    <3>1. 1 \in 1..Len(input.text)
      BY <2>1, <2>3
    <3> QED
      BY <2>1, <2>3, <3>1, EndsFacts
  <2> QED
    BY <2>2, <2>3
<1> QED
  BY <1>1, <1>2, <1>4 DEF PiecesInv, Scanning, Cutting, PiecesCutCharacters

\* Taking a piece cuts the text further.
LEMMA TakePieceCuts ==
    ASSUME PiecesInv, TakePiece
    PROVE  PiecesInv'
<1> DEFINE text == Head(todo).text
           end == PieceEnd(text, cut)
<1>1. /\ phase = "pieces" /\ cut <= Len(text) /\ phase' = "bpe"
      /\ cut' = end /\ pieces' = Append(pieces, end)
      /\ UNCHANGED <<input, pos, from, todo, out>>
  BY DEF TakePiece
<1>2. /\ todo # <<>> /\ Utf8Text(text) /\ cut \in Ends(text) /\ pieces \in Seq(Nat)
      /\ \A i \in DOMAIN pieces : pieces[i] <= cut
  BY <1>1 DEF PiecesInv, Cutting
<1>3. /\ \A i \in DOMAIN pieces : pieces[i] \in Ends(text)
      /\ \A i, j \in DOMAIN pieces : i < j => pieces[i] < pieces[j]
  BY <1>1 DEF PiecesInv, PiecesCutCharacters
<1>4. end \in Ends(text) /\ end > cut
  BY <1>1, <1>2, PieceFacts
<1>5. text' = text
  BY <1>1
<1>6. Ends(text) \subseteq Nat /\ cut \in Nat /\ end \in Nat
  <2>1. text \in Seq(Bytes)
    BY <1>2 DEF Utf8Text
  <2>2. Ends(text) \subseteq Nat
    BY <2>1, EndsFacts
  <2> QED
    BY <1>2, <1>4, <2>2
<1> HIDE DEF text, end
<1> DEFINE n == Len(pieces)
<1>7. /\ pieces' \in Seq(Nat) /\ DOMAIN pieces = 1..n /\ DOMAIN pieces' = 1..(n + 1)
      /\ n \in Nat /\ Len(pieces') = n + 1
      /\ \A i \in 1..n : pieces'[i] = pieces[i] /\ pieces'[n + 1] = end
  BY <1>1, <1>2, <1>6
<1>8. pieces'[n + 1] = end
  BY <1>1, <1>2, <1>6
<1> HIDE DEF n
<1>9. \A i \in DOMAIN pieces' : pieces'[i] <= end /\ pieces'[i] \in Ends(text)
  <2> SUFFICES ASSUME NEW i \in 1..(n + 1)
               PROVE  pieces'[i] <= end /\ pieces'[i] \in Ends(text)
    BY <1>7
  <2>1. CASE i = n + 1
    BY <1>4, <1>6, <1>8, <2>1
  <2>2. CASE i \in 1..n
    <3>1. pieces'[i] = pieces[i] /\ pieces[i] \in Nat /\ pieces[i] <= cut
          /\ pieces[i] \in Ends(text)
      <4>1. i \in DOMAIN pieces /\ pieces'[i] = pieces[i]
        BY <1>7, <2>2
      <4>2. pieces[i] \in Ends(text) /\ pieces[i] <= cut
        BY <1>2, <1>3, <4>1
      <4> QED
        BY <1>6, <4>1, <4>2
    <3> QED
      BY <1>4, <1>6, <3>1
  <2> QED
    BY <1>7, <2>1, <2>2
<1>10. \A i, j \in DOMAIN pieces' : i < j => pieces'[i] < pieces'[j]
  <2> SUFFICES ASSUME NEW i \in 1..(n + 1), NEW j \in 1..(n + 1), i < j
               PROVE  pieces'[i] < pieces'[j]
    BY <1>7
  <2>1. i \in 1..n /\ pieces'[i] = pieces[i] /\ pieces[i] \in Nat /\ pieces[i] <= cut
    <3>1. i \in 1..n
      BY <1>7
    <3> QED
      BY <1>2, <1>7, <3>1
  <2>2. CASE j = n + 1
    BY <1>4, <1>6, <1>8, <2>1, <2>2
  <2>3. CASE j \in 1..n
    <3>1. pieces[i] < pieces[j] /\ pieces'[j] = pieces[j]
      BY <1>3, <1>7, <2>1, <2>3
    <3> QED
      BY <2>1, <3>1
  <2> QED
    BY <1>7, <2>2, <2>3
<1>11. Last(pieces') = end
  BY <1>7, <1>8 DEF Last
<1>12. Cutting'
  BY <1>1, <1>2, <1>4, <1>5, <1>7, <1>9 DEF Cutting, text
<1>13. PiecesCutCharacters'
  BY <1>1, <1>5, <1>9, <1>10, <1>11 DEF PiecesCutCharacters, text
<1> QED
  BY <1>1, <1>12, <1>13 DEF PiecesInv, Scanning

\* The scan leaves whole characters in each span.
LEMMA ScanKeepsPieces ==
    ASSUME PiecesInv, ScanChar \/ ScanSpecial \/ ScanEnd
    PROVE  PiecesInv'
<1> DEFINE text == input.text
<1>1. /\ phase = "scan" /\ phase' \in {"scan", "segment"}
      /\ UNCHANGED <<input, cut, pieces>>
  BY DEF ScanChar, ScanSpecial, ScanEnd
<1>2. /\ input \in Inputs /\ todo \in Seq(PromptParts)
      /\ pos \in Ends(text) /\ from \in Ends(text) /\ from <= pos
  BY <1>1 DEF PiecesInv, Scanning
<1>3. Utf8Text(text)
  BY <1>2, InputTexts
<1>4. text \in Seq(Bytes) /\ Ends(text) \subseteq Nat /\ pos \in Nat /\ from \in Nat
  <2>1. text \in Seq(Bytes)
    BY <1>3 DEF Utf8Text
  <2>2. Ends(text) \subseteq Nat
    BY <2>1, EndsFacts
  <2> QED
    BY <1>2, <2>1, <2>2
<1>5. Span \in PromptParts
  <2>1. Utf8Text(SubSeq(text, from, pos - 1))
    BY <1>2, <1>3, SliceIsText
  <2> QED
    BY <2>1, SaysIsSegment DEF Span
<1>6. ASSUME todo' \in Seq(PromptParts), Scanning'
      PROVE  PiecesInv'
  BY <1>1, <1>2, <1>6 DEF PiecesInv, Cutting, PiecesCutCharacters
<1>7. CASE ScanChar
  <2>1. /\ pos <= Len(text) /\ pos' = NextChar(text, pos) /\ UNCHANGED <<from, todo>>
    BY <1>7 DEF ScanChar
  <2>2. pos \in 1..Len(text)
    BY <1>2, <1>4, <2>1, EndsFacts
  <2>3. NextChar(text, pos) \in Ends(text) /\ NextChar(text, pos) > pos
    BY <1>4, <2>2, NextCharFacts
  <2>4. from <= pos'
    BY <1>2, <1>4, <2>1, <2>3
  <2>5. Scanning'
    BY <1>1, <1>2, <2>1, <2>3, <2>4 DEF Scanning
  <2> QED
    BY <1>2, <1>6, <2>1, <2>5
<1>8. CASE ScanSpecial
  <2> DEFINE c == SpecialAt(pos)
  <2>1. /\ c # None /\ todo' = todo \o <<Span, Mark(c)>>
        /\ pos' = pos + Len(Control[c]) /\ from' = pos'
    BY <1>8 DEF ScanSpecial
  <2>2. c \in DOMAIN Control /\ IsPrefix(Control[c], SubSeq(text, pos, Len(text)))
    BY <2>1, SpecialIsControl
  <2> HIDE DEF c
  <2>3. Utf8Text(Control[c]) /\ Control[c] # <<>>
    BY <2>2, TokenizerAssumption
  <2>4. pos + Len(Control[c]) \in Ends(text)
    BY <1>2, <1>3, <2>2, <2>3, AfterSpelling
  <2>5. Mark(c) \in PromptParts
    BY <2>2, MarkIsSegment
  <2>6. todo' \in Seq(PromptParts)
    BY <1>2, <1>5, <2>1, <2>5
  <2>7. pos' \in Nat
    BY <1>4, <2>1, <2>4
  <2>8. Scanning'
    BY <1>1, <2>1, <2>4, <2>7 DEF Scanning
  <2> QED
    BY <1>6, <2>6, <2>8
<1>9. CASE ScanEnd
  <2>1. todo' = Append(todo, Span) /\ phase' = "segment"
    BY <1>9 DEF ScanEnd
  <2>2. todo' \in Seq(PromptParts)
    BY <1>2, <1>5, <2>1
  <2> QED
    BY <1>6, <2>1, <2>2 DEF Scanning
<1> QED
  BY <1>7, <1>8, <1>9

\* A segment starts uncut.
LEMMA StartKeepsPieces ==
    ASSUME PiecesInv, StartSegment
    PROVE  PiecesInv'
<1> DEFINE seg == Head(todo)
           whole == IF seg.text = None THEN seg.token ELSE TokenId(Chars(seg.text))
<1>1. /\ phase = "segment" /\ todo # <<>> /\ UNCHANGED input
      /\ \/ todo' = Tail(todo) /\ UNCHANGED phase
         \/ /\ whole = None
            /\ phase' = "pieces" /\ cut' = 1 /\ pieces' = <<>> /\ UNCHANGED todo
  BY DEF StartSegment
<1>2. input \in Inputs /\ todo \in Seq(PromptParts)
  BY DEF PiecesInv
<1>3. CASE todo' = Tail(todo) /\ UNCHANGED phase
  <2>1. todo' \in Seq(PromptParts)
    BY <1>1, <1>2, <1>3
  <2>2. phase' = "segment" /\ input' \in Inputs
    BY <1>1, <1>2, <1>3
  <2> QED
    BY <2>1, <2>2 DEF PiecesInv, Scanning, Cutting, PiecesCutCharacters
<1>4. CASE /\ whole = None
           /\ phase' = "pieces" /\ cut' = 1 /\ pieces' = <<>> /\ UNCHANGED todo
  <2>1. seg \in PromptParts
    BY <1>1, <1>2
  <2>2. CASE seg \in [token : Nat, text : {None}]
    <3>1. seg.text = None /\ seg.token \in Nat
      BY <2>2
    <3>2. None \in Nat
      BY <1>4, <3>1
    <3> QED
      BY <3>2, TokenizerAssumption
  <2>3. CASE seg \in [token : {None}, text : Utf8Texts]
    <3>1. Utf8Text(seg.text) /\ seg.text \in Seq(Bytes)
      BY <2>3 DEF Utf8Texts
    <3>2. 1 \in Ends(seg.text)
      <4>1. CASE seg.text = <<>>
        <5>1. Len(seg.text) + 1 = 1
          BY <4>1
        <5> QED
          BY <3>1, <5>1, EndsFacts
      <4>2. CASE seg.text # <<>>
        <5>1. 1 \in 1..Len(seg.text)
          BY <3>1, <4>2
        <5>2. Lead(seg.text[1])
          BY <3>1, <4>2 DEF Utf8Text
        <5> QED
          BY <3>1, <5>1, <5>2, EndsFacts
      <4> QED
        BY <4>1, <4>2
    <3>3. Head(todo').text = seg.text /\ todo' # <<>> /\ todo' \in Seq(PromptParts)
      BY <1>1, <1>2, <1>4
    <3>4. pieces' \in Seq(Nat) /\ DOMAIN pieces' = {} /\ pieces' = <<>>
      BY <1>4
    <3> HIDE DEF seg, whole
    <3>5. Cutting'
      BY <1>4, <3>1, <3>2, <3>3, <3>4 DEF Cutting
    <3>6. PiecesCutCharacters'
      BY <1>4, <3>4 DEF PiecesCutCharacters
    <3>7. Scanning' /\ input' \in Inputs
      BY <1>1, <1>2, <1>4 DEF Scanning
    <3> QED
      BY <3>3, <3>5, <3>6, <3>7 DEF PiecesInv
  <2> QED
    BY <2>1, <2>2, <2>3 DEF PromptParts
<1> QED
  BY <1>1, <1>3, <1>4

\* Merging, emitting and ending a segment cut nothing.
LEMMA OthersKeepPieces ==
    ASSUME PiecesInv, Merge \/ Emit \/ EndSegment \/ Finish \/ UNCHANGED vars
    PROVE  PiecesInv'
<1>1. CASE Merge \/ Emit
  <2>1. /\ phase = "bpe" /\ phase' \in {"bpe", "pieces"}
        /\ UNCHANGED <<input, todo, cut, pieces>>
    BY <1>1 DEF Merge, Emit
  <2> QED
    BY <2>1 DEF PiecesInv, Scanning, Cutting, PiecesCutCharacters
<1>2. CASE EndSegment
  <2>1. phase = "pieces" /\ phase' = "segment" /\ todo' = Tail(todo) /\ UNCHANGED input
    BY <1>2 DEF EndSegment
  <2>2. todo # <<>> /\ todo \in Seq(PromptParts)
    BY <2>1 DEF PiecesInv, Cutting
  <2>3. todo' \in Seq(PromptParts)
    BY <2>1, <2>2
  <2> QED
    BY <2>1, <2>3 DEF PiecesInv, Scanning, Cutting, PiecesCutCharacters
<1>3. CASE Finish
  BY <1>3 DEF Finish, PiecesInv, Scanning, Cutting, PiecesCutCharacters
<1>4. CASE UNCHANGED vars
  BY <1>4 DEF vars, PiecesInv, Scanning, Cutting, PiecesCutCharacters
<1> QED
  BY <1>1, <1>2, <1>3, <1>4

(* The scan and the pre-tokenizer stand between characters in every text, and the
   segments of a prompt are whole texts (tokenizer.rs tokenize_rendered_chat_vocab,
   joyai_pieces). *)
THEOREM PiecesInvariant == Spec => []PiecesInv
<1>1. PiecesInv /\ [Next]_vars => PiecesInv'
  BY ScanKeepsPieces, StartKeepsPieces, TakePieceCuts, OthersKeepPieces DEF Next
<1> QED
  BY <1>1, PiecesInit, PTL DEF Spec

(* No slice that joyai_pieces takes of a text falls inside a character, and no piece
   is empty (tokenizer.rs joyai_pieces). *)
THEOREM PiecesAlwaysCutCharacters == Spec => []PiecesCutCharacters
<1>1. PiecesInv => PiecesCutCharacters
  BY DEF PiecesInv
<1> QED
  BY <1>1, PiecesInvariant, PTL

-----------------------------------------------------------------------------
(* bpe_emit_piece.                                                         *)
Symbols == Seq(Nat)

\* byte_encode gives code points.
LEMMA CodepointIsNatural ==
    ASSUME NEW b \in Nat
    PROVE  ByteToCodepoint(b) \in Nat
<1>1. IsFiniteSet(Unprintable)
  <2>0. 0 \in Int /\ 32 \in Int /\ 127 \in Int /\ 160 \in Int
    OBVIOUS
  <2>a. IsFiniteSet(0..32) /\ IsFiniteSet(127..160)
    BY <2>0, FS_Interval
  <2>b. IsFiniteSet({173})
    BY FS_Singleton
  <2>1. IsFiniteSet(0..32) /\ IsFiniteSet(127..160) /\ IsFiniteSet({173})
    BY <2>a, <2>b
  <2>2. IsFiniteSet((0..32) \union (127..160))
    BY <2>1, FS_Union
  <2>3. IsFiniteSet(((0..32) \union (127..160)) \union {173})
    BY <2>1, <2>2, FS_Union
  <2> QED
    BY <2>3 DEF Unprintable
<1>2. IsFiniteSet({x \in Unprintable : x < b})
  BY <1>1, FS_Subset
<1>3. Cardinality({x \in Unprintable : x < b}) \in Nat
  BY <1>2, FS_CardinalityType
<1> QED
  BY <1>3 DEF ByteToCodepoint

\* A piece is encoded as one symbol a byte.
LEMMA EncodedIsSymbols ==
    ASSUME NEW s \in Seq(Bytes)
    PROVE  ByteEncode(s) \in Seq(Symbols)
<1>1. Len(s) \in Nat /\ DOMAIN s = 1..Len(s)
  OBVIOUS
<1>2. ASSUME NEW i \in 1..Len(s) PROVE <<ByteToCodepoint(s[i])>> \in Symbols
  <2>1. s[i] \in Bytes
    BY <1>2
  <2>2. s[i] \in Nat
    <3>1. \A x \in Bytes : x \in Nat
      BY DEF Bytes
    <3> QED
      BY <2>1, <3>1
  <2>3. ByteToCodepoint(s[i]) \in Nat
    BY <2>2, CodepointIsNatural
  <2> QED
    BY <2>3 DEF Symbols
<1>3. ByteEncode(s) = [i \in 1..Len(s) |-> <<ByteToCodepoint(s[i])>>]
  BY <1>1 DEF ByteEncode
<1> QED
  BY <1>1, <1>2, <1>3

\* The best pair is a merge of the least rank.
LEMMA BestPairIs ==
    ASSUME NEW s \in Seq(Symbols), Mergeable(s) # {}
    PROVE  /\ BestPair(s) \in Mergeable(s)
           /\ \A j \in Mergeable(s) :
                MergeRank(s[BestPair(s)], s[BestPair(s) + 1]) <= MergeRank(s[j], s[j + 1])
<1> DEFINE R(i) == MergeRank(s[i], s[i + 1])
           T == {R(i) : i \in Mergeable(s)}
           U == {i \in Mergeable(s) : R(i) = Min(T)}
<1>1. \A i \in Mergeable(s) : R(i) \in Nat
  <2>1. DOMAIN Merges \subseteq Nat
    BY MergesAssumption
  <2>2. \A i \in Mergeable(s) : R(i) # None
    BY DEF Mergeable
  <2> QED
    BY <2>1, <2>2, RankIs
<1>2. T \subseteq Nat /\ T # {}
  BY <1>1
<1>3. Min(T) \in T /\ \A y \in T : Min(T) <= y
  BY <1>2, LeastElement
<1>4. Mergeable(s) \subseteq Nat
  BY DEF Mergeable
<1>5. U \subseteq Nat /\ U # {}
  BY <1>3, <1>4
<1>6. Min(U) \in U /\ \A y \in U : Min(U) <= y
  BY <1>5, LeastElement
<1> DEFINE m == Min(U)
<1>7. m \in Mergeable(s) /\ R(m) = Min(T)
  BY <1>6
<1>8. \A j \in Mergeable(s) : Min(T) <= R(j)
  BY <1>3
<1>9. \A j \in Mergeable(s) : R(j) = Min(T) => m <= j
  BY <1>6
<1> HIDE DEF T, U, m
<1>10. \A j \in Mergeable(s) : R(m) < R(j) \/ (R(m) = R(j) /\ m <= j)
  BY <1>1, <1>7, <1>8, <1>9
<1> DEFINE Q(i) == \A j \in Mergeable(s) : R(i) < R(j) \/ (R(i) = R(j) /\ i <= j)
<1>11. BestPair(s) = CHOOSE i \in Mergeable(s) : Q(i)
  BY DEF BestPair
<1>12. \E i \in Mergeable(s) : Q(i)
  BY <1>7, <1>10
<1> HIDE DEF Q
<1>13. BestPair(s) \in Mergeable(s) /\ Q(BestPair(s))
  BY <1>11, <1>12
<1> DEFINE b == BestPair(s)
<1>14. \A j \in Mergeable(s) : R(b) < R(j) \/ (R(b) = R(j) /\ b <= j)
  BY <1>13 DEF Q
<1>15. \A j \in Mergeable(s) : R(b) <= R(j)
  BY <1>1, <1>13, <1>14
<1> QED
  BY <1>13, <1>15

\* What a merge leaves where.
LEMMA MergeAtIs ==
    ASSUME NEW s \in Seq(Symbols), NEW i \in 1..(Len(s) - 1)
    PROVE  /\ MergeAt(s, i) \in Seq(Symbols) /\ Len(MergeAt(s, i)) = Len(s) - 1
           /\ \A j \in 1..(Len(s) - 1) :
                MergeAt(s, i)[j] = IF j < i THEN s[j] ELSE IF j = i THEN s[i] \o s[i + 1]
                                   ELSE s[j + 1]
<1> DEFINE n == Len(s)
           a == SubSeq(s, 1, i - 1)
           x == s[i] \o s[i + 1]
           m == <<x>>
           z == SubSeq(s, i + 2, n)
<1>1. n \in Nat /\ DOMAIN s = 1..n /\ i \in Nat /\ i + 1 \in 1..n /\ i \in 1..n
  OBVIOUS
<1>2. /\ a \in Seq(Symbols) /\ Len(a) = i - 1
      /\ \A j \in 1..(i - 1) : a[j] = s[j]
  <2>1. \A j \in 1..(i - 1) : s[j] \in Symbols
    BY <1>1
  <2>2. /\ a \in Seq(Symbols) /\ Len(a) = IF 1 <= i - 1 THEN i - 1 - 1 + 1 ELSE 0
        /\ \A j \in 1..(i - 1 - 1 + 1) : a[j] = s[1 + j - 1]
    BY <1>1, <2>1, SubSeqProperties
  <2>3. \A j \in 1..(i - 1) : 1 + j - 1 = j
    BY <1>1
  <2> QED
    BY <1>1, <2>2, <2>3
<1>3. /\ z \in Seq(Symbols) /\ Len(z) = n - i - 1
      /\ \A j \in 1..(n - i - 1) : z[j] = s[i + 1 + j]
  <2>1. \A j \in (i + 2)..n : s[j] \in Symbols
    BY <1>1
  <2>2. /\ z \in Seq(Symbols) /\ Len(z) = IF i + 2 <= n THEN n - (i + 2) + 1 ELSE 0
        /\ \A j \in 1..(n - (i + 2) + 1) : z[j] = s[(i + 2) + j - 1]
    BY <1>1, <2>1, SubSeqProperties
  <2>3. \A j \in 1..(n - i - 1) : (i + 2) + j - 1 = i + 1 + j
    BY <1>1
  <2>4. n - (i + 2) + 1 = n - i - 1 /\ (i + 2 <= n \/ n - i - 1 = 0)
    <3>1. n \in Nat /\ i \in Nat /\ i + 1 <= n
      BY <1>1
    <3> HIDE DEF n
    <3>2. n - (i + 2) + 1 = n - i - 1
      BY <3>1
    <3>3. i + 2 <= n \/ n - i - 1 = 0
      BY <3>1
    <3> QED
      BY <3>2, <3>3
  <2> HIDE DEF z
  <2>5. Len(z) = n - i - 1
    BY <1>1, <2>2, <2>4
  <2>6. ASSUME NEW j \in 1..(n - i - 1)
        PROVE  z[j] = s[i + 1 + j]
    <3> DEFINE u == (i + 2) + j - 1
               v == i + 1 + j
    <3>1. z[j] = s[u]
      BY <2>2, <2>4
    <3>2. u = v
      BY <2>3
    <3> HIDE DEF u, v
    <3>3. z[j] = s[v]
      BY <3>1, <3>2
    <3> QED
      BY <3>3 DEF v
  <2> QED
    BY <2>2, <2>5, <2>6
<1>4. x \in Symbols
  <2>1. s[i] \in Symbols /\ s[i + 1] \in Symbols
    BY <1>1
  <2> QED
    BY <2>1 DEF Symbols
<1>6. MergeAt(s, i) = (a \o m) \o z
  BY DEF MergeAt
<1> HIDE DEF x
<1>5. m \in Seq(Symbols) /\ Len(m) = 1 /\ m[1] = x
  BY <1>4
<1> HIDE DEF a, m, z, n
<1>7. /\ a \o m \in Seq(Symbols) /\ Len(a \o m) = i
      /\ \A j \in 1..(i - 1) : (a \o m)[j] = a[j]
      /\ (a \o m)[i] = m[1]
  <2>1. a \o m \in Seq(Symbols) /\ Len(a \o m) = Len(a) + Len(m)
    BY <1>2, <1>5, ConcatProperties
  <2>2. \A j \in 1..(Len(a) + Len(m)) : (a \o m)[j] = IF j <= Len(a) THEN a[j] ELSE m[j - Len(a)]
    BY <1>2, <1>5, ConcatProperties
  <2>3. i - Len(a) = 1 /\ Len(a) + Len(m) = i
    BY <1>1, <1>2, <1>5
  <2> QED
    BY <1>1, <1>2, <2>1, <2>2, <2>3
<1>8. /\ MergeAt(s, i) \in Seq(Symbols) /\ Len(MergeAt(s, i)) = n - 1
      /\ \A j \in 1..(n - 1) : MergeAt(s, i)[j] = IF j <= i THEN (a \o m)[j] ELSE z[j - i]
  <2> DEFINE b == a \o m
  <2>3. b \in Seq(Symbols) /\ Len(b) = i
    BY <1>7
  <2> HIDE DEF b
  <2>4. /\ b \o z \in Seq(Symbols) /\ Len(b \o z) = Len(b) + Len(z)
        /\ \A j \in 1..(Len(b) + Len(z)) :
              (b \o z)[j] = IF j <= Len(b) THEN b[j] ELSE z[j - Len(b)]
    BY <1>3, <2>3, ConcatProperties
  <2>1. /\ (a \o m) \o z \in Seq(Symbols) /\ Len((a \o m) \o z) = i + (n - i - 1)
        /\ \A j \in 1..(i + (n - i - 1)) :
              ((a \o m) \o z)[j] = IF j <= i THEN (a \o m)[j] ELSE z[j - i]
    BY <1>3, <2>3, <2>4 DEF b
  <2>2. i + (n - i - 1) = n - 1
    BY <1>1
  <2> QED
    BY <1>6, <2>1, <2>2
<1>9. ASSUME NEW j \in 1..(n - 1)
      PROVE  MergeAt(s, i)[j] = IF j < i THEN s[j] ELSE IF j = i THEN x ELSE s[j + 1]
  <2>1. CASE j < i
    <3>1. j \in 1..(i - 1) /\ j <= i
      BY <1>1, <2>1
    <3>2. MergeAt(s, i)[j] = (a \o m)[j] /\ (a \o m)[j] = a[j] /\ a[j] = s[j]
      BY <1>2, <1>7, <1>8, <3>1
    <3> QED
      BY <2>1, <3>2
  <2>2. CASE j = i
    <3>1. j <= i /\ ~(j < i)
      BY <1>1, <2>2
    <3>2. MergeAt(s, i)[j] = (a \o m)[i] /\ (a \o m)[i] = x
      BY <1>5, <1>7, <1>8, <2>2, <3>1
    <3> QED
      BY <2>2, <3>1, <3>2
  <2>3. CASE j > i
    <3>1. j - i \in 1..(n - i - 1) /\ i + 1 + (j - i) = j + 1
      BY <1>1, <2>3
    <3>2. MergeAt(s, i)[j] = z[j - i] /\ z[j - i] = s[i + 1 + (j - i)]
      BY <1>1, <1>3, <1>8, <2>3, <3>1
    <3> QED
      BY <1>1, <2>3, <3>1, <3>2
  <2> QED
    BY <1>1, <2>1, <2>2, <2>3
<1> QED
  BY <1>8, <1>9 DEF n, x

\* The pairs that are left, or that a merge makes, have no lower rank.
RanksInv ==
    /\ rank \in Nat
    /\ phase = "bpe" =>
          /\ sym \in Seq(Symbols)
          /\ \A j \in Mergeable(sym) : rank <= MergeRank(sym[j], sym[j + 1])

\* The rank of a merge is a natural number.
LEMMA RanksAreNatural ==
    ASSUME NEW a, NEW b, MergeRank(a, b) # None
    PROVE  MergeRank(a, b) \in Nat
<1>1. DOMAIN Merges \subseteq Nat
  BY MergesAssumption
<1> QED
  BY <1>1, RankIs

\* A pair that has just been made is a later merge.
LEMMA NewPairIsLater ==
    ASSUME NEW a, NEW b, MergeRank(a, b) # None, NEW c, NEW d, MergeRank(c, d) # None,
           c = a \o b \/ d = a \o b
    PROVE  MergeRank(a, b) < MergeRank(c, d)
<1> DEFINE q == MergeRank(a, b)
           r == MergeRank(c, d)
<1>1. q \in DOMAIN Merges /\ Merges[q] = <<a, b>> /\ r \in DOMAIN Merges /\ Merges[r] = <<c, d>>
  BY RankIs
<1> HIDE DEF q, r
<1>2. Merged(Merges[q]) = a \o b
  BY <1>1 DEF Merged
<1>3. Merges[r][1] = c /\ Merges[r][2] = d
  BY <1>1
<1>4. \A k \in {1, 2} : Merged(Merges[q]) = Merges[r][k] => q < r
  BY <1>1, MergesAssumption, TrainingAssumption
<1>5. q < r
  BY <1>2, <1>3, <1>4
<1> QED
  BY <1>5 DEF q, r

\* A merge leaves pairs of the same or a higher rank.
LEMMA MergeRaisesRanks ==
    ASSUME RanksInv, Merge
    PROVE  RanksInv' /\ rank' >= rank
<1> DEFINE i == BestPair(sym)
           n == Len(sym)
           r == MergeRank(sym[i], sym[i + 1])
<1>1. /\ phase = "bpe" /\ phase' = "bpe" /\ Mergeable(sym) # {}
      /\ rank' = r /\ sym' = MergeAt(sym, i)
  BY DEF Merge
<1>2. /\ sym \in Seq(Symbols) /\ rank \in Nat
      /\ \A j \in Mergeable(sym) : rank <= MergeRank(sym[j], sym[j + 1])
  BY <1>1 DEF RanksInv
<1>3. i \in Mergeable(sym) /\ \A j \in Mergeable(sym) : r <= MergeRank(sym[j], sym[j + 1])
  BY <1>1, <1>2, BestPairIs
<1> HIDE DEF i
<1>4. i \in 1..(n - 1) /\ r # None /\ n \in Nat
  BY <1>2, <1>3 DEF Mergeable
<1>5. r \in Nat
  BY <1>4, RanksAreNatural
<1>6. rank' >= rank
  BY <1>1, <1>2, <1>3, <1>5
<1>7. /\ sym' \in Seq(Symbols) /\ Len(sym') = n - 1
      /\ \A j \in 1..(n - 1) :
            sym'[j] = IF j < i THEN sym[j] ELSE IF j = i THEN sym[i] \o sym[i + 1] ELSE sym[j + 1]
  BY <1>1, <1>2, <1>4, MergeAtIs
<1>8. ASSUME NEW j \in Mergeable(sym)'
      PROVE  r <= MergeRank(sym'[j], sym'[j + 1])
  <2>1. j \in 1..(n - 2) /\ MergeRank(sym'[j], sym'[j + 1]) # None
    <3>1. j \in 1..(Len(sym') - 1) /\ MergeRank(sym'[j], sym'[j + 1]) # None
      BY <1>8 DEF Mergeable
    <3> QED
      BY <1>4, <1>7, <3>1
  <2>2. j \in 1..(n - 1) /\ j + 1 \in 1..(n - 1)
    BY <1>4, <2>1
  <2>3. CASE j + 1 < i
    <3>1. sym'[j] = sym[j] /\ sym'[j + 1] = sym[j + 1]
      BY <1>4, <1>7, <2>2, <2>3
    <3>2. j \in Mergeable(sym)
      BY <2>1, <2>2, <3>1 DEF Mergeable
    <3> QED
      BY <1>3, <3>1, <3>2
  <2>4. CASE j > i
    <3>1. sym'[j] = sym[j + 1] /\ sym'[j + 1] = sym[j + 1 + 1]
      BY <1>4, <1>7, <2>2, <2>4
    <3>2. j + 1 \in 1..(n - 1) /\ MergeRank(sym[j + 1], sym[j + 1 + 1]) # None
      BY <2>1, <2>2, <3>1
    <3>3. j + 1 \in Mergeable(sym)
      BY <3>2 DEF Mergeable
    <3>4. r <= MergeRank(sym[j + 1], sym[(j + 1) + 1])
      BY <1>3, <3>3
    <3> QED
      BY <3>1, <3>4
  <2>5. CASE j = i \/ j + 1 = i
    <3>1. sym'[j] = sym[i] \o sym[i + 1] \/ sym'[j + 1] = sym[i] \o sym[i + 1]
      <4>1. i \in Nat /\ ~(i < i)
        BY <1>4
      <4>2. sym'[i] = IF i < i THEN sym[i] ELSE IF i = i THEN sym[i] \o sym[i + 1] ELSE sym[i + 1]
        <5> HIDE DEF n
        <5> QED
          BY <1>4, <1>7
      <4>3. sym'[i] = sym[i] \o sym[i + 1]
        BY <4>1, <4>2
      <4> QED
        BY <2>5, <4>3
    <3>2. r < MergeRank(sym'[j], sym'[j + 1])
      <4> DEFINE a == sym[i]
                 b == sym[i + 1]
                 c == sym'[j]
                 d == sym'[j + 1]
      <4>1. MergeRank(a, b) # None /\ MergeRank(c, d) # None /\ (c = a \o b \/ d = a \o b)
        BY <1>4, <2>1, <3>1
      <4> HIDE DEF a, b, c, d
      <4>2. MergeRank(a, b) < MergeRank(c, d)
        BY <4>1, NewPairIsLater
      <4> QED
        BY <4>2 DEF a, b, c, d
    <3>3. MergeRank(sym'[j], sym'[j + 1]) \in Nat
      BY <2>1, RanksAreNatural
    <3> QED
      BY <1>5, <3>2, <3>3
  <2> QED
    BY <1>4, <2>2, <2>3, <2>4, <2>5
<1>9. RanksInv'
  BY <1>1, <1>5, <1>7, <1>8 DEF RanksInv
<1> QED
  BY <1>6, <1>9

\* A new piece starts below every rank.
LEMMA TakePieceStartsRanks ==
    ASSUME PiecesInv, TakePiece
    PROVE  RanksInv'
<1> DEFINE text == Head(todo).text
           end == PieceEnd(text, cut)
           piece == SubSeq(text, cut, end - 1)
<1>1. phase = "pieces" /\ cut <= Len(text) /\ sym' = ByteEncode(piece) /\ rank' = 0
  BY DEF TakePiece
<1>2. Utf8Text(text) /\ cut \in Ends(text)
  BY <1>1 DEF PiecesInv, Cutting
<1>3. end \in Ends(text) /\ end > cut
  BY <1>1, <1>2, PieceFacts
<1>4. Ends(text) \subseteq Nat
  <2>1. text \in Seq(Bytes)
    BY <1>2 DEF Utf8Text
  <2> QED
    BY <2>1, EndsFacts
<1>5. cut <= end
  BY <1>2, <1>3, <1>4
<1>6. Utf8Text(piece)
  BY <1>2, <1>3, <1>5, SliceIsText
<1>7. piece \in Seq(Bytes)
  BY <1>6 DEF Utf8Text
<1> HIDE DEF text, end, piece
<1>8. sym' \in Seq(Symbols)
  BY <1>1, <1>7, EncodedIsSymbols
<1>9. \A j \in Mergeable(sym)' : MergeRank(sym'[j], sym'[j + 1]) \in Nat
  BY RanksAreNatural DEF Mergeable
<1> QED
  BY <1>1, <1>8, <1>9 DEF RanksInv

\* Every step keeps the ranks.
LEMMA StepKeepsRanks ==
    ASSUME PiecesInv, RanksInv, [Next]_vars
    PROVE  RanksInv'
<1>1. CASE Merge
  BY <1>1, MergeRaisesRanks
<1>2. CASE TakePiece
  BY <1>2, TakePieceStartsRanks
<1>3. CASE ScanChar \/ ScanSpecial \/ ScanEnd \/ StartSegment \/ Emit \/ EndSegment \/ Finish
  <2>1. phase' # "bpe" /\ UNCHANGED rank
    BY <1>3 DEF ScanChar, ScanSpecial, ScanEnd, StartSegment, Emit, EndSegment, Finish
  <2> QED
    BY <2>1 DEF RanksInv
<1>4. CASE UNCHANGED vars
  BY <1>4 DEF vars, RanksInv, Mergeable
<1> QED
  BY <1>1, <1>2, <1>3, <1>4 DEF Next

\* So they are kept throughout.
LEMMA RanksAlways == Spec => []RanksInv
<1>1. Init => RanksInv
  BY DEF Init, RanksInv
<1> QED
  BY <1>1, StepKeepsRanks, PiecesInvariant, PTL DEF Spec

(* With merges as TrainingAssumption has them, those of a piece never go back to a lower
   rank: merging the best pair again and again is merging rank by rank (tokenizer.rs
   bpe_emit_piece). *)
THEOREM RanksAlwaysAscend == Spec => RanksAscend
<1>1. PiecesInv /\ RanksInv /\ [Next]_vars
        => [phase = "bpe" /\ phase' = "bpe" => rank' >= rank]_vars
  <2> SUFFICES ASSUME PiecesInv, RanksInv, Next, phase = "bpe", phase' = "bpe"
               PROVE  rank' >= rank
    OBVIOUS
  <2>1. Merge
    BY DEF Next, ScanChar, ScanSpecial, ScanEnd, StartSegment, TakePiece, Emit, EndSegment,
           Finish
  <2> QED
    BY <2>1, MergeRaisesRanks
<1> QED
  BY <1>1, PiecesInvariant, RanksAlways, PTL DEF Spec, RanksAscend

-----------------------------------------------------------------------------
(* Recursion and concatenation.                                            *)

\* f[0] is v and each f[i] is the step g of i and the one before it.
Unfolds(f, n, v, g) == f[0] = v /\ \A i \in 1..n : f[i] = g[<<i, f[i - 1]>>]

\* Primitive recursion up to n: such a function exists.
LEMMA RecursionExists ==
    ASSUME NEW n \in Nat, NEW V, NEW v \in V, NEW g \in [(1..n) \X V -> V]
    PROVE  \E f \in [0..n -> V] : Unfolds(f, n, v, g)
<1> DEFINE Has(m) == \E f \in [0..m -> V] : Unfolds(f, m, v, g)
           T == {m \in 0..n : ~Has(m)}
<1> SUFFICES T = {}
  OBVIOUS
<1>1. SUFFICES ASSUME T # {} PROVE FALSE
  OBVIOUS
<1>2. PICK m \in T : \A y \in T : m <= y
  <2>1. T \subseteq Nat
    OBVIOUS
  <2> HIDE DEF T
  <2> QED
    BY <1>1, <2>1, LeastElement
<1>3. m \in 0..n /\ ~Has(m)
  BY <1>2
<1>4. CASE m = 0
  <2>1. Unfolds([i \in 0..0 |-> v], 0, v, g)
    BY DEF Unfolds
  <2> QED
    BY <1>3, <1>4, <2>1
<1>5. CASE m # 0
  <2>1. m - 1 \in 0..n /\ m - 1 \notin T
    BY <1>2, <1>3, <1>5
  <2>2. PICK f \in [0..(m - 1) -> V] : Unfolds(f, m - 1, v, g)
    BY <2>1
  <2> DEFINE h == [i \in 0..m |-> IF i = m THEN g[<<m, f[m - 1]>>] ELSE f[i]]
  <2>3. f[m - 1] \in V /\ m \in 1..n
    BY <1>3, <1>5, <2>2
  <2>4. g[<<m, f[m - 1]>>] \in V
    BY <2>3
  <2>5. h \in [0..m -> V]
    BY <1>3, <2>2, <2>4
  <2>6. h[0] = v
    BY <1>3, <1>5, <2>2 DEF Unfolds
  <2>7. ASSUME NEW i \in 1..m PROVE h[i] = g[<<i, h[i - 1]>>]
    <3>1. CASE i = m
      <4>1. m - 1 \in 0..m /\ m - 1 # m /\ m \in 0..m
        BY <1>3, <1>5
      <4>2. h[m - 1] = f[m - 1] /\ h[m] = g[<<m, f[m - 1]>>]
        BY <4>1
      <4> HIDE DEF h
      <4> QED
        BY <3>1, <4>2
    <3>2. CASE i # m
      <4>1. i \in 1..(m - 1) /\ i \in 0..m /\ i - 1 \in 0..m /\ i - 1 # m
        BY <1>3, <3>2
      <4>2. h[i] = f[i] /\ h[i - 1] = f[i - 1]
        BY <3>2, <4>1
      <4> QED
        BY <2>2, <4>1, <4>2 DEF Unfolds
    <3> QED
      BY <3>1, <3>2
  <2>8. Has(m)
    <3> HIDE DEF h
    <3> QED
      BY <2>5, <2>6, <2>7 DEF Unfolds
  <2> QED
    BY <1>3, <2>8
<1> QED
  BY <1>4, <1>5

\* f joins the first i of a sequence of sequences, for every i.
Joins(f, ss) == f[0] = <<>> /\ \A i \in 1..Len(ss) : f[i] = f[i - 1] \o ss[i]

\* There is one way to join them.
LEMMA JoinsOnce ==
    ASSUME NEW n \in Nat, NEW ss, Len(ss) = n, NEW f, NEW g, Joins(f, ss), Joins(g, ss)
    PROVE  \A i \in 0..n : f[i] = g[i]
<1> DEFINE T == {i \in 0..n : f[i] # g[i]}
<1> SUFFICES ASSUME T # {} PROVE FALSE
  OBVIOUS
<1>1. T \subseteq Nat
  OBVIOUS
<1>2. Min(T) \in T /\ \A y \in T : Min(T) <= y
  BY <1>1, LeastElement
<1> DEFINE m == Min(T)
<1>3. m \in 0..n /\ f[m] # g[m] /\ \A y \in 0..n : f[y] # g[y] => m <= y
  BY <1>2
<1> HIDE DEF m, T
<1>4. m # 0
  BY <1>3 DEF Joins
<1>5. m \in 1..n /\ m - 1 \in 0..n /\ ~(m <= m - 1)
  BY <1>3, <1>4
<1>6. f[m - 1] = g[m - 1]
  BY <1>3, <1>5
<1>7. f[m] = f[m - 1] \o ss[m] /\ g[m] = g[m - 1] \o ss[m]
  BY <1>5 DEF Joins
<1> QED
  BY <1>3, <1>6, <1>7

\* What Flat computes, from one sequence to the next.
LEMMA FlatJoins ==
    ASSUME NEW S, NEW ss \in Seq(Seq(S))
    PROVE  \E f \in [0..Len(ss) -> Seq(S)] : Joins(f, ss) /\ Flat(ss) = f[Len(ss)]
<1> DEFINE n == Len(ss)
           g == [x \in (1..n) \X Seq(S) |-> x[2] \o ss[x[1]]]
<1>1. n \in Nat /\ \A i \in 1..n : ss[i] \in Seq(S)
  OBVIOUS
<1>2. g \in [(1..n) \X Seq(S) -> Seq(S)]
  <2>1. \A x \in (1..n) \X Seq(S) : x[1] \in 1..n /\ x[2] \in Seq(S)
    OBVIOUS
  <2>2. \A x \in (1..n) \X Seq(S) : x[2] \o ss[x[1]] \in Seq(S)
    BY <1>1, <2>1
  <2> QED
    BY <2>2
<1>3. \A i \in 1..n : \A e \in Seq(S) : g[<<i, e>>] = e \o ss[i]
  OBVIOUS
<1>0. <<>> \in Seq(S)
  OBVIOUS
<1> HIDE DEF g, n
<1>4. PICK f \in [0..n -> Seq(S)] : Unfolds(f, n, <<>>, g)
  BY <1>0, <1>1, <1>2, RecursionExists
<1>5. Joins(f, ss)
  <2>1. \A i \in 1..n : i - 1 \in 0..n /\ f[i - 1] \in Seq(S)
    BY <1>1
  <2> QED
    BY <1>3, <1>4, <2>1 DEF Unfolds, Joins, n
<1>6. Flat(ss) = f[n]
  <2>1. CASE n = 0
    <3>1. ss = <<>>
      BY <2>1 DEF n
    <3>2. Flat(ss) = ss
      BY <2>1 DEF Flat, FlattenSeq, n
    <3> QED
      BY <1>5, <2>1, <3>1, <3>2 DEF Joins
  <2>2. CASE n # 0
    <3> DEFINE Rec(p) == p = [i \in 1..n |-> IF i = 1 THEN ss[i] ELSE p[i - 1] \o ss[i]]
               q == [i \in 1..n |-> f[i]]
    <3>1. \A i \in 1..n : q[i] = IF i = 1 THEN ss[i] ELSE q[i - 1] \o ss[i]
      <4> SUFFICES ASSUME NEW i \in 1..n
                   PROVE  f[i] = IF i = 1 THEN ss[i] ELSE q[i - 1] \o ss[i]
        OBVIOUS
      <4>1. f[i] = f[i - 1] \o ss[i]
        BY <1>5 DEF Joins, n
      <4>2. CASE i = 1
        <5>1. f[0] = <<>> /\ i - 1 = 0
          BY <1>5, <4>2 DEF Joins
        <5>2. <<>> \o ss[i] = ss[i]
          BY <1>1, ConcatEmptySeq
        <5> QED
          BY <4>1, <4>2, <5>1, <5>2
      <4>3. CASE i # 1
        <5>1. i - 1 \in 1..n
          BY <1>1, <4>3
        <5>2. q[i - 1] = f[i - 1]
          BY <5>1
        <5> QED
          BY <4>1, <4>3, <5>2
      <4> QED
        BY <4>2, <4>3
    <3>2. Rec(q)
      BY <3>1
    <3> HIDE DEF q
    <3>3. PICK p : Rec(p) /\ Flat(ss) = p[n]
      BY <2>2, <3>2 DEF Flat, FlattenSeq, n
    <3> DEFINE h == [i \in 0..n |-> IF i = 0 THEN <<>> ELSE p[i]]
    <3>4. ASSUME NEW i \in 1..n PROVE h[i] = h[i - 1] \o ss[i]
      <4>0. h[i] = p[i]
        BY <1>1
      <4>1. p[i] = IF i = 1 THEN ss[i] ELSE p[i - 1] \o ss[i]
        BY <3>3
      <4>2. CASE i = 1
        <5>1. h[i - 1] = <<>>
          BY <1>1, <4>2
        <5>2. <<>> \o ss[i] = ss[i]
          BY <1>1, ConcatEmptySeq
        <5> HIDE DEF h
        <5> QED
          BY <4>0, <4>1, <4>2, <5>1, <5>2
      <4>3. CASE i # 1
        <5>1. i - 1 \in 0..n /\ i - 1 # 0
          BY <1>1, <4>3
        <5>2. h[i - 1] = p[i - 1]
          BY <5>1
        <5> HIDE DEF h
        <5> QED
          BY <4>0, <4>1, <4>3, <5>2
      <4> QED
        BY <4>2, <4>3
    <3>5. h[0] = <<>> /\ h[n] = p[n]
      BY <1>1, <2>2
    <3> HIDE DEF h
    <3>6. Joins(h, ss)
      BY <3>4, <3>5 DEF Joins, n
    <3>7. h[n] = f[n]
      <4>1. \A i \in 0..n : h[i] = f[i]
        BY <1>1, <1>5, <3>6, JoinsOnce DEF n
      <4> QED
        BY <1>1, <4>1
    <3> QED
      BY <3>3, <3>5, <3>7
  <2> QED
    BY <2>1, <2>2
<1> QED
  BY <1>4, <1>5, <1>6 DEF n

\* Whatever joins them ends with Flat.
LEMMA FlatIs ==
    ASSUME NEW S, NEW ss \in Seq(Seq(S)), NEW f, Joins(f, ss)
    PROVE  Flat(ss) = f[Len(ss)]
<1>1. Len(ss) \in Nat
  OBVIOUS
<1>2. PICK g \in [0..Len(ss) -> Seq(S)] : Joins(g, ss) /\ Flat(ss) = g[Len(ss)]
  BY FlatJoins
<1>3. \A i \in 0..Len(ss) : f[i] = g[i]
  BY <1>1, <1>2, JoinsOnce
<1> QED
  BY <1>1, <1>2, <1>3

\* The elements of Flat are those of the sequences.
LEMMA FlatType ==
    ASSUME NEW S, NEW ss \in Seq(Seq(S))
    PROVE  Flat(ss) \in Seq(S)
<1>1. PICK f \in [0..Len(ss) -> Seq(S)] : Joins(f, ss) /\ Flat(ss) = f[Len(ss)]
  BY FlatJoins
<1> QED
  BY <1>1

\* Nothing joined is nothing.
LEMMA FlatNil == Flat(<<>>) = <<>>
BY DEF Flat, FlattenSeq

\* One sequence joined is itself.
LEMMA FlatOne ==
    ASSUME NEW S, NEW x \in Seq(S)
    PROVE  Flat(<<x>>) = x
<1> DEFINE ss == <<x>>
<1>1. ss \in Seq(Seq(S)) /\ Len(ss) = 1 /\ ss[1] = x
  OBVIOUS
<1> HIDE DEF ss
<1>2. PICK f \in [0..Len(ss) -> Seq(S)] : Joins(f, ss) /\ Flat(ss) = f[Len(ss)]
  BY <1>1, FlatJoins
<1>3. f[1] = f[1 - 1] \o x /\ f[0] = <<>> /\ 1 - 1 = 0
  BY <1>1, <1>2 DEF Joins
<1>4. <<>> \o x = x
  BY ConcatEmptySeq
<1>5. Flat(ss) = x
  BY <1>1, <1>2, <1>3, <1>4
<1> QED
  BY <1>5 DEF ss

\* Joining, kept folded where only its associativity matters.
Cat(a, b) == a \o b

\* Three lists joined either way.
LEMMA CatAssociative ==
    ASSUME NEW S, NEW x \in Seq(S), NEW y \in Seq(S), NEW z \in Seq(S)
    PROVE  Cat(Cat(x, y), z) = Cat(x, Cat(y, z))
BY ConcatAssociative DEF Cat

\* Two lists joined one after the other.
LEMMA FlatConcat ==
    ASSUME NEW S, NEW a \in Seq(Seq(S)), NEW b \in Seq(Seq(S))
    PROVE  Flat(a \o b) = Flat(a) \o Flat(b)
<1> DEFINE m == Len(a)
           n == Len(b)
           c == a \o b
<1>1. m \in Nat /\ n \in Nat
  OBVIOUS
<1>2. /\ c \in Seq(Seq(S)) /\ Len(c) = m + n
      /\ \A i \in 1..(m + n) : c[i] = IF i <= m THEN a[i] ELSE b[i - m]
  BY ConcatProperties
<1>3. PICK f \in [0..m -> Seq(S)] : Joins(f, a) /\ Flat(a) = f[m]
  BY FlatJoins
<1>4. PICK g \in [0..n -> Seq(S)] : Joins(g, b) /\ Flat(b) = g[n]
  BY FlatJoins
<1> DEFINE h == [i \in 0..(m + n) |-> IF i <= m THEN f[i] ELSE f[m] \o g[i - m]]
<1>5. \A i \in 1..n : b[i] \in Seq(S)
  OBVIOUS
<1>0. /\ f[0] = <<>> /\ \A i \in 1..m : f[i] = f[i - 1] \o a[i]
      /\ g[0] = <<>> /\ \A i \in 1..n : g[i] = g[i - 1] \o b[i]
  BY <1>3, <1>4 DEF Joins
<1> HIDE DEF m, n, c
<1>6. ASSUME NEW i \in 1..(m + n) PROVE h[i] = h[i - 1] \o c[i]
  <2>0. i \in 0..(m + n) /\ i - 1 \in 0..(m + n)
    BY <1>1
  <2>1. CASE i <= m
    <3>1. i \in 1..m /\ i - 1 <= m
      BY <1>1, <2>1
    <3>2. h[i] = f[i] /\ h[i - 1] = f[i - 1] /\ c[i] = a[i]
      BY <1>2, <2>0, <2>1, <3>1
    <3> QED
      BY <1>0, <3>1, <3>2
  <2>2. CASE i > m
    <3> DEFINE j == i - m
    <3>1. j \in 1..n /\ j - 1 \in 0..n /\ (i - 1) - m = j - 1 /\ ~(i <= m)
      BY <1>1, <2>2
    <3>2. h[i] = f[m] \o g[j] /\ c[i] = b[j]
      BY <1>2, <2>0, <3>1
    <3>3. h[i - 1] = f[m] \o g[j - 1]
      <4>1. CASE i - 1 <= m
        <5>1. i - 1 = m /\ j - 1 = 0
          BY <1>1, <2>2, <4>1
        <5>2. g[j - 1] = <<>>
          BY <1>0, <5>1
        <5>3. f[m] \in Seq(S)
          BY <1>1, <1>3
        <5>4. f[m] \o <<>> = f[m]
          BY <5>3, ConcatEmptySeq
        <5>5. h[i - 1] = f[m]
          BY <2>0, <4>1, <5>1
        <5> QED
          BY <5>2, <5>4, <5>5
      <4>2. CASE ~(i - 1 <= m)
        BY <2>0, <3>1, <4>2
      <4> QED
        BY <4>1, <4>2
    <3> HIDE DEF j, h
    <3>4. g[j] = g[j - 1] \o b[j]
      BY <1>0, <3>1
    <3>5. f[m] \in Seq(S) /\ g[j - 1] \in Seq(S) /\ b[j] \in Seq(S)
      BY <1>1, <1>3, <1>4, <1>5, <3>1
    <3>6. (f[m] \o g[j - 1]) \o b[j] = f[m] \o (g[j - 1] \o b[j])
      <4> DEFINE x == f[m]
                 y == g[j - 1]
                 z == b[j]
      <4>1. x \in Seq(S) /\ y \in Seq(S) /\ z \in Seq(S)
        BY <3>5
      <4> HIDE DEF x, y, z
      <4>2. Cat(Cat(x, y), z) = Cat(x, Cat(y, z))
        BY <4>1, CatAssociative
      <4>3. (x \o y) \o z = x \o (y \o z)
        BY <4>2, Zenon DEF Cat
      <4> QED
        BY <4>3 DEF x, y, z
    <3> QED
      BY <3>2, <3>3, <3>4, <3>6
  <2>3. i <= m \/ i > m
    BY <1>1
  <2> HIDE DEF h
  <2> QED
    BY <2>1, <2>2, <2>3
<1>7. h[0] = <<>>
  BY <1>0, <1>1
<1>8. h[m + n] = f[m] \o g[n]
  <2>1. CASE n = 0
    <3>1. g[n] = <<>> /\ f[m] \in Seq(S)
      BY <1>0, <1>1, <1>3, <2>1
    <3>2. f[m] \o <<>> = f[m]
      BY <3>1, ConcatEmptySeq
    <3> QED
      BY <1>1, <2>1, <3>1, <3>2
  <2>2. CASE n # 0
    <3>1. ~(m + n <= m) /\ (m + n) - m = n /\ m + n \in 0..(m + n)
      BY <1>1, <2>2
    <3> QED
      BY <3>1
  <2> QED
    BY <2>1, <2>2
<1> HIDE DEF h
<1>9. Joins(h, c)
  BY <1>2, <1>6, <1>7 DEF Joins
<1>10. Flat(c) = h[m + n]
  BY <1>2, <1>9, FlatIs
<1> QED
  BY <1>3, <1>4, <1>8, <1>10 DEF c

\* h gives a sequence of members of S for each member of D.
Lists(h, D, S) == h \in [D -> Seq(S)]

\* What a function to sequences makes of each element, joined.
Image(h, s) == [i \in DOMAIN s |-> h[s[i]]]
Spread(h, s) == Flat(Image(h, s))

\* The image is a list of sequences.
LEMMA ImageIs ==
    ASSUME NEW D, NEW S, NEW h, Lists(h, D, S), NEW s \in Seq(D)
    PROVE  /\ Image(h, s) \in Seq(Seq(S)) /\ Len(Image(h, s)) = Len(s)
           /\ \A i \in 1..Len(s) : Image(h, s)[i] = h[s[i]]
<1>1. Len(s) \in Nat /\ DOMAIN s = 1..Len(s) /\ \A i \in 1..Len(s) : s[i] \in D
  OBVIOUS
<1>2. \A i \in 1..Len(s) : h[s[i]] \in Seq(S)
  BY <1>1 DEF Lists
<1>3. Image(h, s) = [i \in 1..Len(s) |-> h[s[i]]]
  BY <1>1 DEF Image
<1> QED
  BY <1>1, <1>2, <1>3

\* What each gives is a list, and so is all of it.
LEMMA SpreadType ==
    ASSUME NEW D, NEW S, NEW h, Lists(h, D, S), NEW s \in Seq(D)
    PROVE  Spread(h, s) \in Seq(S)
BY ImageIs, FlatType DEF Spread

\* Nothing gives nothing.
LEMMA SpreadNil ==
    ASSUME NEW h
    PROVE  Spread(h, <<>>) = <<>>
<1>1. Image(h, <<>>) = <<>>
  BY DEF Image
<1> QED
  BY <1>1, FlatNil DEF Spread

\* One gives what it gives.
LEMMA SpreadOne ==
    ASSUME NEW D, NEW S, NEW h, Lists(h, D, S), NEW d \in D
    PROVE  Spread(h, <<d>>) = h[d]
<1>1. h[d] \in Seq(S)
  BY DEF Lists
<1>2. Image(h, <<d>>) = <<h[d]>>
  <2> DEFINE s == <<d>>
             t == <<h[d]>>
  <2>1. s \in Seq(D) /\ Len(s) = 1 /\ s[1] = d
    OBVIOUS
  <2>2. t \in Seq(Seq(S)) /\ Len(t) = 1 /\ t[1] = h[d]
    BY <1>1
  <2> HIDE DEF s, t
  <2>3. Image(h, s) \in Seq(Seq(S)) /\ Len(Image(h, s)) = 1 /\ Image(h, s)[1] = h[d]
    <3>1. /\ Image(h, s) \in Seq(Seq(S)) /\ Len(Image(h, s)) = Len(s)
          /\ \A i \in 1..Len(s) : Image(h, s)[i] = h[s[i]]
      BY <2>1, ImageIs
    <3> QED
      BY <2>1, <3>1
  <2>4. \A i \in 1..1 : Image(h, s)[i] = t[i]
    BY <2>2, <2>3
  <2>5. Image(h, s) = t
    BY <2>2, <2>3, <2>4, SeqEqual
  <2> QED
    BY <2>5 DEF s, t
<1> QED
  BY <1>1, <1>2, FlatOne DEF Spread

\* Two lists one after the other.
LEMMA SpreadConcat ==
    ASSUME NEW D, NEW S, NEW h, Lists(h, D, S), NEW a \in Seq(D), NEW b \in Seq(D)
    PROVE  Spread(h, a \o b) = Spread(h, a) \o Spread(h, b)
<1> DEFINE x == Image(h, a)
           y == Image(h, b)
           z == Image(h, a \o b)
           m == Len(a)
           n == Len(b)
<1>1. m \in Nat /\ n \in Nat
  OBVIOUS
<1>2. /\ a \o b \in Seq(D) /\ Len(a \o b) = m + n
      /\ \A i \in 1..(m + n) : (a \o b)[i] = IF i <= m THEN a[i] ELSE b[i - m]
  BY ConcatProperties
<1>3. x \in Seq(Seq(S)) /\ Len(x) = m /\ \A i \in 1..m : x[i] = h[a[i]]
  BY ImageIs
<1>4. y \in Seq(Seq(S)) /\ Len(y) = n /\ \A i \in 1..n : y[i] = h[b[i]]
  BY ImageIs
<1>5. z \in Seq(Seq(S)) /\ Len(z) = m + n /\ \A i \in 1..(m + n) : z[i] = h[(a \o b)[i]]
  <2> DEFINE c == a \o b
  <2>1. c \in Seq(D) /\ Len(c) = m + n
    BY <1>2
  <2> HIDE DEF c, m, n
  <2>2. /\ Image(h, c) \in Seq(Seq(S)) /\ Len(Image(h, c)) = Len(c)
        /\ \A i \in 1..Len(c) : Image(h, c)[i] = h[c[i]]
    BY <2>1, ImageIs
  <2> QED
    BY <2>1, <2>2 DEF c
<1> HIDE DEF x, y, z, m, n
<1>6. /\ x \o y \in Seq(Seq(S)) /\ Len(x \o y) = m + n
      /\ \A i \in 1..(m + n) : (x \o y)[i] = IF i <= m THEN x[i] ELSE y[i - m]
  <2>1. x \in Seq(Seq(S)) /\ y \in Seq(Seq(S)) /\ Len(x) = m /\ Len(y) = n
    BY <1>3, <1>4
  <2>2. /\ x \o y \in Seq(Seq(S)) /\ Len(x \o y) = Len(x) + Len(y)
        /\ \A i \in 1..(Len(x) + Len(y)) : (x \o y)[i] = IF i <= Len(x) THEN x[i] ELSE y[i - Len(x)]
    BY <2>1, ConcatProperties, Zenon
  <2> QED
    BY <2>1, <2>2, Zenon
<1> DEFINE c == a \o b
           w == x \o y
<1>0. /\ w \in Seq(Seq(S)) /\ Len(w) = m + n
      /\ \A i \in 1..(m + n) : z[i] = h[c[i]]
      /\ \A i \in 1..(m + n) : c[i] = IF i <= m THEN a[i] ELSE b[i - m]
      /\ \A i \in 1..(m + n) : w[i] = IF i <= m THEN x[i] ELSE y[i - m]
  BY <1>2, <1>5, <1>6
<1> HIDE DEF c, w
<1>7. ASSUME NEW i \in 1..(m + n) PROVE z[i] = w[i]
  <2>1. CASE i <= m
    <3>1. i \in 1..m
      BY <1>1, <2>1
    <3>2. c[i] = a[i] /\ w[i] = x[i]
      BY <1>0, <2>1
    <3>3. z[i] = h[c[i]] /\ x[i] = h[a[i]]
      BY <1>0, <1>3, <3>1
    <3> QED
      BY <3>2, <3>3
  <2>2. CASE i > m
    <3>1. i - m \in 1..n /\ ~(i <= m)
      BY <1>1, <2>2
    <3>2. c[i] = b[i - m] /\ w[i] = y[i - m]
      BY <1>0, <3>1
    <3>3. z[i] = h[c[i]] /\ y[i - m] = h[b[i - m]]
      BY <1>0, <1>4, <3>1
    <3> QED
      BY <3>2, <3>3
  <2> QED
    BY <1>1, <2>1, <2>2
<1>8. z = x \o y
  <2>1. z \in Seq(Seq(S)) /\ Len(w) = Len(z) /\ \A i \in 1..Len(z) : z[i] = w[i]
    BY <1>0, <1>5, <1>7
  <2>2. z = w
    BY <1>0, <2>1, SeqEqual
  <2> QED
    BY <2>2 DEF w
<1>9. Flat(x \o y) = Flat(x) \o Flat(y)
  BY <1>3, <1>4, FlatConcat
<1> QED
  BY <1>8, <1>9 DEF Spread, x, y, z

\* A list of lists, one list at a time.
LEMMA SpreadFlat ==
    ASSUME NEW D, NEW S, NEW h, Lists(h, D, S), NEW ss \in Seq(Seq(D))
    PROVE  /\ Spread(h, Flat(ss)) = Flat([i \in DOMAIN ss |-> Spread(h, ss[i])])
           /\ [i \in DOMAIN ss |-> Spread(h, ss[i])] \in Seq(Seq(S))
<1> DEFINE n == Len(ss)
           t == [i \in DOMAIN ss |-> Spread(h, ss[i])]
<1>1. n \in Nat /\ DOMAIN ss = 1..n /\ \A i \in 1..n : ss[i] \in Seq(D)
  OBVIOUS
<1>2. t \in Seq(Seq(S)) /\ Len(t) = n /\ \A i \in 1..n : t[i] = Spread(h, ss[i])
  <2>1. \A i \in 1..n : Spread(h, ss[i]) \in Seq(S)
    BY <1>1, SpreadType
  <2>2. t = [i \in 1..n |-> Spread(h, ss[i])]
    BY <1>1
  <2> QED
    BY <1>1, <2>1, <2>2
<1>3. PICK f \in [0..n -> Seq(D)] : Joins(f, ss) /\ Flat(ss) = f[n]
  BY FlatJoins
<1>4. f[0] = <<>> /\ \A i \in 1..n : f[i] = f[i - 1] \o ss[i]
  BY <1>3 DEF Joins
<1> DEFINE k == [i \in 0..n |-> Spread(h, f[i])]
<1> HIDE DEF n, t
<1>5. ASSUME NEW i \in 1..n PROVE k[i] = k[i - 1] \o t[i]
  <2>1. i \in 0..n /\ i - 1 \in 0..n
    BY <1>1
  <2>2. k[i] = Spread(h, f[i]) /\ k[i - 1] = Spread(h, f[i - 1]) /\ t[i] = Spread(h, ss[i])
    BY <1>2, <2>1
  <2> DEFINE x == f[i - 1]
             y == ss[i]
  <2>3. x \in Seq(D) /\ y \in Seq(D) /\ f[i] = x \o y
    BY <1>1, <1>3, <1>4, <2>1
  <2> HIDE DEF x, y, k
  <2>4. Spread(h, x \o y) = Spread(h, x) \o Spread(h, y)
    BY <2>3, SpreadConcat
  <2> QED
    BY <2>2, <2>3, <2>4 DEF x, y
<1>6. k[0] = <<>> /\ k[n] = Spread(h, f[n])
  BY <1>1, <1>4, SpreadNil
<1> HIDE DEF k
<1>7. Joins(k, t)
  BY <1>2, <1>5, <1>6 DEF Joins
<1>8. Flat(t) = k[n]
  BY <1>2, <1>7, FlatIs
<1> QED
  BY <1>2, <1>3, <1>6, <1>8 DEF t

\* Single elements joined.
LEMMA FlatSingles ==
    ASSUME NEW S, NEW s \in Seq(S)
    PROVE  /\ Flat([i \in DOMAIN s |-> <<s[i]>>]) = s
           /\ [i \in DOMAIN s |-> <<s[i]>>] \in Seq(Seq(S))
<1> DEFINE n == Len(s)
           t == [i \in DOMAIN s |-> <<s[i]>>]
           f == [i \in 0..n |-> SubSeq(s, 1, i)]
<1>1. n \in Nat /\ DOMAIN s = 1..n /\ \A i \in 1..n : s[i] \in S
  OBVIOUS
<1>2. t \in Seq(Seq(S)) /\ Len(t) = n /\ \A i \in 1..n : t[i] = <<s[i]>>
  <2>1. \A i \in 1..n : <<s[i]>> \in Seq(S)
    BY <1>1
  <2>2. t = [i \in 1..n |-> <<s[i]>>]
    BY <1>1
  <2> HIDE DEF n, t
  <2> QED
    BY <1>1, <2>1, <2>2
<1>3. \A i \in 0..n : f[i] = SubSeq(s, 1, i)
  OBVIOUS
<1>4. SubSeq(s, 1, n) = s
  BY SubSeqFull
<1>5. SubSeq(s, 1, 0) = <<>>
  BY SubSeqEmpty
<1> HIDE DEF n, t, f
<1>6. ASSUME NEW i \in 1..n PROVE f[i] = f[i - 1] \o t[i]
  <2>1. i \in 0..n /\ i - 1 \in 0..n
    BY <1>1
  <2>2. 1 \in 1..n /\ i \in 1..n
    BY <1>1
  <2>3. SubSeq(s, 1, i) = SubSeq(s, 1, i - 1) \o <<s[i]>>
    BY <2>2, SubSeqRecursiveSecond DEF n
  <2>4. f[i] = SubSeq(s, 1, i) /\ f[i - 1] = SubSeq(s, 1, i - 1) /\ t[i] = <<s[i]>>
    BY <1>2, <1>3, <2>1
  <2> QED
    BY <2>3, <2>4, Zenon
<1>7. f[0] = <<>> /\ f[n] = s
  BY <1>1, <1>3, <1>4, <1>5
<1>8. Joins(f, t)
  BY <1>2, <1>6, <1>7 DEF Joins
<1>9. Flat(t) = f[n]
  BY <1>2, <1>8, FlatIs
<1> QED
  BY <1>2, <1>7, <1>9 DEF t

\* Empty sequences joined.
LEMMA FlatEmpties ==
    ASSUME NEW ss \in Seq({<<>>})
    PROVE  Flat(ss) = <<>>
<1> DEFINE n == Len(ss)
           f == [i \in 0..n |-> <<>>]
<1>1. n \in Nat /\ \A i \in 1..n : ss[i] = <<>>
  OBVIOUS
<1>2. ss \in Seq(Seq(Nat))
  <2>1. {<<>>} \subseteq Seq(Nat)
    OBVIOUS
  <2> QED
    BY <2>1, SeqMonotonic
<1>3. \A i \in 0..n : f[i] = <<>>
  OBVIOUS
<1>4. <<>> \o <<>> = <<>>
  OBVIOUS
<1> HIDE DEF n, f
<1>5. Joins(f, ss)
  <2>1. f[0] = <<>>
    BY <1>1, <1>3
  <2>2. ASSUME NEW i \in 1..n PROVE f[i] = f[i - 1] \o ss[i]
    <3>1. i \in 0..n /\ i - 1 \in 0..n
      BY <1>1
    <3>2. f[i] = <<>> /\ f[i - 1] = <<>> /\ ss[i] = <<>>
      BY <1>1, <1>3, <3>1
    <3> QED
      BY <1>4, <3>2
  <2> QED
    BY <2>1, <2>2 DEF Joins, n
<1>6. Flat(ss) = f[n]
  BY <1>2, <1>5, FlatIs DEF n
<1> QED
  BY <1>1, <1>3, <1>6

-----------------------------------------------------------------------------
(* The byte alphabet.                                                      *)

\* The size of an interval, and of two sets that share nothing.
LEMMA IntervalSize ==
    ASSUME NEW a \in Nat, NEW n \in Nat
    PROVE  IsFiniteSet(a..(a + n)) /\ Cardinality(a..(a + n)) = n + 1
<1> DEFINE b == a + n
<1>1. a \in Int /\ b \in Int /\ ~(a > b) /\ b - a + 1 = n + 1
  OBVIOUS
<1> HIDE DEF b
<1>2. IsFiniteSet(a..b) /\ Cardinality(a..b) = IF a > b THEN 0 ELSE b - a + 1
  BY <1>1, FS_Interval
<1>3. IsFiniteSet(a..b) /\ Cardinality(a..b) = n + 1
  BY <1>1, <1>2
<1> QED
  BY <1>3 DEF b

\* Two sets that share nothing.
LEMMA ApartSize ==
    ASSUME NEW A, NEW B, NEW m \in Nat, NEW n \in Nat, A \cap B = {},
           IsFiniteSet(A), Cardinality(A) = m, IsFiniteSet(B), Cardinality(B) = n
    PROVE  IsFiniteSet(A \cup B) /\ Cardinality(A \cup B) = m + n
<1>1. /\ IsFiniteSet(A \cup B)
      /\ Cardinality(A \cup B) = Cardinality(A) + Cardinality(B) - Cardinality(A \cap B)
  BY FS_Union
<1>2. Cardinality(A \cap B) = 0
  BY FS_EmptySet
<1> QED
  BY <1>1, <1>2

\* There are 68 bytes with a code point of their own.
LEMMA UnprintableIs == IsFiniteSet(Unprintable) /\ Cardinality(Unprintable) = 68
<1> DEFINE A == 0..32
           B == 127..160
           C == {173}
<1>2. IsFiniteSet(A) /\ Cardinality(A) = 33
  <2>1. IsFiniteSet(0..(0 + 32)) /\ Cardinality(0..(0 + 32)) = 32 + 1
    BY IntervalSize
  <2> QED
    BY <2>1
<1>3. IsFiniteSet(B) /\ Cardinality(B) = 34
  <2>1. IsFiniteSet(127..(127 + 33)) /\ Cardinality(127..(127 + 33)) = 33 + 1
    BY IntervalSize
  <2> QED
    BY <2>1
<1>4. IsFiniteSet(C) /\ Cardinality(C) = 1
  BY FS_Singleton
<1>5. A \cap B = {} /\ (A \cup B) \cap C = {}
  OBVIOUS
<1> HIDE DEF A, B, C
<1>7. IsFiniteSet(A \cup B) /\ Cardinality(A \cup B) = 67
  <2>1. IsFiniteSet(A \cup B) /\ Cardinality(A \cup B) = 33 + 34
    BY <1>2, <1>3, <1>5, ApartSize
  <2> QED
    BY <2>1
<1>8. IsFiniteSet((A \cup B) \cup C) /\ Cardinality((A \cup B) \cup C) = 68
  <2> DEFINE U == A \cup B
  <2>1. IsFiniteSet(U) /\ Cardinality(U) = 67 /\ U \cap C = {}
    BY <1>5, <1>7
  <2> HIDE DEF U
  <2>2. IsFiniteSet(U \cup C) /\ Cardinality(U \cup C) = 67 + 1
    BY <1>4, <2>1, ApartSize
  <2> QED
    BY <2>2 DEF U
<1>9. Unprintable = (A \cup B) \cup C
  BY DEF Unprintable, A, B, C
<1> QED
  BY <1>8, <1>9

\* How many of them come before a byte.
Before(b) == {x \in Unprintable : x < b}

\* The unprintable bytes are counted in order.
LEMMA BeforeIs ==
    ASSUME NEW b \in Nat
    PROVE  /\ IsFiniteSet(Before(b)) /\ Cardinality(Before(b)) \in Nat
           /\ b \in Unprintable => Cardinality(Before(b)) <= 67
           /\ \A c \in Unprintable : c < b => Cardinality(Before(c)) < Cardinality(Before(b))
<1>0. \A x \in Unprintable : x \in Nat
  BY DEF Unprintable
<1>1. \A x \in Nat : IsFiniteSet(Before(x)) /\ Cardinality(Before(x)) \in Nat
  <2> SUFFICES ASSUME NEW x \in Nat PROVE IsFiniteSet(Before(x)) /\ Cardinality(Before(x)) \in Nat
    OBVIOUS
  <2>1. Before(x) \subseteq Unprintable
    BY DEF Before
  <2>2. IsFiniteSet(Before(x))
    BY <2>1, UnprintableIs, FS_Subset
  <2> QED
    BY <2>2, FS_CardinalityType
<1>2. ASSUME b \in Unprintable PROVE Cardinality(Before(b)) <= 67
  <2>1. Before(b) \subseteq Unprintable /\ Before(b) # Unprintable
    BY <1>2 DEF Before
  <2>2. Cardinality(Before(b)) < Cardinality(Unprintable)
    <3>1. /\ Cardinality(Before(b)) <= Cardinality(Unprintable)
          /\ Cardinality(Before(b)) = Cardinality(Unprintable) => Before(b) = Unprintable
      BY <2>1, UnprintableIs, FS_Subset
    <3> QED
      BY <1>1, <2>1, <3>1, UnprintableIs
  <2> QED
    BY <1>1, <2>2, UnprintableIs
<1>3. ASSUME NEW c \in Unprintable, c < b
      PROVE  Cardinality(Before(c)) < Cardinality(Before(b))
  <2>1. Before(c) \subseteq Before(b) /\ Before(c) # Before(b) /\ c \in Nat
    BY <1>0, <1>3 DEF Before
  <2>2. /\ Cardinality(Before(c)) <= Cardinality(Before(b))
        /\ Cardinality(Before(c)) = Cardinality(Before(b)) => Before(c) = Before(b)
    BY <1>1, <2>1, FS_Subset
  <2> QED
    BY <1>1, <2>1, <2>2
<1> QED
  BY <1>1, <1>2, <1>3

\* Every byte has a code point of its own, up to 323.
LEMMA CodepointOf ==
    ASSUME NEW b \in Bytes
    PROVE  /\ b \notin Unprintable => ByteToCodepoint(b) = b
           /\ b \in Unprintable => ByteToCodepoint(b) \in 256..323
           /\ ByteToCodepoint(b) \in 0..323
<1>1. b \in Nat /\ b \in 0..255
  BY DEF Bytes
<1>2. b \notin Unprintable => ByteToCodepoint(b) = b
  BY DEF ByteToCodepoint
<1>3. b \in Unprintable => ByteToCodepoint(b) \in 256..323
  <2> SUFFICES ASSUME b \in Unprintable PROVE ByteToCodepoint(b) \in 256..323
    OBVIOUS
  <2>1. ByteToCodepoint(b) = 256 + Cardinality(Before(b))
    BY DEF ByteToCodepoint, Before
  <2>2. Cardinality(Before(b)) \in Nat /\ Cardinality(Before(b)) <= 67
    BY <1>1, BeforeIs
  <2> QED
    BY <2>1, <2>2
<1> QED
  BY <1>1, <1>2, <1>3

\* No two bytes have the same code point (gpt2_byte_to_codepoint).
LEMMA CodepointsDiffer ==
    ASSUME NEW b \in Bytes, NEW c \in Bytes, ByteToCodepoint(b) = ByteToCodepoint(c)
    PROVE  b = c
<1>1. b \in Nat /\ c \in Nat /\ b < 256 /\ c < 256
  BY DEF Bytes
<1>2. CASE b \in Unprintable /\ c \in Unprintable
  <2>1. /\ ByteToCodepoint(b) = 256 + Cardinality(Before(b))
        /\ ByteToCodepoint(c) = 256 + Cardinality(Before(c))
    BY <1>2 DEF ByteToCodepoint, Before
  <2>2. Cardinality(Before(b)) \in Nat /\ Cardinality(Before(c)) \in Nat
    BY <1>1, BeforeIs
  <2>3. Cardinality(Before(b)) = Cardinality(Before(c))
    <3> DEFINE x == Cardinality(Before(b))
               y == Cardinality(Before(c))
    <3>1. x \in Nat /\ y \in Nat /\ 256 + x = 256 + y
      BY <2>1, <2>2
    <3> HIDE DEF x, y
    <3>2. x = y
      BY <3>1
    <3> QED
      BY <3>2 DEF x, y
  <2>4. ~(b < c)
    BY <1>1, <1>2, <2>2, <2>3, BeforeIs
  <2>5. ~(c < b)
    BY <1>1, <1>2, <2>2, <2>3, BeforeIs
  <2> QED
    BY <1>1, <2>4, <2>5
<1>3. CASE b \notin Unprintable \/ c \notin Unprintable
  BY <1>1, <1>3, CodepointOf
<1> QED
  BY <1>2, <1>3

\* gpt2_codepoint_to_byte finds the byte again, and nothing in what is no byte's.
LEMMA CodepointBack ==
    /\ \A b \in Bytes : CodepointToByte(ByteToCodepoint(b)) = b
    /\ \A cp \in Nat : (\A b \in Bytes : ByteToCodepoint(b) # cp) => CodepointToByte(cp) = None
<1> DEFINE T(cp) == {b \in (Unprintable \union {cp}) \intersect (0..255) : ByteToCodepoint(b) = cp}
<1>1. \A cp : CodepointToByte(cp) = IF T(cp) = {} THEN None ELSE Min(T(cp))
  BY DEF CodepointToByte
<1>2. ASSUME NEW b \in Bytes PROVE CodepointToByte(ByteToCodepoint(b)) = b
  <2> DEFINE cp == ByteToCodepoint(b)
  <2>1. b \in T(cp)
    <3>1. b \in 0..255
      BY DEF Bytes
    <3>2. b \in Unprintable \/ b = cp
      BY CodepointOf
    <3> QED
      BY <3>1, <3>2
  <2>2. \A x \in T(cp) : x = b
    <3>1. \A x \in T(cp) : x \in Bytes /\ ByteToCodepoint(x) = ByteToCodepoint(b)
      BY DEF Bytes
    <3> QED
      BY <3>1, CodepointsDiffer
  <2>3. T(cp) \subseteq Nat
    OBVIOUS
  <2> HIDE DEF T
  <2>4. Min(T(cp)) \in T(cp)
    BY <2>1, <2>3, LeastElement
  <2> QED
    BY <1>1, <2>1, <2>2, <2>4
<1>3. ASSUME NEW cp \in Nat, \A b \in Bytes : ByteToCodepoint(b) # cp
      PROVE  CodepointToByte(cp) = None
  <2>1. T(cp) = {}
    BY <1>3 DEF Bytes
  <2> HIDE DEF T
  <2> QED
    BY <1>1, <2>1
<1> QED
  BY <1>2, <1>3

-----------------------------------------------------------------------------
(* decode_tokens.                                                          *)
CharBytes == [cp \in Nat |-> DecodedChar(cp)]
TokenBytes == [t \in DOMAIN Vocab |-> IF IsControl(t) THEN <<>> ELSE DecodedBytes(t)]
TokenMarks == [t \in DOMAIN Vocab |-> IF IsControl(t) THEN <<t>> ELSE <<>>]

\* A quotient and a remainder of a natural number.
LEMMA Parts ==
    ASSUME NEW n \in Nat
    PROVE  /\ n \div 64 \in Nat /\ n \div 4096 \in Nat /\ n \div 262144 \in Nat
           /\ \A m \in Nat : m % 64 \in Nat
OBVIOUS

\* A character is written as a list of numbers.
LEMMA Utf8Type ==
    ASSUME NEW cp \in Nat
    PROVE  Utf8(cp) \in Seq(Nat)
<1> DEFINE a == cp \div 64
           b == cp \div 4096
           c == cp \div 262144
           p == cp % 64
           q == a % 64
           r == b % 64
<1>1. a \in Nat /\ b \in Nat /\ c \in Nat
  BY Parts
<1>2. p \in Nat /\ q \in Nat /\ r \in Nat
  BY <1>1, Parts
<1>3. \/ Utf8(cp) = <<cp>>
      \/ Utf8(cp) = <<192 + a, 128 + p>>
      \/ Utf8(cp) = <<224 + b, 128 + q, 128 + p>>
      \/ Utf8(cp) = <<240 + c, 128 + r, 128 + q, 128 + p>>
  BY DEF Utf8
<1> HIDE DEF a, b, c, p, q, r
<1>4. /\ <<cp>> \in Seq(Nat)
      /\ <<192 + a, 128 + p>> \in Seq(Nat)
      /\ <<224 + b, 128 + q, 128 + p>> \in Seq(Nat)
      /\ <<240 + c, 128 + r, 128 + q, 128 + p>> \in Seq(Nat)
  BY <1>1, <1>2
<1> QED
  BY <1>3, <1>4

\* A byte comes back from its code point.
LEMMA DecodedByte ==
    ASSUME NEW b \in Bytes
    PROVE  DecodedChar(ByteToCodepoint(b)) = <<b>>
<1>1. CodepointToByte(ByteToCodepoint(b)) = b
  BY CodepointBack
<1>2. b # None
  <2>1. b \in Nat
    BY DEF Bytes
  <2> QED
    BY <2>1, TokenizerAssumption
<1> QED
  BY <1>1, <1>2 DEF DecodedChar

\* A character below 128 or above 323 is written as it is.
LEMMA DecodedPlainChar ==
    ASSUME NEW cp \in Nat, cp \notin 128..323
    PROVE  DecodedChar(cp) = Utf8(cp)
<1>1. CASE \E b \in Bytes : ByteToCodepoint(b) = cp
  <2>1. PICK b \in Bytes : ByteToCodepoint(b) = cp
    BY <1>1
  <2>2. cp < 128
    BY <2>1, CodepointOf
  <2>3. cp = b
    BY <2>1, <2>2, CodepointOf
  <2>4. Utf8(cp) = <<cp>>
    BY <2>2 DEF Utf8
  <2>5. DecodedChar(cp) = <<b>>
    BY <2>1, DecodedByte
  <2> QED
    BY <2>3, <2>4, <2>5
<1>2. CASE \A b \in Bytes : ByteToCodepoint(b) # cp
  <2>1. CodepointToByte(cp) = None
    BY <1>2, CodepointBack
  <2> QED
    BY <2>1 DEF DecodedChar
<1> QED
  BY <1>1, <1>2

\* What a character decodes to is a list.
LEMMA CharBytesLists == Lists(CharBytes, Nat, Nat)
<1>1. ASSUME NEW cp \in Nat PROVE DecodedChar(cp) \in Seq(Nat)
  <2>1. CASE \E b \in Bytes : ByteToCodepoint(b) = cp
    <3>1. PICK b \in Bytes : ByteToCodepoint(b) = cp
      BY <2>1
    <3>2. b \in Nat
      BY DEF Bytes
    <3>3. DecodedChar(cp) = <<b>>
      BY <3>1, DecodedByte, Zenon
    <3> QED
      BY <3>2, <3>3
  <2>2. CASE \A b \in Bytes : ByteToCodepoint(b) # cp
    <3>1. CodepointToByte(cp) = None
      BY <2>2, CodepointBack
    <3>2. DecodedChar(cp) = Utf8(cp)
      BY <3>1 DEF DecodedChar
    <3> QED
      BY <3>2, Utf8Type
  <2> QED
    BY <2>1, <2>2
<1> QED
  BY <1>1 DEF Lists, CharBytes

\* The vocabulary is a list of spellings.
LEMMA VocabIs ==
    /\ Len(Vocab) \in Nat /\ DOMAIN Vocab = 1..Len(Vocab)
    /\ \A t \in DOMAIN Vocab : Vocab[t] \in Seq(Nat)
<1>1. Vocab \in Seq(Seq(Nat))
  BY TokenizerAssumption
<1> QED
  BY <1>1

\* A token is decoded character by character.
LEMMA DecodedBytesIs ==
    ASSUME NEW t \in DOMAIN Vocab
    PROVE  DecodedBytes(t) = Spread(CharBytes, Vocab[t]) /\ DecodedBytes(t) \in Seq(Nat)
<1> DEFINE s == Vocab[t]
<1>1. s \in Seq(Nat)
  BY VocabIs
<1>2. DecodedBytes(t) = Flat([i \in DOMAIN s |-> DecodedChar(s[i])])
  BY DEF DecodedBytes
<1> HIDE DEF s
<1>3. \A i \in DOMAIN s : DecodedChar(s[i]) = CharBytes[s[i]]
  BY <1>1 DEF CharBytes
<1>4. [i \in DOMAIN s |-> DecodedChar(s[i])] = Image(CharBytes, s)
  BY <1>3 DEF Image
<1>5. DecodedBytes(t) = Spread(CharBytes, s)
  BY <1>2, <1>4 DEF Spread
<1>6. Spread(CharBytes, s) \in Seq(Nat)
  BY <1>1, CharBytesLists, SpreadType
<1> QED
  BY <1>5, <1>6 DEF s

\* What a token decodes to and marks are lists.
LEMMA TokenLists ==
    Lists(TokenBytes, DOMAIN Vocab, Nat) /\ Lists(TokenMarks, DOMAIN Vocab, Nat)
<1>1. \A t \in DOMAIN Vocab : DecodedBytes(t) \in Seq(Nat)
  BY DecodedBytesIs
<1>2. \A t \in DOMAIN Vocab : t \in Nat
  BY VocabIs
<1>3. Lists(TokenBytes, DOMAIN Vocab, Nat)
  BY <1>1 DEF Lists, TokenBytes
<1>4. Lists(TokenMarks, DOMAIN Vocab, Nat)
  BY <1>2 DEF Lists, TokenMarks
<1> QED
  BY <1>3, <1>4

\* decode_tokens goes token by token, and so do the control tokens.
LEMMA DecodeIs ==
    ASSUME NEW s \in Seq(DOMAIN Vocab)
    PROVE  Decode(s) = Spread(TokenBytes, s) /\ ControlsOf(s) = Spread(TokenMarks, s)
<1>1. \A i \in DOMAIN s : s[i] \in DOMAIN Vocab
  OBVIOUS
<1>2. [i \in DOMAIN s |-> IF IsControl(s[i]) THEN <<>> ELSE DecodedBytes(s[i])]
        = Image(TokenBytes, s)
  <2>1. \A i \in DOMAIN s : TokenBytes[s[i]] = IF IsControl(s[i]) THEN <<>> ELSE DecodedBytes(s[i])
    BY <1>1 DEF TokenBytes
  <2> QED
    BY <2>1 DEF Image
<1>3. [i \in DOMAIN s |-> IF IsControl(s[i]) THEN <<s[i]>> ELSE <<>>] = Image(TokenMarks, s)
  <2>1. \A i \in DOMAIN s : TokenMarks[s[i]] = IF IsControl(s[i]) THEN <<s[i]>> ELSE <<>>
    BY <1>1 DEF TokenMarks
  <2> QED
    BY <2>1 DEF Image
<1> QED
  BY <1>2, <1>3 DEF Decode, ControlsOf, Spread

\* The id of a token, and of a control token.
LEMMA TokenIdIs ==
    ASSUME NEW x, TokenId(x) # None
    PROVE  TokenId(x) \in DOMAIN Vocab /\ Vocab[TokenId(x)] = x
<1> DEFINE T == {i \in DOMAIN Vocab : Vocab[i] = x}
<1>1. T \subseteq 1..Len(Vocab) /\ Len(Vocab) \in Nat
  BY VocabIs
<1>2. TokenId(x) = LastOf(T)
  BY DEF TokenId
<1>3. LastOf(T) \in T
  BY <1>1, <1>2, LastOfIs
<1> QED
  BY <1>2, <1>3

\* The control tokens are those spelled like one (is_control_token).
LEMMA ControlIs ==
    /\ \A c \in DOMAIN Control :
         /\ TokenId(Spelling(c)) \in DOMAIN Vocab /\ Vocab[TokenId(Spelling(c))] = Spelling(c)
         /\ IsControl(TokenId(Spelling(c)))
    /\ \A x : TokenId(x) # None /\ (\A c \in DOMAIN Control : x # Spelling(c))
         => ~IsControl(TokenId(x))
<1>1. ASSUME NEW c \in DOMAIN Control
      PROVE  /\ TokenId(Spelling(c)) \in DOMAIN Vocab /\ Vocab[TokenId(Spelling(c))] = Spelling(c)
             /\ IsControl(TokenId(Spelling(c)))
  <2>1. TokenId(Spelling(c)) # None
    BY ControlHasId, TokenizerAssumption
  <2> QED
    BY <2>1, TokenIdIs DEF IsControl
<1>2. ASSUME NEW x, TokenId(x) # None, \A c \in DOMAIN Control : x # Spelling(c), IsControl(TokenId(x))
      PROVE  FALSE
  <2>1. PICK c \in DOMAIN Control : TokenId(x) = TokenId(Spelling(c))
    BY <1>2 DEF IsControl
  <2>2. Vocab[TokenId(x)] = x
    BY <1>2, TokenIdIs
  <2>3. Vocab[TokenId(Spelling(c))] = Spelling(c)
    BY <1>1
  <2> QED
    BY <1>2, <2>1, <2>2, <2>3
<1> QED
  BY <1>1, <1>2

-----------------------------------------------------------------------------
(* The tokens of a piece.                                                  *)
PlainTokens == {t \in DOMAIN Vocab : ~IsControl(t)}

\* Tokens that are no control tokens.
LEMMA PlainTokensMark ==
    ASSUME NEW s \in Seq(PlainTokens)
    PROVE  s \in Seq(DOMAIN Vocab) /\ Spread(TokenMarks, s) = <<>>
<1>1. s \in Seq(DOMAIN Vocab)
  <2>1. PlainTokens \subseteq DOMAIN Vocab
    BY DEF PlainTokens
  <2> QED
    BY <2>1, SeqMonotonic
<1>2. \A i \in DOMAIN s : TokenMarks[s[i]] = <<>>
  <2>1. \A i \in DOMAIN s : s[i] \in PlainTokens
    OBVIOUS
  <2> QED
    BY <2>1 DEF PlainTokens, TokenMarks
<1>3. Image(TokenMarks, s) = [i \in DOMAIN s |-> <<>>]
  BY <1>2 DEF Image
<1>4. Len(s) \in Nat /\ DOMAIN s = 1..Len(s)
  OBVIOUS
<1>5. [i \in DOMAIN s |-> <<>>] \in Seq({<<>>})
  BY <1>4
<1> QED
  BY <1>1, <1>3, <1>5, FlatEmpties DEF Spread

\* What bpe_emit_piece looks up: a character, or what a merge makes.
IsSymbol(x) == x \in Symbols /\ (Len(x) = 1 \/ \E r \in DOMAIN Merges : x = Merged(Merges[r]))

\* No symbol of a piece is the spelling of a control token, if no merge makes one.
LEMMA SymbolSpellsNothing ==
    ASSUME MergesMakeNoControl, NEW x, IsSymbol(x), NEW c \in DOMAIN Control
    PROVE  x # Spelling(c)
<1>1. Len(Spelling(c)) > 1 /\ \A r \in DOMAIN Merges : Merged(Merges[r]) # Spelling(c)
  BY TokenizerAssumption DEF MergesMakeNoControl
<1>2. SUFFICES ASSUME x = Spelling(c) PROVE FALSE
  OBVIOUS
<1>3. Len(x) > 1 /\ \A r \in DOMAIN Merges : Merged(Merges[r]) # x
  BY <1>1, <1>2
<1>4. ~(1 > 1)
  OBVIOUS
<1> QED
  BY <1>3, <1>4 DEF IsSymbol

\* A single character is a symbol.
LEMMA CharIsSymbol ==
    ASSUME NEW cp \in Nat
    PROVE  IsSymbol(<<cp>>)
BY DEF IsSymbol, Symbols

\* No symbol is taken for a control token.
LEMMA KnownIs ==
    ASSUME MergesMakeNoControl, NEW x, IsSymbol(x)
    PROVE  /\ TokenId(x) # None => TokenId(x) \in PlainTokens /\ <<TokenId(x)>> \in Seq(PlainTokens)
           /\ Known(x) \in Seq(PlainTokens)
<1>1. ASSUME TokenId(x) # None
      PROVE  TokenId(x) \in PlainTokens /\ <<TokenId(x)>> \in Seq(PlainTokens)
  <2>1. TokenId(x) \in DOMAIN Vocab
    BY <1>1, TokenIdIs
  <2>2. ~IsControl(TokenId(x))
    BY <1>1, SymbolSpellsNothing, ControlIs
  <2>3. TokenId(x) \in PlainTokens
    BY <2>1, <2>2 DEF PlainTokens
  <2> QED
    BY <2>3
<1>2. <<>> \in Seq(PlainTokens)
  OBVIOUS
<1> QED
  BY <1>1, <1>2 DEF Known

\* The characters of a symbol, looked up one by one.
Spelt(x) == [i \in DOMAIN x |-> Known(<<x[i]>>)]

\* A symbol that is no token, spelled out.
LEMMA SpeltIs ==
    ASSUME MergesMakeNoControl, NEW x \in Symbols
    PROVE  /\ Spelt(x) \in Seq(Seq(PlainTokens)) /\ Len(Spelt(x)) = Len(x)
           /\ \A i \in 1..Len(x) : Spelt(x)[i] = Known(<<x[i]>>)
<1>1. Len(x) \in Nat /\ DOMAIN x = 1..Len(x) /\ \A i \in 1..Len(x) : x[i] \in Nat
  BY DEF Symbols
<1>2. \A i \in 1..Len(x) : Known(<<x[i]>>) \in Seq(PlainTokens)
  BY <1>1, CharIsSymbol, KnownIs
<1>3. Spelt(x) = [i \in 1..Len(x) |-> Known(<<x[i]>>)]
  BY <1>1 DEF Spelt
<1> QED
  BY <1>1, <1>2, <1>3

\* The tokens of a symbol, none of them a control token.
LEMMA SymbolTokensIs ==
    ASSUME MergesMakeNoControl, NEW x, IsSymbol(x)
    PROVE  /\ SymbolTokens(x) \in Seq(PlainTokens)
           /\ TokenId(x) = None => SymbolTokens(x) = Flat(Spelt(x))
           /\ TokenId(x) # None => SymbolTokens(x) = <<TokenId(x)>>
<1>1. x \in Symbols
  BY DEF IsSymbol
<1>2. Flat(Spelt(x)) \in Seq(PlainTokens)
  BY <1>1, SpeltIs, FlatType
<1>3. CASE TokenId(x) # None
  <2>1. SymbolTokens(x) = <<TokenId(x)>>
    BY <1>3 DEF SymbolTokens
  <2> QED
    BY <1>3, <2>1, KnownIs
<1>4. CASE TokenId(x) = None
  <2>1. SymbolTokens(x) = Flat(Spelt(x))
    BY <1>4 DEF SymbolTokens, Spelt
  <2> QED
    BY <1>2, <1>4, <2>1
<1> QED
  BY <1>3, <1>4

\* One token is decoded to the characters of the symbol.
LEMMA TokenDecodes ==
    ASSUME MergesMakeNoControl, NEW x, IsSymbol(x), TokenId(x) # None
    PROVE  Spread(TokenBytes, <<TokenId(x)>>) = Spread(CharBytes, x)
<1> DEFINE t == TokenId(x)
<1>1. t \in PlainTokens
  BY KnownIs
<1>2. t \in DOMAIN Vocab /\ ~IsControl(t) /\ Vocab[t] = x
  BY <1>1, TokenIdIs DEF PlainTokens
<1> HIDE DEF t
<1>3. Spread(TokenBytes, <<t>>) = TokenBytes[t]
  BY <1>2, TokenLists, SpreadOne
<1>4. TokenBytes[t] = DecodedBytes(t)
  BY <1>2 DEF TokenBytes
<1>5. DecodedBytes(t) = Spread(CharBytes, Vocab[t])
  BY <1>2, DecodedBytesIs
<1> QED
  BY <1>2, <1>3, <1>4, <1>5 DEF t

\* So are the tokens of its characters, when each has one.
LEMMA SymbolDecodes ==
    ASSUME MergesMakeNoControl, NEW x, IsSymbol(x), \A i \in DOMAIN x : TokenId(<<x[i]>>) # None
    PROVE  Spread(TokenBytes, SymbolTokens(x)) = Spread(CharBytes, x)
<1>0. x \in Symbols /\ x \in Seq(Nat) /\ DOMAIN x = 1..Len(x) /\ Len(x) \in Nat
  BY DEF IsSymbol, Symbols
<1>1. CASE TokenId(x) # None
  BY <1>1, SymbolTokensIs, TokenDecodes
<1>2. CASE TokenId(x) = None
  <2> DEFINE ss == Spelt(x)
             ts == [i \in DOMAIN ss |-> Spread(TokenBytes, ss[i])]
  <2>1. /\ ss \in Seq(Seq(PlainTokens)) /\ DOMAIN ss = DOMAIN x
        /\ \A i \in DOMAIN x : ss[i] = Known(<<x[i]>>)
    <3>1. /\ ss \in Seq(Seq(PlainTokens)) /\ Len(ss) = Len(x)
          /\ \A i \in 1..Len(x) : ss[i] = Known(<<x[i]>>)
      BY <1>0, SpeltIs
    <3>2. DOMAIN ss = 1..Len(ss)
      BY <3>1
    <3> QED
      BY <1>0, <3>1, <3>2
  <2>2. ss \in Seq(Seq(DOMAIN Vocab))
    <3>1. Seq(PlainTokens) \subseteq Seq(DOMAIN Vocab)
      BY PlainTokensMark
    <3> QED
      BY <2>1, <3>1, SeqMonotonic
  <2> HIDE DEF ss
  <2>3. Spread(TokenBytes, Flat(ss)) = Flat(ts)
    BY <2>2, TokenLists, SpreadFlat
  <2>4. ASSUME NEW i \in DOMAIN x
        PROVE  Spread(TokenBytes, ss[i]) = CharBytes[x[i]]
    <3>1. x[i] \in Nat /\ TokenId(<<x[i]>>) # None
      BY <1>0
    <3>2. ss[i] = <<TokenId(<<x[i]>>)>>
      BY <2>1, <3>1 DEF Known
    <3>3. IsSymbol(<<x[i]>>)
      BY <3>1, CharIsSymbol
    <3>4. Spread(TokenBytes, <<TokenId(<<x[i]>>)>>) = Spread(CharBytes, <<x[i]>>)
      BY <3>1, <3>3, TokenDecodes
    <3>5. Spread(CharBytes, <<x[i]>>) = CharBytes[x[i]]
      BY <3>1, CharBytesLists, SpreadOne
    <3> QED
      BY <3>2, <3>4, <3>5
  <2>5. ts = Image(CharBytes, x)
    BY <2>1, <2>4 DEF Image
  <2>6. SymbolTokens(x) = Flat(ss)
    BY <1>2, SymbolTokensIs DEF ss
  <2> QED
    BY <2>3, <2>5, <2>6 DEF Spread
<1> QED
  BY <1>1, <1>2

-----------------------------------------------------------------------------
\* What the symbols of a piece are emitted as.
Emitted(s) == Flat([i \in DOMAIN s |-> SymbolTokens(s[i])])

\* Symbols that bytes and merges make.
AllSymbols(s) == s \in Seq(Symbols) /\ \A i \in DOMAIN s : IsSymbol(s[i])

\* bpe_emit_piece emits no control token.
LEMMA EmittedPlain ==
    ASSUME MergesMakeNoControl, NEW s, AllSymbols(s)
    PROVE  /\ [i \in DOMAIN s |-> SymbolTokens(s[i])] \in Seq(Seq(PlainTokens))
           /\ Emitted(s) \in Seq(PlainTokens)
<1> DEFINE ts == [i \in DOMAIN s |-> SymbolTokens(s[i])]
<1>1. Len(s) \in Nat /\ DOMAIN s = 1..Len(s)
  BY DEF AllSymbols
<1>2. \A i \in 1..Len(s) : SymbolTokens(s[i]) \in Seq(PlainTokens)
  BY <1>1, SymbolTokensIs DEF AllSymbols
<1>3. ts = [i \in 1..Len(s) |-> SymbolTokens(s[i])]
  BY <1>1
<1>4. ts \in Seq(Seq(PlainTokens))
  <2> HIDE DEF ts
  <2> QED
    BY <1>1, <1>2, <1>3
<1>5. Flat(ts) \in Seq(PlainTokens)
  <2> HIDE DEF ts
  <2> QED
    BY <1>4, FlatType
<1> QED
  BY <1>4, <1>5 DEF Emitted

\* byte_encode, as one list of code points.
Codes(s) == [i \in DOMAIN s |-> ByteToCodepoint(s[i])]

\* byte_encode writes a code point for each byte, and decoding undoes it.
LEMMA CodesIs ==
    ASSUME NEW s \in Seq(Bytes)
    PROVE  /\ Codes(s) \in Seq(Nat) /\ Len(Codes(s)) = Len(s)
           /\ \A i \in 1..Len(s) : Codes(s)[i] = ByteToCodepoint(s[i])
           /\ Flat(ByteEncode(s)) = Codes(s)
           /\ Spread(CharBytes, Codes(s)) = s
<1> DEFINE n == Len(s)
           c == Codes(s)
<1>1. n \in Nat /\ DOMAIN s = 1..n /\ \A i \in 1..n : s[i] \in Bytes
  OBVIOUS
<1>2. \A i \in 1..n : ByteToCodepoint(s[i]) \in Nat
  <2>1. \A b \in Bytes : ByteToCodepoint(b) \in Nat
    <3>1. \A b \in Bytes : b \in Nat
      BY DEF Bytes
    <3> QED
      BY <3>1, CodepointIsNatural
  <2> QED
    BY <1>1, <2>1
<1>3. c = [i \in 1..n |-> ByteToCodepoint(s[i])]
  BY <1>1 DEF Codes
<1> HIDE DEF n, c
<1>4. c \in Seq(Nat) /\ Len(c) = n /\ DOMAIN c = 1..n /\ \A i \in 1..n : c[i] = ByteToCodepoint(s[i])
  BY <1>1, <1>2, <1>3
<1>5. Flat(ByteEncode(s)) = c
  <2>0. \A i \in 1..n : <<c[i]>> = <<ByteToCodepoint(s[i])>>
    BY <1>4
  <2>1. ByteEncode(s) = [i \in DOMAIN c |-> <<c[i]>>]
    BY <1>1, <1>4, <2>0 DEF ByteEncode
  <2> QED
    BY <1>4, <2>1, FlatSingles
<1>6. Spread(CharBytes, c) = s
  <2>1. \A i \in DOMAIN s : CharBytes[c[i]] = <<s[i]>>
    <3>1. \A i \in DOMAIN s : CharBytes[c[i]] = DecodedChar(ByteToCodepoint(s[i]))
      BY <1>1, <1>2, <1>4 DEF CharBytes
    <3> QED
      BY <1>1, <3>1, DecodedByte
  <2>2. Image(CharBytes, c) = [i \in DOMAIN s |-> <<s[i]>>]
    BY <1>1, <1>4, <2>1 DEF Image
  <2> QED
    BY <2>2, FlatSingles DEF Spread
<1> QED
  BY <1>4, <1>5, <1>6 DEF n, c

\* Every character of every symbol has a token.
AllKnown(s) == \A i \in DOMAIN s : \A k \in DOMAIN s[i] : TokenId(<<s[i][k]>>) # None

\* The tokens of a piece decode to it, when its characters have tokens.
LEMMA PieceDecodes ==
    ASSUME MergesMakeNoControl, NEW s, AllSymbols(s), AllKnown(s), NEW p \in Seq(Bytes), Flat(s) = Codes(p)
    PROVE  Spread(TokenBytes, Emitted(s)) = p
<1> DEFINE ts == [i \in DOMAIN s |-> SymbolTokens(s[i])]
           us == [i \in DOMAIN ts |-> Spread(TokenBytes, ts[i])]
           vs == [i \in DOMAIN s |-> Spread(CharBytes, s[i])]
<1>1. s \in Seq(Symbols) /\ s \in Seq(Seq(Nat)) /\ DOMAIN ts = DOMAIN s
  BY DEF AllSymbols, Symbols
<1>2. ts \in Seq(Seq(DOMAIN Vocab))
  <2>1. Seq(PlainTokens) \subseteq Seq(DOMAIN Vocab)
    BY PlainTokensMark
  <2>2. ts \in Seq(Seq(PlainTokens))
    BY EmittedPlain
  <2> HIDE DEF ts
  <2> QED
    BY <2>1, <2>2, SeqMonotonic
<1>3. Spread(TokenBytes, Flat(ts)) = Flat(us)
  <2> HIDE DEF ts
  <2> QED
    BY <1>2, TokenLists, SpreadFlat
<1>4. Spread(CharBytes, Flat(s)) = Flat(vs)
  BY <1>1, CharBytesLists, SpreadFlat
<1>5. ASSUME NEW i \in DOMAIN s
      PROVE  Spread(TokenBytes, SymbolTokens(s[i])) = Spread(CharBytes, s[i])
  <2>1. IsSymbol(s[i])
    BY DEF AllSymbols
  <2>2. \A k \in DOMAIN s[i] : TokenId(<<s[i][k]>>) # None
    BY DEF AllKnown
  <2> QED
    BY <2>1, <2>2, SymbolDecodes
<1>6. us = vs
  BY <1>1, <1>5
<1> HIDE DEF ts, us, vs
<1>7. Spread(TokenBytes, Flat(ts)) = Spread(CharBytes, Codes(p))
  BY <1>3, <1>4, <1>6
<1> QED
  BY <1>7, CodesIs DEF Emitted, ts

\* A merge changes where the symbols end, not what they spell.
LEMMA MergeKeepsFlat ==
    ASSUME NEW s \in Seq(Symbols), NEW i \in 1..(Len(s) - 1)
    PROVE  Flat(MergeAt(s, i)) = Flat(s)
<1> DEFINE n == Len(s)
           a == SubSeq(s, 1, i - 1)
           x == s[i]
           y == s[i + 1]
           w == SubSeq(s, i, i + 1)
           z == SubSeq(s, i + 2, n)
           m == <<x \o y>>
<1>1. n \in Nat /\ DOMAIN s = 1..n /\ i \in Nat /\ i + 1 \in 1..n /\ i \in 1..n
  OBVIOUS
<1>2. x \in Seq(Nat) /\ y \in Seq(Nat) /\ s \in Seq(Seq(Nat))
  BY <1>1 DEF Symbols
<1>3. a \in Seq(Seq(Nat)) /\ w \in Seq(Seq(Nat)) /\ z \in Seq(Seq(Nat))
  <2>1. \A j \in 1..n : s[j] \in Seq(Nat)
    BY <1>1, <1>2
  <2>2. a \in Seq(Seq(Nat))
    BY <1>1, <2>1, SubSeqProperties
  <2>3. w \in Seq(Seq(Nat))
    BY <1>1, <2>1, SubSeqProperties
  <2>4. z \in Seq(Seq(Nat))
    BY <1>1, <2>1, SubSeqProperties
  <2> QED
    BY <2>2, <2>3, <2>4
<1>4. s = (a \o w) \o z
  <2> DEFINE j == i - 1
             k == i + 1
  <2>0. j \in Nat /\ k \in Nat /\ j + 1 = i /\ k + 1 = i + 2
    BY <1>1
  <2>1. 1 \in 1..(Len(s) + 1) /\ j \in (1 - 1)..Len(s) /\ k \in j..Len(s) /\ n \in k..Len(s)
        /\ k \in (1 - 1)..Len(s)
    BY <1>1
  <2> HIDE DEF j, k, n
  <2>2. SubSeq(s, 1, j) \o SubSeq(s, j + 1, k) = SubSeq(s, 1, k)
    BY <1>2, <2>1, ConcatAdjacentSubSeq
  <2>3. SubSeq(s, 1, k) \o SubSeq(s, k + 1, n) = SubSeq(s, 1, n)
    BY <1>2, <2>1, ConcatAdjacentSubSeq
  <2>4. SubSeq(s, 1, n) = s
    BY <1>2, SubSeqFull DEF n
  <2>5. a = SubSeq(s, 1, j) /\ w = SubSeq(s, j + 1, k) /\ z = SubSeq(s, k + 1, n)
    BY <2>0 DEF j, k
  <2> HIDE DEF a, w, z
  <2> QED
    BY <2>2, <2>3, <2>4, <2>5, Zenon
<1>5. w = <<x>> \o <<y>>
  <2>1. SubSeq(s, i, i + 1) = <<s[i]>> \o SubSeq(s, i + 1, i + 1)
    BY <1>1, <1>2, SubSeqRecursiveFirst
  <2>2. SubSeq(s, i + 1, i + 1) = <<s[i + 1]>> \o SubSeq(s, i + 2, i + 1)
    <3> DEFINE k == i + 1
    <3>1. k \in 1..Len(s) /\ k \in k..Len(s) /\ k + 1 = i + 2
      BY <1>1
    <3> HIDE DEF k
    <3>2. SubSeq(s, k, k) = <<s[k]>> \o SubSeq(s, k + 1, k)
      BY <1>2, <3>1, SubSeqRecursiveFirst
    <3> QED
      BY <3>1, <3>2 DEF k
  <2>3. SubSeq(s, i + 2, i + 1) = <<>>
    BY <1>1, SubSeqEmpty
  <2>4. <<y>> \o <<>> = <<y>>
    <3>1. <<y>> \in Seq(Seq(Nat))
      BY <1>2
    <3> QED
      BY <3>1, ConcatEmptySeq
  <2> HIDE DEF x, y
  <2>5. w = <<s[i]>> \o (<<s[i + 1]>> \o <<>>)
    BY <2>1, <2>2, <2>3, Zenon
  <2>6. s[i] = x /\ s[i + 1] = y
    BY DEF x, y
  <2> HIDE DEF w
  <2> QED
    BY <2>4, <2>5, <2>6, Zenon
<1>6. MergeAt(s, i) = (a \o m) \o z
  BY DEF MergeAt
<1> HIDE DEF a, x, y, w, z, n
<1>7. m \in Seq(Seq(Nat)) /\ Flat(m) = x \o y
  <2>1. x \o y \in Seq(Nat)
    BY <1>2, ConcatProperties
  <2> DEFINE v == x \o y
  <2> HIDE DEF v
  <2>2. v \in Seq(Nat) /\ m = <<v>>
    BY <2>1 DEF v
  <2>3. <<v>> \in Seq(Seq(Nat)) /\ Flat(<<v>>) = v
    BY <2>2, FlatOne
  <2> QED
    BY <2>2, <2>3 DEF v
<1>8. Flat(w) = x \o y
  <2>1. <<x>> \in Seq(Seq(Nat)) /\ <<y>> \in Seq(Seq(Nat)) /\ Flat(<<x>>) = x /\ Flat(<<y>>) = y
    BY <1>2, FlatOne
  <2>2. Flat(<<x>> \o <<y>>) = Flat(<<x>>) \o Flat(<<y>>)
    BY <2>1, FlatConcat
  <2> QED
    BY <1>5, <2>1, <2>2
<1> HIDE DEF m
<1>9. ASSUME NEW u \in Seq(Seq(Nat))
      PROVE  Flat((a \o u) \o z) = (Flat(a) \o Flat(u)) \o Flat(z)
  <2>1. a \o u \in Seq(Seq(Nat))
    BY <1>3, ConcatProperties
  <2>2. Flat(a \o u) = Flat(a) \o Flat(u)
    BY <1>3, FlatConcat
  <2>3. Flat((a \o u) \o z) = Flat(a \o u) \o Flat(z)
    BY <1>3, <2>1, FlatConcat
  <2> QED
    BY <2>2, <2>3
<1>10. Flat((a \o w) \o z) = (Flat(a) \o (x \o y)) \o Flat(z)
  BY <1>3, <1>8, <1>9
<1>11. Flat((a \o m) \o z) = (Flat(a) \o (x \o y)) \o Flat(z)
  BY <1>7, <1>9
<1> QED
  BY <1>4, <1>6, <1>10, <1>11

\* It makes a symbol of the vocabulary's merges, of the same characters.
LEMMA MergeKeepsSymbols ==
    ASSUME NEW s, AllSymbols(s), NEW i \in Mergeable(s)
    PROVE  AllSymbols(MergeAt(s, i)) /\ (AllKnown(s) => AllKnown(MergeAt(s, i)))
<1> DEFINE n == Len(s)
           t == MergeAt(s, i)
           v == s[i] \o s[i + 1]
<1>1. s \in Seq(Symbols) /\ i \in 1..(n - 1) /\ n \in Nat /\ DOMAIN s = 1..n
      /\ MergeRank(s[i], s[i + 1]) # None
  BY DEF AllSymbols, Mergeable
<1>2. /\ t \in Seq(Symbols) /\ Len(t) = n - 1
      /\ \A j \in 1..(n - 1) : t[j] = IF j < i THEN s[j] ELSE IF j = i THEN v ELSE s[j + 1]
  BY <1>1, MergeAtIs
<1>0. DOMAIN t = 1..(n - 1)
  BY <1>1, <1>2
<1>3. i \in 1..n /\ i + 1 \in 1..n /\ s[i] \in Seq(Nat) /\ s[i + 1] \in Seq(Nat)
  <2>1. i \in 1..n /\ i + 1 \in 1..n
    BY <1>1
  <2>2. s[i] \in Symbols /\ s[i + 1] \in Symbols
    BY <1>1, <2>1
  <2> QED
    BY <2>1, <2>2 DEF Symbols
<1>4. IsSymbol(v)
  <2>1. v \in Symbols
    BY <1>3, ConcatProperties DEF Symbols
  <2> DEFINE r == MergeRank(s[i], s[i + 1])
  <2>2. r \in DOMAIN Merges /\ Merges[r] = <<s[i], s[i + 1]>>
    BY <1>1, RankIs
  <2> HIDE DEF r
  <2>3. Merged(Merges[r]) = v
    <3> DEFINE a == s[i]
               b == s[i + 1]
               m == Merges[r]
    <3>1. m = <<a, b>>
      BY <2>2
    <3> HIDE DEF a, b, m
    <3>2. m[1] = a /\ m[2] = b
      BY <3>1
    <3>3. Merged(m) = a \o b
      BY <3>2, Zenon DEF Merged
    <3> QED
      BY <3>3, Zenon DEF m, a, b, v
  <2> QED
    BY <2>1, <2>2, <2>3 DEF IsSymbol
<1> HIDE DEF t, v, n
<1>5. ASSUME NEW j \in 1..(n - 1)
      PROVE  (\E k \in 1..n : t[j] = s[k]) \/ t[j] = v
  <2>0. n \in Nat /\ i \in 1..(n - 1)
    BY <1>1
  <2>1. j \in 1..n /\ j + 1 \in 1..n
    BY <2>0
  <2>2. t[j] = IF j < i THEN s[j] ELSE IF j = i THEN v ELSE s[j + 1]
    BY <1>2
  <2> QED
    BY <2>1, <2>2
<1>6. \A j \in DOMAIN t : IsSymbol(t[j])
  BY <1>0, <1>1, <1>4, <1>5 DEF AllSymbols
<1>7. ASSUME AllKnown(s), NEW j \in DOMAIN t, NEW k \in DOMAIN t[j]
      PROVE  TokenId(<<t[j][k]>>) # None
  <2>1. CASE \E l \in 1..n : t[j] = s[l]
    BY <1>1, <1>7, <2>1 DEF AllKnown
  <2>2. CASE t[j] = v
    <3> DEFINE x == s[i]
               y == s[i + 1]
    <3>1. /\ Len(v) = Len(x) + Len(y) /\ v \in Seq(Nat)
          /\ \A h \in 1..(Len(x) + Len(y)) : v[h] = IF h <= Len(x) THEN x[h] ELSE y[h - Len(x)]
      BY <1>3, ConcatProperties DEF v
    <3>2. DOMAIN v = 1..Len(v) /\ DOMAIN x = 1..Len(x) /\ DOMAIN y = 1..Len(y)
          /\ Len(x) \in Nat /\ Len(y) \in Nat
      BY <1>3, <3>1
    <3>3. /\ \A h \in DOMAIN x : TokenId(<<x[h]>>) # None
          /\ \A h \in DOMAIN y : TokenId(<<y[h]>>) # None
      BY <1>1, <1>3, <1>7 DEF AllKnown
    <3> HIDE DEF x, y
    <3>4. k \in 1..(Len(x) + Len(y))
      BY <1>7, <2>2, <3>1, <3>2
    <3>5. CASE k <= Len(x)
      <4>1. k \in DOMAIN x /\ v[k] = x[k]
        BY <3>1, <3>2, <3>4, <3>5
      <4> QED
        BY <2>2, <3>3, <4>1
    <3>6. CASE k > Len(x)
      <4>1. k - Len(x) \in 1..Len(y) /\ ~(k <= Len(x))
        BY <3>2, <3>4, <3>6
      <4>2. k - Len(x) \in DOMAIN y /\ v[k] = y[k - Len(x)]
        BY <3>1, <3>2, <3>4, <4>1
      <4> QED
        BY <2>2, <3>3, <4>2
    <3> QED
      BY <3>2, <3>4, <3>5, <3>6
  <2> QED
    BY <1>0, <1>5, <2>1, <2>2
<1>8. AllSymbols(t)
  BY <1>2, <1>6 DEF AllSymbols
<1>9. AllKnown(s) => AllKnown(t)
  BY <1>7 DEF AllKnown
<1> QED
  BY <1>8, <1>9 DEF t

\* A piece starts as the code points of its bytes.
LEMMA EncodedStarts ==
    ASSUME NEW p \in Seq(Bytes)
    PROVE  AllSymbols(ByteEncode(p)) /\ (Encodable(p) => AllKnown(ByteEncode(p)))
<1> DEFINE s == ByteEncode(p)
<1>1. s \in Seq(Symbols)
  BY EncodedIsSymbols
<1>2. DOMAIN s = DOMAIN p /\ \A i \in DOMAIN p : s[i] = <<ByteToCodepoint(p[i])>>
  BY DEF ByteEncode
<1>3. \A i \in DOMAIN p : ByteToCodepoint(p[i]) \in Nat
  <2>1. \A i \in DOMAIN p : p[i] \in Bytes
    OBVIOUS
  <2>2. \A b \in Bytes : b \in Nat
    BY DEF Bytes
  <2> QED
    BY <2>1, <2>2, CodepointIsNatural
<1> HIDE DEF s
<1>4. AllSymbols(s)
  BY <1>1, <1>2, <1>3, CharIsSymbol DEF AllSymbols
<1>5. ASSUME Encodable(p), NEW i \in DOMAIN s, NEW k \in DOMAIN s[i]
      PROVE  TokenId(<<s[i][k]>>) # None
  <2>1. s[i] = <<ByteToCodepoint(p[i])>> /\ i \in DOMAIN p
    BY <1>2, <1>5
  <2>2. k = 1 /\ s[i][k] = ByteToCodepoint(p[i])
    BY <1>5, <2>1
  <2> QED
    BY <1>5, <2>1, <2>2 DEF Encodable
<1> QED
  BY <1>4, <1>5 DEF s, AllKnown

-----------------------------------------------------------------------------
(* The characters of a text.                                               *)
CharPoints(s) == [i \in DOMAIN s |-> IF Lead(s[i]) THEN <<CodePoint(CharAt(s, i))>> ELSE <<>>]

\* Each byte adds a code point or nothing.
LEMMA CharPointsIs ==
    ASSUME NEW s, Utf8Text(s)
    PROVE  /\ Len(s) \in Nat /\ DOMAIN s = 1..Len(s)
           /\ CharPoints(s) \in Seq(Seq(Nat)) /\ Len(CharPoints(s)) = Len(s)
           /\ \A i \in 1..Len(s) : /\ Lead(s[i]) => CodePoint(CharAt(s, i)) \in Nat
                                   /\ Lead(s[i]) => CharPoints(s)[i] = <<CodePoint(CharAt(s, i))>>
                                   /\ ~Lead(s[i]) => CharPoints(s)[i] = <<>>
           /\ Chars(s) = Flat(CharPoints(s)) /\ Chars(s) \in Seq(Nat)
<1> DEFINE n == Len(s)
           v(i) == IF Lead(s[i]) THEN <<CodePoint(CharAt(s, i))>> ELSE <<>>
<1>1. n \in Nat /\ DOMAIN s = 1..n
  BY DEF Utf8Text
<1>2. \A i \in 1..n : Lead(s[i]) => CodePoint(CharAt(s, i)) \in Nat
  BY <1>1 DEF Utf8Text
<1>3. ASSUME NEW i \in 1..n PROVE v(i) \in Seq(Nat)
  <2>1. CASE Lead(s[i])
    <3> DEFINE c == CodePoint(CharAt(s, i))
    <3>1. c \in Nat
      BY <1>2, <2>1
    <3> HIDE DEF c
    <3>2. <<c>> \in Seq(Nat)
      BY <3>1
    <3> QED
      BY <2>1, <3>2 DEF c
  <2>2. CASE ~Lead(s[i])
    BY <2>2
  <2> QED
    BY <2>1, <2>2
<1>4. CharPoints(s) = [i \in 1..n |-> v(i)]
  BY <1>1 DEF CharPoints
<1>6. \A i \in 1..n : /\ Lead(s[i]) => v(i) = <<CodePoint(CharAt(s, i))>>
                      /\ ~Lead(s[i]) => v(i) = <<>>
  OBVIOUS
<1> HIDE DEF v
<1>5. /\ CharPoints(s) \in Seq(Seq(Nat)) /\ Len(CharPoints(s)) = n
      /\ \A i \in 1..n : CharPoints(s)[i] = v(i)
  BY <1>1, <1>3, <1>4
<1>7. Chars(s) = Flat(CharPoints(s))
  BY DEF Chars, CharPoints
<1>8. Chars(s) \in Seq(Nat)
  BY <1>5, <1>7, FlatType
<1> QED
  BY <1>1, <1>2, <1>5, <1>6, <1>7, <1>8

\* h gives the bytes of each character of a text.
Writes(h, s) == \A i \in 1..Len(s) : Lead(s[i]) => h[CodePoint(CharAt(s, i))] = CharAt(s, i)

\* What writes every character of a text writes the text.
LEMMA CharsWritten ==
    ASSUME NEW s, Utf8Text(s), NEW h, Lists(h, Nat, Nat), Writes(h, s)
    PROVE  Spread(h, Chars(s)) = s
<1> DEFINE n == Len(s)
           ss == CharPoints(s)
           t == [i \in DOMAIN ss |-> Spread(h, ss[i])]
           e == [i \in 0..n |-> IF i = 0 THEN 1 ELSE NextChar(s, i)]
           f == [i \in 0..n |-> Slice(s, 1, e[i])]
<1>1. /\ n \in Nat /\ ss \in Seq(Seq(Nat)) /\ Len(ss) = n /\ DOMAIN ss = 1..n
      /\ s \in Seq(Bytes) /\ DOMAIN s = 1..n
  <2>1. ss \in Seq(Seq(Nat)) /\ Len(ss) = n
    BY CharPointsIs
  <2>2. DOMAIN ss = 1..Len(ss)
    BY <2>1
  <2> QED
    BY <2>1, <2>2, CharPointsIs DEF Utf8Text
<1>2. Spread(h, Chars(s)) = Flat(t) /\ t \in Seq(Seq(Nat))
  <2>1. Chars(s) = Flat(ss)
    BY CharPointsIs
  <2> HIDE DEF ss
  <2>3. ss \in Seq(Seq(Nat))
    BY <1>1
  <2>2. Spread(h, Flat(ss)) = Flat(t) /\ t \in Seq(Seq(Nat))
    BY <2>3, SpreadFlat
  <2> QED
    BY <2>1, <2>2
<1>3. ASSUME NEW i \in 1..n
      PROVE  (Lead(s[i]) => t[i] = CharAt(s, i)) /\ (~Lead(s[i]) => t[i] = <<>>)
  <2>0. t[i] = Spread(h, ss[i])
    BY <1>1
  <2>1. CASE Lead(s[i])
    <3> DEFINE c == CodePoint(CharAt(s, i))
    <3>1. c \in Nat /\ ss[i] = <<c>> /\ h[c] = CharAt(s, i)
      BY <2>1, CharPointsIs DEF Writes
    <3> HIDE DEF c, ss, t
    <3>2. Spread(h, <<c>>) = h[c]
      BY <3>1, SpreadOne
    <3> QED
      BY <2>0, <2>1, <3>1, <3>2
  <2>2. CASE ~Lead(s[i])
    <3>1. ss[i] = <<>>
      BY <2>2, CharPointsIs
    <3> HIDE DEF ss, t
    <3> QED
      BY <2>0, <2>2, <3>1, SpreadNil
  <2> QED
    BY <2>1, <2>2
<1>4. Len(t) = n
  <2>1. DOMAIN t = 1..n
    BY <1>1
  <2> HIDE DEF t
  <2> QED
    BY <1>1, <1>2, <2>1
<1> HIDE DEF ss, t
<1>5. e[0] = 1 /\ \A i \in 1..n : e[i] = NextChar(s, i) /\ i \in 0..n /\ i - 1 \in 0..n
  BY <1>1
<1>6. ASSUME NEW i \in 1..n
      PROVE  /\ Lead(s[i]) => e[i - 1] = i
             /\ ~Lead(s[i]) => e[i - 1] = e[i]
             /\ e[i] \in Ends(s) /\ e[i] > i
  <2>1. NextChar(s, i) \in Ends(s) /\ NextChar(s, i) > i /\ \A j \in Ends(s) : j > i => NextChar(s, i) <= j
    BY <1>1, NextCharFacts
  <2>2. CASE i = 1
    <3>1. Lead(s[1])
      BY <1>1, <2>2 DEF Utf8Text
    <3>2. e[i - 1] = 1
      BY <1>5, <2>2
    <3> QED
      BY <1>5, <2>1, <2>2, <3>1, <3>2
  <2>3. CASE i # 1
    <3> DEFINE j == i - 1
    <3>1. j \in 1..n /\ i \in Nat /\ j \in Nat
      BY <1>1, <2>3
    <3>2. NextChar(s, j) \in Ends(s) /\ NextChar(s, j) > j /\ \A k \in Ends(s) : k > j => NextChar(s, j) <= k
      BY <1>1, <3>1, NextCharFacts
    <3>3. \A k \in Ends(s) : k \in Nat
      BY <1>1, EndsFacts
    <3>4. e[i] = NextChar(s, i) /\ e[i - 1] = NextChar(s, j)
      BY <1>5, <3>1
    <3>5. ASSUME Lead(s[i]) PROVE NextChar(s, j) = i
      <4>1. i \in Ends(s)
        BY <1>1, <3>5, EndsFacts
      <4>2. i > j
        BY <3>1
      <4> DEFINE q == NextChar(s, j)
      <4>3. q \in Nat /\ q > j /\ q <= i
        BY <3>2, <3>3, <4>1, <4>2
      <4> HIDE DEF q
      <4>4. q = i
        BY <3>1, <4>3
      <4> QED
        BY <4>4 DEF q
    <3>6. ASSUME ~Lead(s[i]) PROVE NextChar(s, j) = NextChar(s, i)
      <4>1. i \notin Ends(s)
        BY <1>1, <3>6, EndsFacts
      <4>2. NextChar(s, j) # i
        BY <3>2, <4>1
      <4>3. NextChar(s, j) > i
        BY <3>1, <3>2, <3>3, <4>2
      <4>4. NextChar(s, i) > j
        BY <2>1, <3>1, <3>3
      <4> QED
        BY <2>1, <3>2, <3>3, <4>3, <4>4
    <3> QED
      BY <2>1, <3>4, <3>5, <3>6
  <2> QED
    BY <2>2, <2>3
<1>7. \A i \in 0..n : f[i] = Slice(s, 1, e[i])
  OBVIOUS
<1> HIDE DEF e, f
<1>8. ASSUME NEW i \in 1..n PROVE f[i] = f[i - 1] \o t[i]
  <2>0. f[i] = Slice(s, 1, e[i]) /\ f[i - 1] = Slice(s, 1, e[i - 1])
    BY <1>5, <1>7
  <2>1. CASE Lead(s[i])
    <3> DEFINE j == i - 1
               k == e[i] - 1
    <3>1. e[i] \in 1..(n + 1) /\ e[i] > i
      BY <1>1, <1>6, EndsFacts
    <3>2. j \in (1 - 1)..n /\ k \in j..n /\ j + 1 = i /\ 1 \in 1..(n + 1)
      BY <1>1, <3>1
    <3>3. e[i - 1] = i
      BY <1>6, <2>1
    <3>4. t[i] = SubSeq(s, i, k)
      BY <1>3, <1>5, <2>1 DEF CharAt
    <3>5. f[i] = SubSeq(s, 1, k) /\ f[i - 1] = SubSeq(s, 1, j)
      BY <2>0, <3>3 DEF Slice
    <3> HIDE DEF j, k
    <3>6. SubSeq(s, 1, j) \o SubSeq(s, j + 1, k) = SubSeq(s, 1, k)
      BY <1>1, <3>2, ConcatAdjacentSubSeq
    <3> QED
      BY <3>2, <3>4, <3>5, <3>6, Zenon
  <2>2. CASE ~Lead(s[i])
    <3>1. t[i] = <<>> /\ f[i] = f[i - 1]
      BY <1>3, <1>6, <2>0, <2>2
    <3>2. f[i] \in Seq(Bytes)
      <4>1. e[i] \in 1..(n + 1)
        BY <1>1, <1>6, EndsFacts
      <4>2. \A k \in 1..(e[i] - 1) : s[k] \in Bytes
        BY <1>1, <4>1
      <4> QED
        BY <1>1, <2>0, <4>1, <4>2, SubSeqProperties DEF Slice
    <3> QED
      BY <3>1, <3>2, ConcatEmptySeq
  <2> QED
    BY <2>1, <2>2
<1>9. f[0] = <<>>
  <2>1. f[0] = SubSeq(s, 1, 0)
    BY <1>1, <1>5, <1>7 DEF Slice
  <2> QED
    BY <1>1, <2>1, SubSeqEmpty
<1>10. f[n] = s
  <2>1. CASE n = 0
    BY <1>1, <1>9, <2>1
  <2>2. CASE n # 0
    <3>1. n \in 1..n /\ n \in 0..n
      BY <1>1, <2>2
    <3>2. e[n] \in 1..(n + 1) /\ e[n] > n
      BY <1>1, <1>6, <3>1, EndsFacts
    <3>3. e[n] - 1 = n
      BY <1>1, <3>2
    <3>4. f[n] = SubSeq(s, 1, n)
      BY <1>7, <3>1, <3>3 DEF Slice
    <3> QED
      BY <1>1, <3>4, SubSeqFull
  <2> QED
    BY <2>1, <2>2
<1>11. Joins(f, t)
  BY <1>4, <1>8, <1>9 DEF Joins
<1>12. Flat(t) = f[n]
  BY <1>2, <1>4, <1>11, FlatIs
<1> QED
  BY <1>2, <1>10, <1>12

\* How each code point is written.
Utf8Points == [cp \in Nat |-> Utf8(cp)]

\* A text is its characters in UTF-8.
LEMMA CharsInUtf8 ==
    ASSUME NEW s, Utf8Text(s)
    PROVE  Spread(Utf8Points, Chars(s)) = s
<1>1. Lists(Utf8Points, Nat, Nat)
  BY Utf8Type DEF Lists, Utf8Points
<1>2. Writes(Utf8Points, s)
  <2>1. \A i \in 1..Len(s) : Lead(s[i]) => CodePoint(CharAt(s, i)) \in Nat /\ Utf8(CodePoint(CharAt(s, i))) = CharAt(s, i)
    BY CharPointsIs DEF Utf8Text
  <2> QED
    BY <2>1 DEF Writes, Utf8Points
<1> QED
  BY <1>1, <1>2, CharsWritten

\* Two texts of the same characters are equal.
LEMMA CharsDiffer ==
    ASSUME NEW s, NEW t, Utf8Text(s), Utf8Text(t), Chars(s) = Chars(t)
    PROVE  s = t
<1>1. Spread(Utf8Points, Chars(s)) = s /\ Spread(Utf8Points, Chars(t)) = t
  BY CharsInUtf8
<1> QED
  BY <1>1

\* A character that stands for no other byte.
PlainChars(c) == \A k \in DOMAIN c : c[k] \notin 128..323

\* decode_tokens writes such characters as the text has them.
LEMMA PlainCharsDecode ==
    ASSUME NEW s, Utf8Text(s), PlainChars(Chars(s))
    PROVE  Spread(CharBytes, Chars(s)) = s
<1> DEFINE c == Chars(s)
<1>1. c \in Seq(Nat)
  BY CharPointsIs
<1>2. PlainChars(c) /\ Spread(Utf8Points, c) = s
  BY CharsInUtf8
<1> HIDE DEF c
<1>0. DOMAIN c = 1..Len(c) /\ \A k \in 1..Len(c) : c[k] \in Nat
  BY <1>1
<1>3. ASSUME NEW k \in 1..Len(c) PROVE CharBytes[c[k]] = Utf8Points[c[k]]
  <2>0. c[k] \notin 128..323
    BY <1>0, <1>2 DEF PlainChars
  <2>1. c[k] \in Nat /\ c[k] \notin 128..323
    BY <1>0, <2>0
  <2>2. DecodedChar(c[k]) = Utf8(c[k])
    BY <2>1, DecodedPlainChar
  <2> QED
    BY <2>1, <2>2 DEF CharBytes, Utf8Points
<1>4. Image(CharBytes, c) = Image(Utf8Points, c)
  BY <1>0, <1>3 DEF Image
<1>5. Spread(CharBytes, c) = s
  BY <1>2, <1>4 DEF Spread
<1> QED
  BY <1>5 DEF c

\* The characters of an ASCII text are its bytes.
LEMMA AsciiChars ==
    ASSUME NEW s, Utf8Text(s), \A i \in DOMAIN s : s[i] < 128
    PROVE  Chars(s) = s /\ PlainChars(Chars(s))
<1> DEFINE n == Len(s)
<1>1. /\ n \in Nat /\ DOMAIN s = 1..n /\ s \in Seq(Bytes) /\ s \in Seq(Nat)
      /\ \A i \in 1..n : s[i] \in 0..127
  <2>1. s \in Seq(Bytes)
    BY DEF Utf8Text
  <2>2. n \in Nat /\ DOMAIN s = 1..n /\ \A i \in 1..n : s[i] \in Bytes
    BY <2>1, EndsFacts
  <2>3. ASSUME NEW i \in 1..n PROVE s[i] \in 0..127
    <3> DEFINE x == s[i]
    <3>1. x \in Bytes /\ x < 128
      BY <2>2
    <3> HIDE DEF x
    <3>2. x \in 0..127
      BY <3>1 DEF Bytes
    <3> QED
      BY <3>2 DEF x
  <2>4. Bytes \subseteq Nat
    BY DEF Bytes
  <2> QED
    BY <2>1, <2>2, <2>3, <2>4, SeqMonotonic
<1>2. ASSUME NEW i \in 1..n PROVE Lead(s[i]) /\ CodePoint(CharAt(s, i)) = s[i]
  <2>1. s[i] \in 0..127
    BY <1>1
  <2>2. Lead(s[i]) /\ Width(s[i]) = 1
    <3> DEFINE x == s[i]
    <3> HIDE DEF x
    <3>1. x \in 0..127
      BY <2>1 DEF x
    <3>2. Lead(x) /\ Width(x) = 1
      BY <3>1 DEF Lead, Width
    <3> QED
      BY <3>2 DEF x
  <2>3. NextChar(s, i) = i + 1
    BY <1>1, <2>2 DEF Utf8Text
  <2>4. CharAt(s, i) = SubSeq(s, i, i)
    BY <1>1, <2>3 DEF CharAt
  <2>5. SubSeq(s, i, i) \in Seq(Bytes) /\ Len(SubSeq(s, i, i)) = 1 /\ SubSeq(s, i, i)[1] = s[i]
    BY <1>1
  <2> DEFINE c == SubSeq(s, i, i)
  <2>6. CodePoint(c) = s[i]
    <3> HIDE DEF c
    <3>1. Len(c) = 1 /\ c[1] = s[i]
      BY <2>5 DEF c
    <3> QED
      BY <3>1 DEF CodePoint
  <2> QED
    BY <2>2, <2>4, <2>6
<1>3. CharPoints(s) = [i \in DOMAIN s |-> <<s[i]>>]
  <2>1. \A i \in DOMAIN s : (IF Lead(s[i]) THEN <<CodePoint(CharAt(s, i))>> ELSE <<>>) = <<s[i]>>
    BY <1>1, <1>2
  <2> QED
    BY <2>1 DEF CharPoints
<1>4. Flat(CharPoints(s)) = s
  BY <1>1, <1>3, FlatSingles
<1>5. Chars(s) = s
  BY <1>4, CharPointsIs
<1>6. PlainChars(s)
  <2>1. \A i \in 1..n : s[i] \in 0..127
    BY <1>1
  <2>2. \A x \in 0..127 : x \notin 128..323
    OBVIOUS
  <2>3. DOMAIN s = 1..n
    BY <1>1
  <2> HIDE DEF n
  <2> SUFFICES ASSUME NEW k \in DOMAIN s PROVE s[k] \notin 128..323
    BY DEF PlainChars
  <2>4. k \in 1..n
    BY <2>3
  <2>5. s[k] \in 0..127
    BY <2>1, <2>4
  <2> QED
    BY <2>2, <2>5
<1> QED
  BY <1>5, <1>6

\* The middle of three sequences.
LEMMA MiddleIs ==
    ASSUME NEW S, NEW x \in Seq(S), NEW y \in Seq(S), NEW z \in Seq(S), NEW w, w = (x \o y) \o z
    PROVE  /\ Len(x) \in 0..(Len(w) - Len(y))
           /\ SubSeq(w, Len(x) + 1, Len(x) + Len(y)) = y
<1> DEFINE l == Len(x)
           m == Len(y)
           n == Len(z)
           u == x \o y
           v == SubSeq(w, l + 1, l + m)
<1>1. l \in Nat /\ m \in Nat /\ n \in Nat
  OBVIOUS
<1>2. /\ u \in Seq(S) /\ Len(u) = l + m
      /\ \A i \in 1..(l + m) : u[i] = IF i <= l THEN x[i] ELSE y[i - l]
  BY ConcatProperties
<1> HIDE DEF u
<1>3. /\ w \in Seq(S) /\ Len(w) = l + m + n
      /\ \A i \in 1..(l + m + n) : w[i] = IF i <= l + m THEN u[i] ELSE z[i - (l + m)]
  <2>0. u \in Seq(S)
    BY <1>2
  <2>1. /\ u \o z \in Seq(S) /\ Len(u \o z) = Len(u) + Len(z)
        /\ \A i \in 1..(Len(u) + Len(z)) : (u \o z)[i] = IF i <= Len(u) THEN u[i] ELSE z[i - Len(u)]
    BY <2>0, ConcatProperties
  <2>2. w = u \o z
    BY DEF u
  <2> QED
    BY <1>1, <1>2, <2>1, <2>2
<1> HIDE DEF l, m, n
<1>4. v \in Seq(S) /\ Len(v) = m /\ \A i \in 1..m : v[i] = w[l + 1 + i - 1]
  <2>1. \A i \in (l + 1)..(l + m) : i \in 1..Len(w)
    BY <1>1, <1>3
  <2>2. \A i \in (l + 1)..(l + m) : w[i] \in S
    BY <1>3, <2>1
  <2>3. IF l + 1 <= l + m + 1 THEN Len(v) = l + m - (l + 1) + 1 ELSE Len(v) = 0
    BY <1>1, <1>3, <2>2, SubSeqProperties
  <2>4. v \in Seq(S) /\ Len(v) = m
    BY <1>1, <1>3, <2>2, SubSeqProperties
  <2>5. \A i \in 1..m : v[i] = w[l + 1 + i - 1]
    BY <1>1, <1>3, <2>2, SubSeqProperties
  <2> QED
    BY <2>4, <2>5
<1> HIDE DEF v
<1>5. ASSUME NEW i \in 1..m PROVE v[i] = y[i]
  <2>1. l + 1 + i - 1 = l + i /\ l + i \in 1..(l + m + n) /\ l + i <= l + m /\ ~(l + i <= l)
        /\ (l + i) - l = i /\ l + i \in 1..(l + m)
    BY <1>1
  <2>2. v[i] = w[l + i] /\ w[l + i] = u[l + i]
    BY <1>3, <1>4, <2>1
  <2>3. u[l + i] = y[(l + i) - l]
    BY <1>2, <2>1
  <2> QED
    BY <2>1, <2>2, <2>3
<1>6. v = y
  <2>1. Len(y) = m
    BY DEF m
  <2> QED
    BY <1>4, <1>5, <2>1, SeqEqual
<1>7. l \in 0..(Len(w) - m)
  BY <1>1, <1>3
<1> QED
  BY <1>6, <1>7 DEF v, l, m

\* The characters of a part of a text are found together among those of the text.
LEMMA CharsOccur ==
    ASSUME NEW s, Utf8Text(s), NEW a \in Ends(s), NEW b \in Ends(s), a <= b,
           NEW t, t = Slice(s, a, b)
    PROVE  \E k \in 0..(Len(Chars(s)) - Len(Chars(t))) :
              SubSeq(Chars(s), k + 1, k + Len(Chars(t))) = Chars(t)
<1> DEFINE n == Len(s)
           ss == CharPoints(s)
           ts == CharPoints(t)
           i == a - 1
           j == b - 1
           x == SubSeq(ss, 1, i)
           y == SubSeq(ss, a, j)
           z == SubSeq(ss, b, n)
<1>1. n \in Nat /\ a \in 1..(n + 1) /\ b \in 1..(n + 1)
  BY EndsFacts DEF Utf8Text
<1>2. /\ Utf8Text(t) /\ Len(t) = b - a
      /\ \A h \in 1..(b - a) : /\ a + h - 1 \in 1..Len(s) /\ t[h] = s[a + h - 1]
                               /\ Lead(t[h]) => CharAt(t, h) = CharAt(s, a + h - 1)
  BY SliceFacts
<1>3. ss \in Seq(Seq(Nat)) /\ Len(ss) = n /\ Chars(s) = Flat(ss)
  BY CharPointsIs
<1>4. ts \in Seq(Seq(Nat)) /\ Len(ts) = b - a /\ Chars(t) = Flat(ts)
  BY <1>2, CharPointsIs
<1>5. ASSUME NEW h \in 1..(b - a) PROVE ts[h] = ss[a + h - 1]
  <2> DEFINE g == a + h - 1
  <2>1. g \in 1..n /\ t[h] = s[g] /\ (Lead(t[h]) => CharAt(t, h) = CharAt(s, g)) /\ h \in 1..Len(t)
    BY <1>2
  <2> HIDE DEF g
  <2>2. /\ Lead(s[g]) => ss[g] = <<CodePoint(CharAt(s, g))>>
        /\ ~Lead(s[g]) => ss[g] = <<>>
    BY <2>1, CharPointsIs
  <2>3. /\ Lead(t[h]) => ts[h] = <<CodePoint(CharAt(t, h))>>
        /\ ~Lead(t[h]) => ts[h] = <<>>
    BY <1>2, <2>1, CharPointsIs
  <2>4. ts[h] = ss[g]
    BY <2>1, <2>2, <2>3
  <2> QED
    BY <2>4 DEF g
<1> HIDE DEF ss, ts, n
<1>6. x \in Seq(Seq(Nat)) /\ z \in Seq(Seq(Nat)) /\ y \in Seq(Seq(Nat))
      /\ Len(y) = b - a /\ \A h \in 1..(b - a) : y[h] = ss[a + h - 1]
  <2>1. \A h \in 1..n : ss[h] \in Seq(Nat)
    BY <1>3
  <2>2. x \in Seq(Seq(Nat))
    BY <1>1, <1>3, <2>1, SubSeqProperties
  <2>3. z \in Seq(Seq(Nat))
    BY <1>1, <1>3, <2>1, SubSeqProperties
  <2>4. y \in Seq(Seq(Nat))
    BY <1>1, <1>3, <2>1, SubSeqProperties
  <2>5. Len(y) = b - a /\ \A h \in 1..(b - a) : y[h] = ss[a + h - 1]
    BY <1>1, <1>3, <2>1, SubSeqProperties
  <2> QED
    BY <2>2, <2>3, <2>4, <2>5
<1>7. y = ts
  <2> HIDE DEF y
  <2> QED
    BY <1>4, <1>5, <1>6, SeqEqual
<1>8. ss = (x \o y) \o z
  <2>0. i \in Nat /\ j \in Nat /\ i + 1 = a /\ j + 1 = b
    BY <1>1
  <2>1. 1 \in 1..(Len(ss) + 1) /\ i \in (1 - 1)..Len(ss) /\ j \in i..Len(ss) /\ n \in j..Len(ss)
        /\ j \in (1 - 1)..Len(ss)
    BY <1>1, <1>3
  <2>5. x = SubSeq(ss, 1, i) /\ y = SubSeq(ss, i + 1, j) /\ z = SubSeq(ss, j + 1, n)
    BY <2>0
  <2> HIDE DEF x, y, z, i, j
  <2>2. SubSeq(ss, 1, i) \o SubSeq(ss, i + 1, j) = SubSeq(ss, 1, j)
    BY <1>3, <2>1, ConcatAdjacentSubSeq
  <2>3. SubSeq(ss, 1, j) \o SubSeq(ss, j + 1, n) = SubSeq(ss, 1, n)
    BY <1>3, <2>1, ConcatAdjacentSubSeq
  <2>4. SubSeq(ss, 1, n) = ss
    BY <1>3, SubSeqFull
  <2> QED
    BY <2>2, <2>3, <2>4, <2>5, Zenon
<1> HIDE DEF x, y, z
<1>9. Flat(ss) = (Flat(x) \o Flat(y)) \o Flat(z)
  <2>1. x \o y \in Seq(Seq(Nat))
    BY <1>6, ConcatProperties
  <2>2. Flat(x \o y) = Flat(x) \o Flat(y)
    BY <1>6, FlatConcat
  <2>3. Flat((x \o y) \o z) = Flat(x \o y) \o Flat(z)
    BY <1>6, <2>1, FlatConcat
  <2> QED
    BY <1>8, <2>2, <2>3
<1> DEFINE xx == Flat(x)
           yy == Flat(y)
           zz == Flat(z)
<1>10. xx \in Seq(Nat) /\ yy \in Seq(Nat) /\ zz \in Seq(Nat)
  BY <1>6, FlatType
<1>11. Chars(s) = (xx \o yy) \o zz /\ Chars(t) = yy
  BY <1>3, <1>4, <1>7, <1>9
<1> HIDE DEF xx, yy, zz
<1>12. /\ Len(xx) \in 0..(Len(Chars(s)) - Len(yy))
       /\ SubSeq(Chars(s), Len(xx) + 1, Len(xx) + Len(yy)) = yy
  BY <1>10, <1>11, MiddleIs
<1> QED
  BY <1>11, <1>12

-----------------------------------------------------------------------------
(* The control tokens of a rendered text.                                  *)

\* All of this is a function of the input.
LEMMA InputFixed ==
    ASSUME input' = input
    PROVE  /\ \A p : SpecialAt(p)' = SpecialAt(p)
           /\ LastEnds' = LastEnds /\ Stripped' = Stripped /\ Template' = Template
<1>1. \A p : SpecialAt(p)' = SpecialAt(p)
  BY DEF SpecialAt
<1>2. LastEnds' = LastEnds
  BY SMT DEF LastEnds, SpecialAt
<1>3. Stripped' = Stripped
  BY <1>2 DEF Stripped, Asked
<1>4. Template' = Template
  BY <1>2 DEF Template, SpecialAt
<1> QED
  BY <1>1, <1>2, <1>3, <1>4

\* The length of a control token.
LEMMA ControlText ==
    ASSUME NEW c \in DOMAIN Control
    PROVE  /\ Utf8Text(Control[c]) /\ Control[c] # <<>> /\ Control[c] \in Seq(Bytes)
           /\ Len(Control[c]) \in Nat /\ Len(Control[c]) > 0 /\ Lead(Control[c][1])
<1> DEFINE t == Control[c]
<1>1. Utf8Text(t) /\ t # <<>>
  BY TokenizerAssumption
<1> HIDE DEF t
<1>2. t \in Seq(Bytes) /\ Lead(t[1])
  BY <1>1 DEF Utf8Text
<1>3. Len(t) \in Nat /\ Len(t) > 0
  BY <1>1, <1>2
<1> QED
  BY <1>1, <1>2, <1>3 DEF t

\* Where the control tokens end, one byte after the other.
LEMMA LastEndsIs ==
    ASSUME input \in Inputs
    PROVE  /\ LastEnds \in [0..Len(input.text) -> Nat] /\ LastEnds[0] = 1
           /\ \A p \in 1..Len(input.text) :
                LastEnds[p] = IF LastEnds[p - 1] <= p /\ SpecialAt(p) # None
                              THEN p + Len(Control[SpecialAt(p)]) ELSE LastEnds[p - 1]
<1> DEFINE n == Len(input.text)
           g == [x \in (1..n) \X Nat |->
                   IF x[2] <= x[1] /\ SpecialAt(x[1]) # None
                   THEN x[1] + Len(Control[SpecialAt(x[1])]) ELSE x[2]]
<1>1. n \in Nat
  <2>1. Utf8Text(input.text)
    BY InputTexts
  <2> QED
    BY <2>1, EndsFacts DEF Utf8Text
<1>2. \A p \in 1..n : SpecialAt(p) # None => p + Len(Control[SpecialAt(p)]) \in Nat
  <2>1. \A p \in 1..n : SpecialAt(p) # None => Len(Control[SpecialAt(p)]) \in Nat
    BY SpecialIsControl, ControlText
  <2> QED
    BY <1>1, <2>1
<1> HIDE DEF n
<1>3. g \in [(1..n) \X Nat -> Nat]
  <2>1. \A x \in (1..n) \X Nat : x[1] \in 1..n /\ x[2] \in Nat
    OBVIOUS
  <2> QED
    BY <1>2, <2>1
<1>4. \A p \in 1..n : \A e \in Nat :
        g[<<p, e>>] = IF e <= p /\ SpecialAt(p) # None THEN p + Len(Control[SpecialAt(p)]) ELSE e
  OBVIOUS
<1> HIDE DEF g
<1>5. PICK f \in [0..n -> Nat] : Unfolds(f, n, 1, g)
  BY <1>1, <1>3, RecursionExists
<1>6. /\ f[0] = 1
      /\ \A p \in 1..n : p - 1 \in 0..n /\ f[p - 1] \in Nat
           /\ f[p] = IF f[p - 1] <= p /\ SpecialAt(p) # None
                     THEN p + Len(Control[SpecialAt(p)]) ELSE f[p - 1]
  <2>1. \A p \in 1..n : p - 1 \in 0..n /\ f[p - 1] \in Nat
    BY <1>1
  <2> QED
    BY <1>4, <1>5, <2>1 DEF Unfolds
<1> DEFINE Step(e, p) == IF p = 0 THEN 1
                         ELSE IF e[p - 1] <= p /\ SpecialAt(p) # None
                              THEN p + Len(Control[SpecialAt(p)]) ELSE e[p - 1]
           Rec(e) == e = [p \in 0..n |-> Step(e, p)]
<1>7. Rec(f)
  <2>1. ASSUME NEW p \in 0..n PROVE f[p] = Step(f, p)
    <3>1. CASE p = 0
      BY <1>6, <3>1
    <3>2. CASE p # 0
      <4>1. p \in 1..n
        BY <1>1, <3>2
      <4> QED
        BY <1>6, <3>2, <4>1
    <3> QED
      BY <3>1, <3>2
  <2> HIDE DEF Step
  <2> QED
    BY <2>1
<1>8. LastEnds = CHOOSE e : Rec(e)
  BY DEF LastEnds, n
<1>9. Rec(LastEnds)
  BY <1>7, <1>8
<1>10. DOMAIN LastEnds = 0..n /\ \A p \in 0..n : LastEnds[p] = Step(LastEnds, p)
  <2> HIDE DEF Step
  <2> QED
    BY <1>9
<1>11. /\ LastEnds[0] = 1
       /\ \A p \in 1..n :
            LastEnds[p] = IF LastEnds[p - 1] <= p /\ SpecialAt(p) # None
                          THEN p + Len(Control[SpecialAt(p)]) ELSE LastEnds[p - 1]
  <2>1. \A p \in 1..n : p \in 0..n /\ p # 0
    BY <1>1
  <2> QED
    BY <1>1, <1>10, <2>1
<1>12. \A p \in 0..n : LastEnds[p] \in Nat
  <2> DEFINE T == {p \in 0..n : LastEnds[p] \notin Nat}
             m == Min(T)
  <2>1. SUFFICES ASSUME T # {} PROVE FALSE
    OBVIOUS
  <2>2. T \subseteq Nat
    OBVIOUS
  <2>3. m \in T /\ \A y \in T : m <= y
    BY <2>1, <2>2, LeastElement
  <2> HIDE DEF m
  <2>4. m \in 0..n /\ LastEnds[m] \notin Nat /\ \A y \in 0..n : LastEnds[y] \notin Nat => m <= y
    BY <2>3
  <2> HIDE DEF T
  <2>5. m # 0
    BY <1>11, <2>4
  <2>6. m \in 1..n /\ m - 1 \in 0..n /\ ~(m <= m - 1)
    BY <1>1, <2>4, <2>5
  <2>7. LastEnds[m - 1] \in Nat
    BY <2>4, <2>6
  <2> QED
    BY <1>2, <1>11, <2>4, <2>6, <2>7
<1>13. LastEnds = [p \in 0..n |-> Step(LastEnds, p)]
  BY <1>9
<1>14. LastEnds \in [0..n -> Nat]
  <2> HIDE DEF Step
  <2> QED
    BY <1>10, <1>12, <1>13
<1> QED
  BY <1>11, <1>14 DEF n

\* A control token starts with the start of a character.
LEMMA SpecialStartsChar ==
    ASSUME input \in Inputs, NEW p \in 1..Len(input.text), SpecialAt(p) # None
    PROVE  Lead(input.text[p])
<1> DEFINE s == input.text
           n == Len(s)
           t == SubSeq(s, p, n)
           c == Control[SpecialAt(p)]
<1>1. s \in Seq(Bytes)
  BY InputTexts DEF Utf8Text
<1>2. n \in Nat /\ \A i \in 1..n : s[i] \in Bytes
  BY <1>1, EndsFacts
<1>3. IsPrefix(c, t) /\ c \in Seq(Bytes) /\ Len(c) \in Nat /\ Len(c) > 0 /\ Lead(c[1])
  BY SpecialIsControl, ControlText
<1> HIDE DEF c
<1>4. t \in Seq(Bytes) /\ Len(t) = n - p + 1 /\ t[1] = s[p]
  <2>1. \A i \in p..n : s[i] \in Bytes
    BY <1>2
  <2>2. t \in Seq(Bytes) /\ Len(t) = n - p + 1 /\ t[1] = s[p + 1 - 1]
    BY <1>2, <2>1, SubSeqProperties
  <2>3. p + 1 - 1 = p
    BY <1>2
  <2> QED
    BY <2>2, <2>3
<1> HIDE DEF s, n, t
<1> DEFINE m == Len(c)
<1>5. m <= Len(t) /\ SubSeq(c, 1, m) = SubSeq(t, 1, m)
  BY <1>3 DEF IsPrefix
<1>6. m \in Nat /\ m > 0 /\ Len(t) \in Nat
  BY <1>3, <1>4
<1>7. SubSeq(c, 1, m)[1] = c[1]
  <2>1. \A i \in 1..m : c[i] \in Bytes
    BY <1>3
  <2>2. \A i \in 1..m : SubSeq(c, 1, m)[i] = c[1 + i - 1]
    BY <1>6, <2>1, SubSeqProperties
  <2>3. 1 \in 1..m /\ 1 + 1 - 1 = 1
    BY <1>6
  <2> QED
    BY <2>2, <2>3
<1>8. SubSeq(t, 1, m)[1] = t[1]
  <2>1. \A i \in 1..m : t[i] \in Bytes
    BY <1>4, <1>5, <1>6
  <2>2. \A i \in 1..m : SubSeq(t, 1, m)[i] = t[1 + i - 1]
    BY <1>6, <2>1, SubSeqProperties
  <2>3. 1 \in 1..m /\ 1 + 1 - 1 = 1
    BY <1>6
  <2> QED
    BY <2>2, <2>3
<1>9. c[1] = t[1]
  BY <1>5, <1>7, <1>8, Zenon
<1> QED
  BY <1>3, <1>4, <1>9 DEF s

\* No control token ends while none starts, or inside one.
LEMMA EndsStay ==
    ASSUME input \in Inputs, NEW a \in 0..Len(input.text), NEW b \in (a + 1)..(Len(input.text) + 1),
           \A p \in (a + 1)..(b - 1) : SpecialAt(p) = None \/ LastEnds[a] > p
    PROVE  \A p \in a..(b - 1) : LastEnds[p] = LastEnds[a]
<1> DEFINE n == Len(input.text)
           T == {p \in a..(b - 1) : LastEnds[p] # LastEnds[a]}
           m == Min(T)
<1>1. SUFFICES ASSUME T # {} PROVE FALSE
  OBVIOUS
<1>0. n \in Nat /\ a \in Nat
  BY InputTexts, EndsFacts DEF Utf8Text
<1>2. T \subseteq Nat
  BY <1>0
<1>3. m \in T /\ \A y \in T : m <= y
  BY <1>1, <1>2, LeastElement
<1> HIDE DEF m
<1>4. m \in a..(b - 1) /\ LastEnds[m] # LastEnds[a]
      /\ \A y \in a..(b - 1) : LastEnds[y] # LastEnds[a] => m <= y
  BY <1>3
<1> HIDE DEF T
<1>5. m # a
  BY <1>4
<1>6. m \in (a + 1)..(b - 1) /\ m - 1 \in a..(b - 1) /\ ~(m <= m - 1) /\ m \in 1..n
  BY <1>0, <1>4, <1>5
<1>7. LastEnds[m - 1] = LastEnds[a]
  BY <1>4, <1>6
<1>8. LastEnds[a] \in Nat
  BY LastEndsIs
<1>9. ~(LastEnds[m - 1] <= m /\ SpecialAt(m) # None)
  <2> DEFINE l == LastEnds[a]
  <2>1. SpecialAt(m) = None \/ l > m
    BY <1>6
  <2>2. l \in Nat /\ m \in Nat /\ LastEnds[m - 1] = l
    BY <1>6, <1>7, <1>8
  <2> HIDE DEF l
  <2> QED
    BY <2>1, <2>2
<1>10. LastEnds[m] = LastEnds[m - 1]
  BY <1>6, <1>9, LastEndsIs
<1> QED
  BY <1>4, <1>7, <1>10

\* What is kept of each byte, and the control token that starts with it.
Kept == [p \in DOMAIN input.text |-> IF LastEnds[p] <= p THEN <<input.text[p]>> ELSE <<>>]
Started ==
    [p \in DOMAIN input.text |->
        IF LastEnds[p - 1] <= p /\ SpecialAt(p) # None
        THEN <<TokenId(Spelling(SpecialAt(p)))>> ELSE <<>>]

\* Both are lists of sequences, which joined are what a rendered text says and asks for.
LEMMA ScanLists ==
    ASSUME input \in Inputs
    PROVE  /\ Kept \in Seq(Seq(Bytes)) /\ Len(Kept) = Len(input.text)
           /\ \A p \in 1..Len(input.text) :
                Kept[p] = IF LastEnds[p] <= p THEN <<input.text[p]>> ELSE <<>>
           /\ Started \in Seq(Seq(Nat)) /\ Len(Started) = Len(input.text)
           /\ \A p \in 1..Len(input.text) :
                Started[p] = IF LastEnds[p - 1] <= p /\ SpecialAt(p) # None
                             THEN <<TokenId(Spelling(SpecialAt(p)))>> ELSE <<>>
           /\ input.kind = "rendered" => Stripped = Flat(Kept) /\ Template = Flat(Started)
<1> DEFINE s == input.text
           n == Len(s)
           k(p) == IF LastEnds[p] <= p THEN <<s[p]>> ELSE <<>>
           l(p) == IF LastEnds[p - 1] <= p /\ SpecialAt(p) # None
                   THEN <<TokenId(Spelling(SpecialAt(p)))>> ELSE <<>>
<1>1. s \in Seq(Bytes)
  BY InputTexts DEF Utf8Text
<1>2. n \in Nat /\ DOMAIN s = 1..n /\ \A p \in 1..n : s[p] \in Bytes
  BY <1>1, EndsFacts
<1>3. \A p \in 1..n : k(p) \in Seq(Bytes)
  BY <1>2
<1>4. \A p \in 1..n : l(p) \in Seq(Nat)
  <2>1. ASSUME NEW p \in 1..n, SpecialAt(p) # None
        PROVE  <<TokenId(Spelling(SpecialAt(p)))>> \in Seq(Nat)
    <3> DEFINE x == TokenId(Spelling(SpecialAt(p)))
    <3>1. x \in Nat
      BY <2>1, SpecialIsControl, ControlHasId
    <3> HIDE DEF x
    <3> QED
      BY <3>1 DEF x
  <2> QED
    BY <2>1
<1>5. Kept = [p \in 1..n |-> k(p)] /\ Started = [p \in 1..n |-> l(p)]
  BY <1>2 DEF Kept, Started
<1>6. input.kind = "rendered" => Stripped = Flat(Kept)
  BY DEF Stripped, Kept
<1>7. input.kind = "rendered" => Template = Flat(Started)
  BY DEF Template, Started
<1> HIDE DEF k, l, n
<1>8. Kept \in Seq(Seq(Bytes)) /\ Len(Kept) = n /\ \A p \in 1..n : Kept[p] = k(p)
  BY <1>2, <1>3, <1>5
<1>9. Started \in Seq(Seq(Nat)) /\ Len(Started) = n /\ \A p \in 1..n : Started[p] = l(p)
  BY <1>2, <1>4, <1>5
<1> QED
  BY <1>6, <1>7, <1>8, <1>9 DEF k, l, n

\* a and b cut a sequence of length n.
Cuts(a, b, n) == a \in 1..(n + 1) /\ b \in a..(n + 1)

\* What is joined up to b is what is joined up to a and from there to b.
LEMMA FlatUpTo ==
    ASSUME NEW S, NEW ss \in Seq(Seq(S)), NEW a, NEW b, Cuts(a, b, Len(ss))
    PROVE  /\ Flat(Slice(ss, 1, b)) = Flat(Slice(ss, 1, a)) \o Flat(Slice(ss, a, b))
           /\ Flat(Slice(ss, 1, a)) \in Seq(S) /\ Flat(Slice(ss, a, b)) \in Seq(S)
<1> DEFINE n == Len(ss)
           x == Slice(ss, 1, a)
           y == Slice(ss, a, b)
           z == Slice(ss, 1, b)
           i == a - 1
           j == b - 1
<1>1. n \in Nat /\ \A h \in 1..n : ss[h] \in Seq(S)
  OBVIOUS
<1>2. a \in 1..(n + 1) /\ b \in 1..(n + 1) /\ a <= b
  BY <1>1 DEF Cuts
<1>3. x \in Seq(Seq(S)) /\ y \in Seq(Seq(S))
  <2>1. x \in Seq(Seq(S))
    BY <1>1, <1>2, SubSeqProperties DEF Slice
  <2>2. y \in Seq(Seq(S))
    BY <1>1, <1>2, SubSeqProperties DEF Slice
  <2> QED
    BY <2>1, <2>2
<1>5. z = x \o y
  <2>1. 1 \in 1..(Len(ss) + 1) /\ i \in (1 - 1)..Len(ss) /\ j \in i..Len(ss) /\ i + 1 = a
    BY <1>1, <1>2
  <2>2. x = SubSeq(ss, 1, i) /\ y = SubSeq(ss, i + 1, j) /\ z = SubSeq(ss, 1, j)
    BY <2>1 DEF Slice
  <2> HIDE DEF x, y, z, i, j
  <2>3. SubSeq(ss, 1, i) \o SubSeq(ss, i + 1, j) = SubSeq(ss, 1, j)
    BY <2>1, ConcatAdjacentSubSeq
  <2> QED
    BY <2>2, <2>3, Zenon
<1> HIDE DEF x, y, z, n
<1>6. Flat(z) = Flat(x) \o Flat(y)
  BY <1>3, <1>5, FlatConcat
<1>7. Flat(x) \in Seq(S) /\ Flat(y) \in Seq(S)
  BY <1>3, FlatType
<1> QED
  BY <1>6, <1>7 DEF x, y, z

\* y is the part of ss from a up to b.
PartOf(y, ss, a, b) == Len(y) = b - a /\ \A i \in 1..(b - a) : y[i] = ss[a + i - 1]

\* A slice of a list is that part of it.
LEMMA PartIs ==
    ASSUME NEW S, NEW ss \in Seq(Seq(S)), NEW a, NEW b,
           a \in 1..(Len(ss) + 1) /\ b \in a..(Len(ss) + 1)
    PROVE  Slice(ss, a, b) \in Seq(Seq(S)) /\ PartOf(Slice(ss, a, b), ss, a, b)
<1>1. Len(ss) \in Nat /\ a \in Int /\ b \in Int /\ \A h \in 1..Len(ss) : ss[h] \in Seq(S)
  OBVIOUS
<1>2. \A h \in a..(b - 1) : ss[h] \in Seq(S)
  BY <1>1
<1>3. Slice(ss, a, b) \in Seq(Seq(S))
  BY <1>1, <1>2, SubSeqProperties DEF Slice
<1>4. Len(Slice(ss, a, b)) = b - a /\ \A i \in 1..(b - a) : Slice(ss, a, b)[i] = ss[a + i - 1]
  BY <1>1, <1>2, SubSeqProperties DEF Slice
<1> QED
  BY <1>3, <1>4 DEF PartOf

\* Lists that say nothing.
Blank(ss, a, b) == \A p \in a..(b - 1) : ss[p] = <<>>

\* A part of a list in which every sequence is empty.
LEMMA EmptyPart ==
    ASSUME NEW S, NEW ss \in Seq(Seq(S)), NEW a, NEW b,
           a \in 1..(Len(ss) + 1) /\ b \in a..(Len(ss) + 1),
           Blank(ss, a, b)
    PROVE  Flat(Slice(ss, a, b)) = <<>>
<1> DEFINE y == Slice(ss, a, b)
<1>1. y \in Seq(Seq(S)) /\ Len(y) = b - a /\ \A i \in 1..(b - a) : y[i] = ss[a + i - 1]
  <2>1. y \in Seq(Seq(S)) /\ PartOf(y, ss, a, b)
    BY PartIs
  <2> QED
    BY <2>1 DEF PartOf
<1>0. Len(ss) \in Nat /\ a \in Nat /\ b \in Nat
  OBVIOUS
<1> HIDE DEF y
<1>2. ASSUME NEW i \in 1..(b - a) PROVE y[i] = <<>>
  <2>1. a + i - 1 \in a..(b - 1)
    BY <1>0
  <2> QED
    BY <1>1, <2>1 DEF Blank
<1>3. y \in Seq({<<>>})
  <2>1. DOMAIN y = 1..(b - a)
    BY <1>1
  <2> DEFINE m == b - a
             h == [i \in 1..m |-> <<>>]
  <2>2. y = [i \in 1..m |-> y[i]]
    BY <1>1, <2>1
  <2>3. m \in Nat
    BY <1>0
  <2>4. y = h
    BY <1>2, <2>2
  <2> HIDE DEF m
  <2>5. h \in Seq({<<>>})
    BY <2>3
  <2> QED
    BY <2>4, <2>5
<1>4. Flat(y) = <<>>
  BY <1>3, FlatEmpties
<1> QED
  BY <1>4 DEF y

\* No control token starts or goes on from a up to b.
Quiet(a, b) == \A p \in a..(b - 1) : LastEnds[p] <= p /\ SpecialAt(p) = None

\* Where no control token is, every byte is kept.
LEMMA QuietPart ==
    ASSUME input \in Inputs, NEW a, NEW b,
           a \in 1..(Len(input.text) + 1) /\ b \in a..(Len(input.text) + 1),
           Quiet(a, b)
    PROVE  /\ Flat(Slice(Kept, a, b)) = Slice(input.text, a, b)
           /\ Flat(Slice(Started, a, b)) = <<>>
<1> DEFINE s == input.text
           n == Len(s)
           y == Slice(Kept, a, b)
           t == Slice(s, a, b)
<1>1. s \in Seq(Bytes)
  BY InputTexts DEF Utf8Text
<1>2. n \in Nat /\ DOMAIN s = 1..n /\ \A p \in 1..n : s[p] \in Bytes
  BY <1>1, EndsFacts
<1>0. a \in 1..(n + 1) /\ b \in 1..(n + 1) /\ a <= b
  BY <1>2
<1>3. /\ Kept \in Seq(Seq(Bytes)) /\ Len(Kept) = n
      /\ \A p \in 1..n : Kept[p] = IF LastEnds[p] <= p THEN <<s[p]>> ELSE <<>>
  BY ScanLists
<1>4. y \in Seq(Seq(Bytes)) /\ Len(y) = b - a /\ \A i \in 1..(b - a) : y[i] = Kept[a + i - 1]
  <2>1. a \in 1..(Len(Kept) + 1) /\ b \in a..(Len(Kept) + 1)
    BY <1>0, <1>2, <1>3
  <2>2. Kept \in Seq(Seq(Bytes))
    BY <1>3
  <2>3. y \in Seq(Seq(Bytes)) /\ PartOf(y, Kept, a, b)
    BY <2>1, <2>2, PartIs
  <2> QED
    BY <2>3 DEF PartOf
<1>5. t \in Seq(Bytes) /\ Len(t) = b - a /\ \A i \in 1..(b - a) : t[i] = s[a + i - 1]
  <2>1. \A i \in a..(b - 1) : s[i] \in Bytes
    BY <1>0, <1>2
  <2>2. t \in Seq(Bytes)
    BY <1>0, <1>2, <2>1, SubSeqProperties DEF Slice
  <2>3. Len(t) = b - a /\ \A i \in 1..(b - a) : t[i] = s[a + i - 1]
    BY <1>0, <1>2, <2>1, SubSeqProperties DEF Slice
  <2> QED
    BY <2>2, <2>3
<1> HIDE DEF y, t, s, n
<1>6. ASSUME NEW i \in 1..(b - a) PROVE y[i] = <<t[i]>>
  <2>1. a + i - 1 \in a..(b - 1) /\ a + i - 1 \in 1..n
    BY <1>0, <1>2, <1>4
  <2>2. Kept[a + i - 1] = <<s[a + i - 1]>>
    BY <1>3, <2>1 DEF Quiet
  <2> QED
    BY <1>4, <1>5, <2>2
<1>7. y = [i \in DOMAIN t |-> <<t[i]>>]
  <2>1. DOMAIN y = 1..(b - a) /\ DOMAIN t = 1..(b - a)
    BY <1>4, <1>5
  <2>2. y = [i \in 1..(b - a) |-> y[i]]
    BY <1>4, <2>1
  <2> QED
    BY <1>6, <2>1, <2>2
<1>8. Flat(y) = t
  BY <1>5, <1>7, FlatSingles
<1>9. Flat(Slice(Started, a, b)) = <<>>
  <2>1. /\ Started \in Seq(Seq(Nat)) /\ Len(Started) = n
        /\ \A p \in 1..n : SpecialAt(p) = None => Started[p] = <<>>
    BY ScanLists DEF n, s
  <2>2. Blank(Started, a, b)
    <3>1. \A p \in a..(b - 1) : p \in 1..n
      BY <1>0, <1>2
    <3> QED
      BY <2>1, <3>1 DEF Blank, Quiet
  <2>3. a \in 1..(Len(Started) + 1) /\ b \in a..(Len(Started) + 1)
    BY <1>0, <1>2, <2>1
  <2> QED
    BY <2>1, <2>2, <2>3, EmptyPart
<1> QED
  BY <1>8, <1>9 DEF y, t, s

\* The bytes of a control token: none is kept, and it starts with the first.
LEMMA SpecialPart ==
    ASSUME input \in Inputs, NEW a \in 1..Len(input.text), SpecialAt(a) # None,
           LastEnds[a - 1] <= a, NEW b, b = a + Len(Control[SpecialAt(a)]),
           b \in 1..(Len(input.text) + 1)
    PROVE  /\ Flat(Slice(Kept, a, b)) = <<>>
           /\ Flat(Slice(Started, a, b)) = <<TokenId(Spelling(SpecialAt(a)))>>
           /\ LastEnds[b - 1] = b
<1> DEFINE s == input.text
           n == Len(s)
<1>1. n \in Nat
  BY InputTexts, EndsFacts DEF Utf8Text
<1>2. Len(Control[SpecialAt(a)]) \in Nat /\ Len(Control[SpecialAt(a)]) > 0
  BY SpecialIsControl, ControlText
<1>3. a \in Nat /\ b \in Nat /\ b > a /\ b <= n + 1
  BY <1>1, <1>2
<1>4. LastEnds[a] = b
  BY LastEndsIs
<1>5. \A p \in a..(b - 1) : LastEnds[p] = b
  <2>1. a \in 0..n /\ b \in (a + 1)..(n + 1)
    BY <1>1, <1>3
  <2>2. \A p \in (a + 1)..(b - 1) : b > p
    BY <1>3
  <2>3. \A p \in (a + 1)..(b - 1) : SpecialAt(p) = None \/ LastEnds[a] > p
    BY <1>4, <2>2
  <2>4. \A p \in a..(b - 1) : LastEnds[p] = LastEnds[a]
    BY <2>1, <2>3, EndsStay
  <2> QED
    BY <1>4, <2>4
<1>6. LastEnds[b - 1] = b
  <2>1. b - 1 \in a..(b - 1)
    BY <1>3
  <2> QED
    BY <1>5, <2>1
<1>0. \A p \in a..(b - 1) : p \in 1..n /\ ~(b <= p)
  BY <1>1, <1>3
<1>7. Flat(Slice(Kept, a, b)) = <<>>
  <2>1. /\ Kept \in Seq(Seq(Bytes)) /\ Len(Kept) = n
        /\ \A p \in 1..n : ~(LastEnds[p] <= p) => Kept[p] = <<>>
    BY ScanLists
  <2>2. Blank(Kept, a, b)
    BY <1>0, <1>5, <2>1 DEF Blank
  <2>3. a \in 1..(Len(Kept) + 1) /\ b \in a..(Len(Kept) + 1)
    BY <1>1, <1>3, <2>1
  <2> QED
    BY <2>1, <2>2, <2>3, EmptyPart
<1>8. Flat(Slice(Started, a, b)) = <<TokenId(Spelling(SpecialAt(a)))>>
  <2> DEFINE d == a + 1
             x == TokenId(Spelling(SpecialAt(a)))
             ss == Started
  <2>1. /\ ss \in Seq(Seq(Nat)) /\ Len(ss) = n
        /\ \A p \in 1..n : ~(LastEnds[p - 1] <= p) => ss[p] = <<>>
    BY ScanLists
  <2>2. ss[a] = <<x>>
    BY ScanLists
  <2>3. ASSUME NEW p \in d..(b - 1) PROVE ss[p] = <<>>
    <3>1. p - 1 \in a..(b - 1) /\ p \in a..(b - 1)
      BY <1>3
    <3>2. LastEnds[p - 1] = b /\ p \in 1..n /\ ~(b <= p)
      BY <1>0, <1>5, <3>1
    <3> QED
      BY <2>1, <3>2
  <2>0. x \in Nat
    BY SpecialIsControl, ControlHasId
  <2>4. d \in 1..(Len(ss) + 1) /\ b \in d..(Len(ss) + 1) /\ a \in 1..Len(ss) /\ d - 1 = a
        /\ b - 1 \in a..Len(ss)
    <3>1. Len(ss) = n
      BY <2>1
    <3>2. d \in 1..(n + 1) /\ b \in d..(n + 1) /\ a \in 1..n /\ d - 1 = a /\ b - 1 \in a..n
      BY <1>1, <1>3
    <3> QED
      BY <3>1, <3>2, Zenon
  <2> HIDE DEF ss, d, x, n
  <2>5. Flat(Slice(ss, d, b)) = <<>>
    <3>1. Blank(ss, d, b)
      BY <2>3 DEF Blank
    <3> QED
      BY <2>1, <2>4, <3>1, EmptyPart
  <2> DEFINE z == Slice(ss, d, b)
  <2>6. z \in Seq(Seq(Nat))
    BY <2>1, <2>4, PartIs
  <2>7. Slice(ss, a, b) = <<ss[a]>> \o z
    <3> DEFINE j == b - 1
    <3>1. SubSeq(ss, a, j) = <<ss[a]>> \o SubSeq(ss, a + 1, j)
      <4>1. j \in a..Len(ss)
        BY <2>4
      <4> HIDE DEF j
      <4> QED
        BY <2>1, <2>4, <4>1, SubSeqRecursiveFirst
    <3> QED
      BY <3>1, Zenon DEF Slice, d, j, z
  <2> HIDE DEF z
  <2>8. <<x>> \in Seq(Nat)
    BY <2>0
  <2>9. <<ss[a]>> \in Seq(Seq(Nat)) /\ Flat(<<ss[a]>>) = <<x>>
    <3> DEFINE u == ss[a]
    <3>1. u \in Seq(Nat) /\ u = <<x>>
      BY <2>2, <2>8
    <3> HIDE DEF u
    <3>0. u \in Seq(Nat)
      BY <3>1
    <3>2. <<u>> \in Seq(Seq(Nat)) /\ Flat(<<u>>) = u
      BY <3>0, FlatOne
    <3> QED
      BY <3>1, <3>2 DEF u
  <2>10. Flat(<<ss[a]>> \o z) = Flat(<<ss[a]>>) \o Flat(z)
    <3> DEFINE v == <<ss[a]>>
    <3>1. v \in Seq(Seq(Nat))
      BY <2>9
    <3> HIDE DEF v
    <3>2. Flat(v \o z) = Flat(v) \o Flat(z)
      BY <2>6, <3>1, FlatConcat
    <3> QED
      BY <3>2 DEF v
  <2>11. Flat(z) = <<>>
    BY <2>5 DEF z
  <2>12. <<x>> \o <<>> = <<x>>
    BY <2>8, ConcatEmptySeq
  <2>13. Flat(Slice(ss, a, b)) = <<x>>
    BY <2>7, <2>9, <2>10, <2>11, <2>12, Zenon
  <2> QED
    BY <2>13 DEF ss, x
<1> QED
  BY <1>6, <1>7, <1>8

-----------------------------------------------------------------------------
(* What the segments still to encode say and ask for.                      *)
ControlIds == {TokenId(Spelling(c)) : c \in DOMAIN Control}
SegParts == [token : {None}, text : Utf8Texts] \union [token : ControlIds, text : {None}]

\* What a segment says and the control token it is.
SegSays == [g \in SegParts |-> IF g.text = None THEN <<>> ELSE g.text]
SegMarks == [g \in SegParts |-> IF g.text = None THEN <<g.token>> ELSE <<>>]

\* A segment is a text or a control token.
LEMMA SegIs ==
    ASSUME NEW g \in SegParts
    PROVE  \/ /\ g.text # None /\ g.token = None /\ Utf8Text(g.text) /\ g.text \in Seq(Bytes)
              /\ SegSays[g] = g.text /\ SegMarks[g] = <<>>
           \/ /\ g.text = None /\ g.token \in DOMAIN Vocab /\ g.token \in Nat /\ g.token # None
              /\ IsControl(g.token) /\ SegSays[g] = <<>> /\ SegMarks[g] = <<g.token>>
<1>1. CASE g \in [token : {None}, text : Utf8Texts]
  <2>1. g.token = None /\ g.text \in Seq(Bytes) /\ Utf8Text(g.text)
    BY <1>1 DEF Utf8Texts
  <2>2. g.text # None
    BY <2>1, TokenizerAssumption
  <2> QED
    BY <2>1, <2>2 DEF SegSays, SegMarks
<1>2. CASE g \in [token : ControlIds, text : {None}]
  <2>1. g.text = None /\ g.token \in ControlIds
    BY <1>2
  <2>2. PICK c \in DOMAIN Control : g.token = TokenId(Spelling(c))
    BY <2>1 DEF ControlIds
  <2>3. g.token \in DOMAIN Vocab /\ IsControl(g.token) /\ g.token \in Nat
    BY <2>2, ControlIs, ControlHasId
  <2>4. g.token # None
    BY <2>3, TokenizerAssumption
  <2> QED
    BY <2>1, <2>3, <2>4 DEF SegSays, SegMarks
<1> QED
  BY <1>1, <1>2 DEF SegParts

\* What a list of segments says and asks for.
LEMMA SegLists == Lists(SegSays, SegParts, Bytes) /\ Lists(SegMarks, SegParts, Nat)
<1>1. \A g \in SegParts : SegSays[g] \in Seq(Bytes) /\ SegMarks[g] \in Seq(Nat)
  <2> SUFFICES ASSUME NEW g \in SegParts
               PROVE  SegSays[g] \in Seq(Bytes) /\ SegMarks[g] \in Seq(Nat)
    OBVIOUS
  <2>1. <<>> \in Seq(Bytes) /\ <<>> \in Seq(Nat) /\ \A x \in Nat : <<x>> \in Seq(Nat)
    OBVIOUS
  <2> QED
    BY <2>1, SegIs
<1>2. SegSays = [g \in SegParts |-> SegSays[g]] /\ SegMarks = [g \in SegParts |-> SegMarks[g]]
  BY DEF SegSays, SegMarks
<1> QED
  BY <1>1, <1>2 DEF Lists

\* A text says itself.
LEMMA TextSeg ==
    ASSUME NEW t, Utf8Text(t)
    PROVE  Says(t) \in SegParts /\ SegSays[Says(t)] = t /\ SegMarks[Says(t)] = <<>>
           /\ Says(t).text = t
<1>1. t \in Utf8Texts /\ t # None
  BY TokenizerAssumption DEF Utf8Texts, Utf8Text
<1>2. Says(t) \in SegParts /\ Says(t).text = t
  BY <1>1 DEF Says, Segment, SegParts
<1> QED
  BY <1>1, <1>2 DEF SegSays, SegMarks

\* A control token says nothing.
LEMMA MarkSeg ==
    ASSUME NEW c \in DOMAIN Control
    PROVE  /\ Mark(c) \in SegParts /\ SegSays[Mark(c)] = <<>> /\ Mark(c).text = None
           /\ SegMarks[Mark(c)] = <<TokenId(Spelling(c))>>
<1>1. Mark(c) \in SegParts /\ Mark(c).text = None /\ Mark(c).token = TokenId(Spelling(c))
  BY DEF Mark, Segment, SegParts, ControlIds
<1> QED
  BY <1>1 DEF SegSays, SegMarks

\* The same of a list of segments.
Said(q) == Spread(SegSays, q)
Marks(q) == Spread(SegMarks, q)

\* Segment by segment.
LEMMA SaidIs ==
    /\ Said(<<>>) = <<>> /\ Marks(<<>>) = <<>>
    /\ \A q \in Seq(SegParts) : Said(q) \in Seq(Bytes) /\ Marks(q) \in Seq(Nat)
    /\ \A q, r \in Seq(SegParts) : Said(q \o r) = Said(q) \o Said(r) /\ Marks(q \o r) = Marks(q) \o Marks(r)
    /\ \A g \in SegParts : Said(<<g>>) = SegSays[g] /\ Marks(<<g>>) = SegMarks[g]
<1>1. Said(<<>>) = <<>> /\ Marks(<<>>) = <<>>
  BY SpreadNil DEF Said, Marks
<1>2. ASSUME NEW q \in Seq(SegParts) PROVE Said(q) \in Seq(Bytes) /\ Marks(q) \in Seq(Nat)
  BY SegLists, SpreadType DEF Said, Marks
<1>3. ASSUME NEW q \in Seq(SegParts), NEW r \in Seq(SegParts)
      PROVE  Said(q \o r) = Said(q) \o Said(r) /\ Marks(q \o r) = Marks(q) \o Marks(r)
  BY SegLists, SpreadConcat DEF Said, Marks
<1>4. ASSUME NEW g \in SegParts PROVE Said(<<g>>) = SegSays[g] /\ Marks(<<g>>) = SegMarks[g]
  BY SegLists, SpreadOne DEF Said, Marks
<1> QED
  BY <1>1, <1>2, <1>3, <1>4

\* The first segment and the others.
LEMMA SaidFirst ==
    ASSUME NEW q \in Seq(SegParts), q # <<>>
    PROVE  /\ Head(q) \in SegParts /\ Tail(q) \in Seq(SegParts)
           /\ Said(q) = SegSays[Head(q)] \o Said(Tail(q))
           /\ Marks(q) = SegMarks[Head(q)] \o Marks(Tail(q))
<1> DEFINE g == Head(q)
           r == Tail(q)
<1>1. g \in SegParts /\ r \in Seq(SegParts)
  OBVIOUS
<1>2. q = <<g>> \o r
  BY HeadTailProperties
<1>3. <<g>> \in Seq(SegParts)
  BY <1>1
<1> HIDE DEF g, r
<1> DEFINE h == <<g>>
<1> HIDE DEF h
<1>4. h \in Seq(SegParts) /\ q = h \o r
  BY <1>2, <1>3 DEF h
<1>5. Said(h \o r) = Said(h) \o Said(r) /\ Marks(h \o r) = Marks(h) \o Marks(r)
  BY <1>1, <1>4, SaidIs
<1>6. Said(h) = SegSays[g] /\ Marks(h) = SegMarks[g]
  BY <1>1, SaidIs DEF h
<1>7. Said(q) = SegSays[g] \o Said(r) /\ Marks(q) = SegMarks[g] \o Marks(r)
  BY <1>4, <1>5, <1>6
<1> QED
  BY <1>1, <1>7 DEF g, r

-----------------------------------------------------------------------------
(* The texts that are looked up as they are.                               *)
NoControl(t) == \A c \in DOMAIN Control : Chars(t) # Spelling(c)
PlainIfToken(t) == TokenId(Chars(t)) # None => PlainChars(Chars(t))

\* A text that is no control token is not spelled as one.
LEMMA NoControlIf ==
    ASSUME NEW t, Utf8Text(t), \A c \in DOMAIN Control : t # Control[c]
    PROVE  NoControl(t)
<1> SUFFICES ASSUME NEW c \in DOMAIN Control, Chars(t) = Spelling(c) PROVE FALSE
  BY DEF NoControl
<1>1. Utf8Text(Control[c]) /\ Chars(t) = Chars(Control[c])
  BY ControlText DEF Spelling
<1>2. t = Control[c]
  BY <1>1, CharsDiffer
<1> QED
  BY <1>2

\* A text starts at the end of no character.
LEMMA FirstEnd ==
    ASSUME NEW s, Utf8Text(s)
    PROVE  1 \in Ends(s) /\ Len(s) + 1 \in Ends(s) /\ 1 <= Len(s) + 1
<1>1. s \in Seq(Bytes) /\ (s # <<>> => Lead(s[1]))
  BY DEF Utf8Text
<1>2. Len(s) \in Nat /\ Len(s) + 1 \in Ends(s)
  BY <1>1, EndsFacts
<1>3. CASE s = <<>>
  <2>1. Len(s) + 1 = 1
    BY <1>3
  <2> QED
    BY <1>2, <2>1
<1>4. CASE s # <<>>
  <2>1. 1 \in 1..Len(s)
    BY <1>1, <1>4
  <2> QED
    BY <1>1, <1>2, <1>4, <2>1, EndsFacts
<1> QED
  BY <1>3, <1>4

\* A part of a text that is not mistaken is not taken for a token of other bytes.
LEMMA PartNotMistaken ==
    ASSUME NEW s, Utf8Text(s), ~Mistaken(s), NEW a \in Ends(s), NEW b \in Ends(s), a <= b,
           NEW t, t = Slice(s, a, b)
    PROVE  PlainIfToken(t)
<1> SUFFICES ASSUME TokenId(Chars(t)) # None PROVE PlainChars(Chars(t))
  BY DEF PlainIfToken
<1> DEFINE i == TokenId(Chars(t))
<1>1. i \in DOMAIN Vocab /\ Vocab[i] = Chars(t)
  BY TokenIdIs
<1>2. \E k \in 0..(Len(Chars(s)) - Len(Chars(t))) :
         SubSeq(Chars(s), k + 1, k + Len(Chars(t))) = Chars(t)
  BY CharsOccur
<1> HIDE DEF i
<1>3. \E k \in 0..(Len(Chars(s)) - Len(Vocab[i])) :
         SubSeq(Chars(s), k + 1, k + Len(Vocab[i])) = Vocab[i]
  BY <1>1, <1>2, Zenon
<1>4. ~ \E k \in DOMAIN Vocab[i] : Vocab[i][k] \in 128..323
  BY <1>1, <1>3, Zenon DEF Mistaken
<1> QED
  BY <1>1, <1>4 DEF PlainChars

\* Nor is the text.
LEMMA NotMistaken ==
    ASSUME NEW s, Utf8Text(s), ~Mistaken(s)
    PROVE  PlainIfToken(s) /\ NoControl(s)
<1> DEFINE b == Len(s) + 1
<1>1. 1 \in Ends(s) /\ b \in Ends(s) /\ 1 <= b
  BY FirstEnd
<1>2. s = Slice(s, 1, b)
  <2>1. s \in Seq(Bytes) /\ Len(s) \in Nat
    BY EndsFacts DEF Utf8Text
  <2>2. SubSeq(s, 1, Len(s)) = s
    BY <2>1, SubSeqFull
  <2>3. b - 1 = Len(s)
    BY <2>1
  <2> QED
    BY <2>2, <2>3 DEF Slice
<1> HIDE DEF b
<1>3. PlainIfToken(s)
  BY <1>1, <1>2, PartNotMistaken
<1>4. NoControl(s)
  BY DEF Mistaken, SpellsControl, NoControl
<1> QED
  BY <1>3, <1>4

\* What ThinkMode::Max says, or nothing.
LEMMA AskedIsPlain ==
    ASSUME NEW in \in Inputs
    PROVE  Utf8Text(Asked(in)) /\ NoControl(Asked(in)) /\ PlainIfToken(Asked(in))
<1> DEFINE t == Asked(in)
<1>1. Utf8Text(t)
  BY InputTexts
<1>2. t = Effort \/ t = <<>>
  BY DEF Asked
<1>3. /\ \A c \in DOMAIN Control : Effort # Control[c] /\ Control[c] # <<>>
      /\ \A i \in DOMAIN Effort : Effort[i] < 128
  BY TokenizerAssumption
<1> HIDE DEF t
<1>4. NoControl(t)
  BY <1>1, <1>2, <1>3, NoControlIf
<1>5. \A i \in DOMAIN t : t[i] < 128
  <2>1. CASE t = <<>>
    BY <2>1
  <2>2. CASE t = Effort
    BY <1>3, <2>2
  <2> QED
    BY <1>2, <2>1, <2>2
<1>6. PlainChars(Chars(t))
  BY <1>1, <1>5, AsciiChars
<1> QED
  BY <1>1, <1>4, <1>6 DEF PlainIfToken, t

\* A span between two control tokens: none starts with it, so it is none.
LEMMA SpanIsPlain ==
    ASSUME input \in Inputs, NEW a \in Ends(input.text), NEW b \in Ends(input.text), a <= b,
           a < b => SpecialAt(a) = None, NEW t, t = Slice(input.text, a, b)
    PROVE  Utf8Text(t) /\ NoControl(t) /\ (~Mistaken(input.text) => PlainIfToken(t))
<1> DEFINE s == input.text
           n == Len(s)
           u == SubSeq(s, a, n)
<1>1. Utf8Text(s)
  BY InputTexts
<1>2. /\ Utf8Text(t) /\ Len(t) = b - a /\ t \in Seq(Bytes)
      /\ \A i \in 1..(b - a) : t[i] = s[a + i - 1]
  <2>1. Utf8Text(t) /\ Len(t) = b - a /\ \A i \in 1..(b - a) : t[i] = s[a + i - 1]
    BY <1>1, SliceFacts
  <2> QED
    BY <2>1 DEF Utf8Text
<1>3. ~Mistaken(s) => PlainIfToken(t)
  BY <1>1, PartNotMistaken
<1>4. s \in Seq(Bytes) /\ n \in Nat /\ a \in 1..(n + 1) /\ b \in 1..(n + 1) /\ \A i \in 1..n : s[i] \in Bytes
  BY <1>1, EndsFacts DEF Utf8Text
<1>5. ASSUME NEW c \in DOMAIN Control, t = Control[c] PROVE FALSE
  <2>1. Len(t) \in Nat /\ Len(t) > 0
    BY <1>5, ControlText
  <2>2. a < b
    BY <1>2, <1>4, <2>1
  <2>3. u \in Seq(Bytes) /\ Len(u) = n - a + 1 /\ \A i \in 1..(n - a + 1) : u[i] = s[a + i - 1]
    <3>1. \A i \in a..n : s[i] \in Bytes
      BY <1>4
    <3>2. u \in Seq(Bytes)
      BY <1>4, <3>1, SubSeqProperties
    <3>3. Len(u) = n - a + 1 /\ \A i \in 1..(n - a + 1) : u[i] = s[a + i - 1]
      BY <1>4, <3>1, SubSeqProperties
    <3> QED
      BY <3>2, <3>3
  <2> DEFINE m == b - a
  <2> HIDE DEF u, n
  <2>4. m \in Nat /\ m <= Len(u) /\ Len(t) = m
    BY <1>2, <1>4, <2>2, <2>3
  <2>5. ASSUME NEW i \in 1..m PROVE t[i] = u[i]
    <3>1. i \in 1..(n - a + 1)
      BY <1>4, <2>2
    <3> QED
      BY <1>2, <2>3, <3>1
  <2>6. SubSeq(t, 1, m) = SubSeq(u, 1, m)
    <3> HIDE DEF m
    <3> DEFINE v == SubSeq(t, 1, m)
               w == SubSeq(u, 1, m)
    <3>1. \A i \in 1..m : t[i] \in Bytes
      BY <1>2, <2>4
    <3>2. \A i \in 1..m : u[i] \in Bytes
      BY <2>3, <2>4
    <3>3. v \in Seq(Bytes)
      BY <2>4, <3>1, SubSeqProperties
    <3>4. Len(v) = m /\ \A i \in 1..m : v[i] = t[1 + i - 1]
      BY <2>4, <3>1, SubSeqProperties
    <3>5. w \in Seq(Bytes)
      BY <2>4, <3>2, SubSeqProperties
    <3>6. Len(w) = m /\ \A i \in 1..m : w[i] = u[1 + i - 1]
      BY <2>4, <3>2, SubSeqProperties
    <3> HIDE DEF v, w
    <3>7. \A i \in 1..m : 1 + i - 1 = i
      BY <2>4
    <3>8. \A i \in 1..m : v[i] = w[i]
      BY <2>5, <3>4, <3>6, <3>7 DEF m
    <3>9. v = w
      BY <3>3, <3>4, <3>5, <3>6, <3>8, SeqEqual
    <3> QED
      BY <3>9 DEF v, w
  <2>7. IsPrefix(t, u)
    BY <2>4, <2>6 DEF IsPrefix
  <2>8. IsPrefix(Control[c], SubSeq(input.text, a, Len(input.text)))
    BY <1>5, <2>7 DEF u, n
  <2> DEFINE here == {d \in DOMAIN Control : IsPrefix(Control[d], SubSeq(input.text, a, Len(input.text)))}
  <2>9. c \in here
    BY <2>8
  <2>10. SpecialAt(a) = CHOOSE d \in here : TRUE
    BY <2>9 DEF SpecialAt
  <2>11. SpecialAt(a) \in DOMAIN Control
    BY <2>9, <2>10
  <2> QED
    BY <2>2, <2>11, TokenizerAssumption
<1>6. NoControl(t)
  BY <1>2, <1>5, NoControlIf
<1> QED
  BY <1>2, <1>3, <1>6

\* The segments whose text is looked up as it is.
OkSegs == {g \in SegParts : g.text # None => NoControl(g.text)}
PlainSegs == {g \in SegParts : g.text # None => PlainIfToken(g.text)}

\* When the encoders keep the control tokens, and when decode_tokens gives the text.
OkControls == input.kind = "rendered" \/ (~SpellsControl(input.text) /\ ~SpellsControl(input.system))
OkDecode == Encodable(Stripped) /\ ~Mistaken(input.text) /\ ~Mistaken(input.system)

\* A list of seven segments, and what it says and marks.
Prompt(a, b, c, d, e, f, g) == <<a, b, c, d, e, f, g>>

PromptIs(q, a, b, c, d, e, f, g) ==
    /\ q \in Seq(SegParts)
    /\ Said(q) = SegSays[a] \o (SegSays[b] \o (SegSays[c] \o (SegSays[d]
                   \o (SegSays[e] \o (SegSays[f] \o SegSays[g])))))
    /\ Marks(q) = SegMarks[a] \o (SegMarks[b] \o (SegMarks[c] \o (SegMarks[d]
                   \o (SegMarks[e] \o (SegMarks[f] \o SegMarks[g])))))

\* The seven segments of a prompt say what is asked, the system prompt and the text.
LEMMA PromptSays ==
    ASSUME NEW a \in SegParts, NEW b \in SegParts, NEW c \in SegParts, NEW d \in SegParts,
           NEW e \in SegParts, NEW f \in SegParts, NEW g \in SegParts
    PROVE  PromptIs(Prompt(a, b, c, d, e, f, g), a, b, c, d, e, f, g)
<1> DEFINE q == Prompt(a, b, c, d, e, f, g)
<1> DEFINE g1 == <<g>>
           f1 == <<f, g>>
           e1 == <<e, f, g>>
           d1 == <<d, e, f, g>>
           c1 == <<c, d, e, f, g>>
           b1 == <<b, c, d, e, f, g>>
           a1 == <<a, b, c, d, e, f, g>>
<1>0. q = a1
  BY DEF Prompt
<1>1. g1 \in Seq(SegParts) /\ Said(g1) = SegSays[g] /\ Marks(g1) = SegMarks[g]
  BY SaidIs
<1>2. f1 \in Seq(SegParts) /\ f1 # <<>> /\ Head(f1) = f /\ Tail(f1) = g1
  OBVIOUS
<1>3. e1 \in Seq(SegParts) /\ e1 # <<>> /\ Head(e1) = e /\ Tail(e1) = f1
  OBVIOUS
<1>4. d1 \in Seq(SegParts) /\ d1 # <<>> /\ Head(d1) = d /\ Tail(d1) = e1
  OBVIOUS
<1>5. c1 \in Seq(SegParts) /\ c1 # <<>> /\ Head(c1) = c /\ Tail(c1) = d1
  OBVIOUS
<1>6. b1 \in Seq(SegParts) /\ b1 # <<>> /\ Head(b1) = b /\ Tail(b1) = c1
  OBVIOUS
<1>7. a1 \in Seq(SegParts) /\ a1 # <<>> /\ Head(a1) = a /\ Tail(a1) = b1
  OBVIOUS
<1> HIDE DEF q, a1, b1, c1, d1, e1, f1, g1
<1>12. Said(f1) = SegSays[f] \o Said(g1) /\ Marks(f1) = SegMarks[f] \o Marks(g1)
  BY <1>2, SaidFirst
<1>13. Said(e1) = SegSays[e] \o Said(f1) /\ Marks(e1) = SegMarks[e] \o Marks(f1)
  BY <1>3, SaidFirst
<1>14. Said(d1) = SegSays[d] \o Said(e1) /\ Marks(d1) = SegMarks[d] \o Marks(e1)
  BY <1>4, SaidFirst
<1>15. Said(c1) = SegSays[c] \o Said(d1) /\ Marks(c1) = SegMarks[c] \o Marks(d1)
  BY <1>5, SaidFirst
<1>16. Said(b1) = SegSays[b] \o Said(c1) /\ Marks(b1) = SegMarks[b] \o Marks(c1)
  BY <1>6, SaidFirst
<1>17. Said(a1) = SegSays[a] \o Said(b1) /\ Marks(a1) = SegMarks[a] \o Marks(b1)
  BY <1>7, SaidFirst
<1>18. q \in Seq(SegParts)
  BY <1>0, <1>7, Zenon
<1>19. Said(q) = SegSays[a] \o (SegSays[b] \o (SegSays[c] \o (SegSays[d]
                          \o (SegSays[e] \o (SegSays[f] \o SegSays[g])))))
  BY <1>0, <1>1, <1>12, <1>13, <1>14, <1>15, <1>16, <1>17, Zenon
<1>20. Marks(q) = SegMarks[a] \o (SegMarks[b] \o (SegMarks[c] \o (SegMarks[d]
                          \o (SegMarks[e] \o (SegMarks[f] \o SegMarks[g])))))
  BY <1>0, <1>1, <1>12, <1>13, <1>14, <1>15, <1>16, <1>17, Zenon
<1> QED
  BY <1>18, <1>19, <1>20 DEF PromptIs, q

\* What render_chat_prompt, or tokenize_text, starts from.
LEMMA SegmentsSay ==
    ASSUME input \in Inputs, input.kind # "rendered"
    PROVE  /\ Segments(input) \in Seq(SegParts)
           /\ Said(Segments(input)) = Stripped
           /\ Marks(Segments(input)) = Template
           /\ OkControls => Segments(input) \in Seq(OkSegs)
           /\ OkDecode => Segments(input) \in Seq(PlainSegs)
<1> DEFINE t == input.text
           s == input.system
           k == Asked(input)
<1>1. Utf8Text(t) /\ Utf8Text(s) /\ Utf8Text(k) /\ NoControl(k) /\ PlainIfToken(k)
  BY InputTexts, AskedIsPlain
<1>2. t \in Seq(Bytes) /\ s \in Seq(Bytes) /\ k \in Seq(Bytes)
  BY <1>1 DEF Utf8Text
<1>3. OkControls => NoControl(t) /\ NoControl(s)
  BY DEF OkControls, SpellsControl, NoControl
<1>4. OkDecode => PlainIfToken(t) /\ PlainIfToken(s)
  BY <1>1, NotMistaken DEF OkDecode
<1>5. Stripped = (k \o s) \o t
  BY DEF Stripped
<1>6. CASE input.kind = "text"
  <2>1. Segments(input) = <<Says(t)>>
    BY <1>6 DEF Segments
  <2>2. k = <<>> /\ s = <<>>
    <3>1. input \in [kind : {"text", "rendered"}, text : Texts, system : {<<>>}]
      BY <1>6 DEF Inputs
    <3> QED
      BY <1>6, <3>1 DEF Asked
  <2>3. Template = <<>>
    BY <1>6 DEF Template
  <2> DEFINE g == Says(t)
             q == <<g>>
  <2>4. g \in SegParts /\ SegSays[g] = t /\ SegMarks[g] = <<>> /\ g.text = t
    BY <1>1, TextSeg
  <2>5. Stripped = t
    <3>1. (<<>> \o <<>>) \o t = t
      <4>1. <<>> \o <<>> = <<>>
        OBVIOUS
      <4>2. <<>> \o t = t
        BY <1>2, ConcatEmptySeq
      <4> QED
        BY <4>1, <4>2
    <3> QED
      BY <1>5, <2>2, <3>1
  <2> HIDE DEF g, t
  <2>6. q \in Seq(SegParts) /\ Said(q) = t /\ Marks(q) = <<>>
    BY <2>4, SaidIs
  <2>8. (OkControls => q \in Seq(OkSegs)) /\ (OkDecode => q \in Seq(PlainSegs))
    <3>1. (OkControls => g \in OkSegs) /\ (OkDecode => g \in PlainSegs)
      BY <1>3, <1>4, <2>4 DEF OkSegs, PlainSegs
    <3> QED
      BY <3>1
  <2>9. Segments(input) = q
    BY <2>1 DEF g
  <2> QED
    BY <2>3, <2>5, <2>6, <2>8, <2>9
<1>7. CASE input.kind # "text"
  <2> DEFINE think == IF input.kind = "none" THEN "think_end" ELSE "think_start"
             ma == Mark("bos")
             mb == Says(k)
             mc == Says(s)
             md == Mark("user")
             me == Says(t)
             mf == Mark("assistant")
             mg == Mark(think)
             xa == TokenId(Spelling("bos"))
             xd == TokenId(Spelling("user"))
             xf == TokenId(Spelling("assistant"))
             xg == TokenId(Spelling(think))
             q == Prompt(ma, mb, mc, md, me, mf, mg)
  <2>1. Segments(input) = q
    BY <1>7 DEF Segments, Prompt
  <2>2. Template = <<xa, xd, xf, xg>>
    BY <1>7 DEF Template
  <2>3. "bos" \in DOMAIN Control /\ "user" \in DOMAIN Control /\ "assistant" \in DOMAIN Control
        /\ think \in DOMAIN Control
    BY TokenizerAssumption
  <2> HIDE DEF think
  <2>4. /\ ma \in SegParts /\ SegSays[ma] = <<>> /\ SegMarks[ma] = <<xa>> /\ ma.text = None
        /\ md \in SegParts /\ SegSays[md] = <<>> /\ SegMarks[md] = <<xd>> /\ md.text = None
        /\ mf \in SegParts /\ SegSays[mf] = <<>> /\ SegMarks[mf] = <<xf>> /\ mf.text = None
        /\ mg \in SegParts /\ SegSays[mg] = <<>> /\ SegMarks[mg] = <<xg>> /\ mg.text = None
    BY <2>3, MarkSeg
  <2>5. /\ mb \in SegParts /\ SegSays[mb] = k /\ SegMarks[mb] = <<>> /\ mb.text = k
        /\ mc \in SegParts /\ SegSays[mc] = s /\ SegMarks[mc] = <<>> /\ mc.text = s
        /\ me \in SegParts /\ SegSays[me] = t /\ SegMarks[me] = <<>> /\ me.text = t
    BY <1>1, TextSeg
  <2> HIDE DEF ma, mb, mc, md, me, mf, mg, xa, xd, xf, xg, t, s, k
  <2>14. /\ ma \in SegParts /\ mb \in SegParts /\ mc \in SegParts /\ md \in SegParts
         /\ me \in SegParts /\ mf \in SegParts /\ mg \in SegParts
    BY <2>4, <2>5
  <2>15. PromptIs(q, ma, mb, mc, md, me, mf, mg)
    BY <2>14, PromptSays
  <2>0. /\ q \in Seq(SegParts)
        /\ Said(q) = SegSays[ma] \o (SegSays[mb] \o (SegSays[mc] \o (SegSays[md]
                          \o (SegSays[me] \o (SegSays[mf] \o SegSays[mg])))))
        /\ Marks(q) = SegMarks[ma] \o (SegMarks[mb] \o (SegMarks[mc] \o (SegMarks[md]
                          \o (SegMarks[me] \o (SegMarks[mf] \o SegMarks[mg])))))
    BY <2>15, Zenon DEF PromptIs
  <2>6. q \in Seq(SegParts)
    BY <2>0
  <2>7. Said(q) = <<>> \o (k \o (s \o (<<>> \o (t \o (<<>> \o <<>>)))))
    BY <2>0, <2>4, <2>5, Zenon
  <2>8. Marks(q) = <<xa>> \o (<<>> \o (<<>> \o (<<xd>> \o (<<>> \o (<<xf>> \o <<xg>>)))))
    BY <2>0, <2>4, <2>5, Zenon
  <2>9. Said(q) = Stripped
    <3>1. <<>> \o <<>> = <<>>
      OBVIOUS
    <3>2. t \o <<>> = t /\ <<>> \o t = t
      BY <1>2, ConcatEmptySeq
    <3>3. s \o t \in Seq(Bytes) /\ k \o (s \o t) \in Seq(Bytes)
      BY <1>2, ConcatProperties
    <3>4. <<>> \o (k \o (s \o t)) = k \o (s \o t)
      BY <3>3, ConcatEmptySeq
    <3>5. k \o (s \o t) = (k \o s) \o t
      <4>1. Cat(Cat(k, s), t) = Cat(k, Cat(s, t))
        BY <1>2, CatAssociative
      <4> QED
        BY <4>1, Zenon DEF Cat
    <3> QED
      BY <1>5, <2>7, <3>1, <3>2, <3>4, <3>5, Zenon
  <2>10. Marks(q) = <<xa, xd, xf, xg>>
    <3>0. xa \in Nat /\ xd \in Nat /\ xf \in Nat /\ xg \in Nat
      BY <2>3, ControlHasId DEF xa, xd, xf, xg
    <3>1. ASSUME NEW y \in Seq(Nat), y # <<>>
          PROVE  y = <<Head(y)>> \o Tail(y)
      BY <3>1, HeadTailProperties
    <3>2. /\ <<xf, xg>> \in Seq(Nat) /\ <<xf, xg>> # <<>> /\ Head(<<xf, xg>>) = xf /\ Tail(<<xf, xg>>) = <<xg>>
      BY <3>0
    <3>3. /\ <<xd, xf, xg>> \in Seq(Nat) /\ <<xd, xf, xg>> # <<>> /\ Head(<<xd, xf, xg>>) = xd
          /\ Tail(<<xd, xf, xg>>) = <<xf, xg>>
      BY <3>0
    <3>4. /\ <<xa, xd, xf, xg>> \in Seq(Nat) /\ <<xa, xd, xf, xg>> # <<>> /\ Head(<<xa, xd, xf, xg>>) = xa
          /\ Tail(<<xa, xd, xf, xg>>) = <<xd, xf, xg>>
      BY <3>0
    <3>5. <<xf>> \o <<xg>> = <<xf, xg>>
      BY <3>1, <3>2, Zenon
    <3>6. <<xd>> \o <<xf, xg>> = <<xd, xf, xg>>
      BY <3>1, <3>3, Zenon
    <3>7. <<xa>> \o <<xd, xf, xg>> = <<xa, xd, xf, xg>>
      BY <3>1, <3>4, Zenon
    <3>8. <<>> \o <<xf, xg>> = <<xf, xg>>
      OBVIOUS
    <3>9. <<>> \o <<xd, xf, xg>> = <<xd, xf, xg>>
      OBVIOUS
    <3> QED
      BY <2>8, <3>5, <3>6, <3>7, <3>8, <3>9, Zenon
  <2> HIDE DEF q
  <2>13. (OkControls => q \in Seq(OkSegs)) /\ (OkDecode => q \in Seq(PlainSegs))
    <3>1. (OkControls => \A g \in {ma, mb, mc, md, me, mf, mg} : g \in OkSegs)
      BY <1>1, <1>3, <2>4, <2>5 DEF OkSegs
    <3>2. (OkDecode => \A g \in {ma, mb, mc, md, me, mf, mg} : g \in PlainSegs)
      BY <1>1, <1>4, <2>4, <2>5 DEF PlainSegs
    <3> QED
      BY <3>1, <3>2 DEF q, Prompt
  <2> QED
    BY <2>1, <2>2, <2>6, <2>9, <2>10, <2>13
<1> QED
  BY <1>6, <1>7

-----------------------------------------------------------------------------
(* What is encoded and what is left is the input.                          *)
Decoded == Spread(TokenBytes, out)
Marked == Spread(TokenMarks, out)

\* What is left of the text being cut, and of the segments after it.
Left == Slice(Head(todo).text, cut, Len(Head(todo).text) + 1) \o Said(Tail(todo))

\* The segments and the tokens.
Encoding ==
    /\ todo \in Seq(SegParts) /\ out \in Seq(DOMAIN Vocab)
    /\ phase = "done" => todo = <<>>
    /\ phase = "bpe" => AllSymbols(sym)

\* No text left is taken for what it is not.
LookedUp ==
    /\ OkControls => todo \in Seq(OkSegs)
    /\ OkDecode => todo \in Seq(PlainSegs)

\* The scan has split what is before it.
Scanned ==
    phase = "scan" =>
        /\ input.kind = "rendered" /\ out = <<>>
        /\ LastEnds[pos - 1] = from
        /\ from < pos => SpecialAt(from) = None
        /\ Said(todo) \o Slice(input.text, from, pos) = Flat(Slice(Kept, 1, pos))
        /\ Marks(todo) = Flat(Slice(Started, 1, pos))

\* The control tokens so far and those left are the ones asked for.
MarksKept == OkControls /\ phase # "scan" => Marked \o Marks(todo) = Template

\* What the tokens so far decode to and what is left are what was said; the characters of
\* a piece's symbols are those of its bytes, whatever was merged.
SaidKept ==
    OkDecode =>
        /\ phase \in {"segment", "done"} => Decoded \o Said(todo) = Stripped
        /\ phase = "pieces" => Decoded \o Left = Stripped
        /\ phase = "bpe" => /\ AllKnown(sym)
                            /\ \E p \in Seq(Bytes) : Flat(sym) = Codes(p) /\ Decoded \o (p \o Left) = Stripped

\* The invariant of the encoders.
EncodeInv == Encoding /\ LookedUp /\ Scanned /\ MarksKept /\ SaidKept

\* What is promised is fixed by the input.
LEMMA PromiseFixed ==
    ASSUME input' = input
    PROVE  /\ Stripped' = Stripped /\ Template' = Template /\ LastEnds' = LastEnds
           /\ Kept' = Kept /\ Started' = Started /\ \A p : SpecialAt(p)' = SpecialAt(p)
           /\ OkControls' = OkControls /\ OkDecode' = OkDecode
<1>1. /\ \A p : SpecialAt(p)' = SpecialAt(p)
      /\ LastEnds' = LastEnds /\ Stripped' = Stripped /\ Template' = Template
  BY InputFixed
<1>2. Kept' = Kept
  BY <1>1 DEF Kept
<1>3. Started' = Started
  BY <1>1 DEF Started, SpecialAt
<1>4. OkControls' = OkControls
  BY DEF OkControls
<1>5. OkDecode' = OkDecode
  BY <1>1 DEF OkDecode
<1> QED
  BY <1>1, <1>2, <1>3, <1>4, <1>5

\* Nothing decodes to nothing.
LEMMA NothingDecodes ==
    /\ \A s \in Seq(Nat) : Spread(TokenBytes, <<>>) \o s = s /\ Spread(TokenMarks, <<>>) \o s = s
    /\ <<>> \in Seq(DOMAIN Vocab)
<1>1. Spread(TokenBytes, <<>>) = <<>> /\ Spread(TokenMarks, <<>>) = <<>>
  BY SpreadNil
<1>2. \A s \in Seq(Nat) : <<>> \o s = s
  BY ConcatEmptySeq
<1> QED
  BY <1>1, <1>2

\* Bytes are numbers.
LEMMA BytesAreNat == \A s \in Seq(Bytes) : s \in Seq(Nat)
<1>1. Bytes \subseteq Nat
  BY DEF Bytes
<1> QED
  BY <1>1, SeqMonotonic

\* At first nothing is encoded, and nothing is scanned.
LEMMA EncodeInit == Init => EncodeInv
<1> SUFFICES ASSUME Init PROVE EncodeInv
  OBVIOUS
<1>1. /\ input \in Inputs /\ pos = 1 /\ from = 1 /\ out = <<>>
      /\ \/ input.kind = "rendered" /\ phase = "scan" /\ todo = <<>>
         \/ input.kind # "rendered" /\ phase = "segment" /\ todo = Segments(input)
  BY DEF Init
<1>2. CASE input.kind = "rendered" /\ phase = "scan" /\ todo = <<>>
  <2>1. Encoding /\ LookedUp
    BY <1>1, <1>2 DEF Encoding, LookedUp
  <2>2. MarksKept /\ SaidKept
    BY <1>2 DEF MarksKept, SaidKept
  <2>3. Slice(input.text, 1, 1) = <<>> /\ Slice(Kept, 1, 1) = <<>> /\ Slice(Started, 1, 1) = <<>>
    BY SubSeqEmpty DEF Slice
  <2>4. Said(<<>>) = <<>> /\ Marks(<<>>) = <<>> /\ Flat(<<>>) = <<>> /\ <<>> \o <<>> = <<>>
    BY SaidIs, FlatNil
  <2>5. LastEnds[1 - 1] = 1
    BY <1>1, LastEndsIs
  <2>6. Scanned
    <3>1. Said(todo) \o Slice(input.text, from, pos) = Flat(Slice(Kept, 1, pos))
      BY <1>1, <1>2, <2>3, <2>4, Zenon
    <3>2. Marks(todo) = Flat(Slice(Started, 1, pos))
      BY <1>1, <1>2, <2>3, <2>4, Zenon
    <3>3. ~(1 < 1)
      OBVIOUS
    <3> QED
      BY <1>1, <1>2, <2>5, <3>1, <3>2, <3>3 DEF Scanned
  <2> QED
    BY <2>1, <2>2, <2>6 DEF EncodeInv
<1>3. CASE input.kind # "rendered" /\ phase = "segment" /\ todo = Segments(input)
  <2>1. /\ todo \in Seq(SegParts) /\ Said(todo) = Stripped /\ Marks(todo) = Template
        /\ OkControls => todo \in Seq(OkSegs)
        /\ OkDecode => todo \in Seq(PlainSegs)
    BY <1>1, <1>3, SegmentsSay
  <2>2. Said(todo) \in Seq(Nat) /\ Marks(todo) \in Seq(Nat)
    BY <2>1, SaidIs, BytesAreNat
  <2>3. Decoded \o Said(todo) = Said(todo) /\ Marked \o Marks(todo) = Marks(todo) /\ out \in Seq(DOMAIN Vocab)
    BY <1>1, <2>2, NothingDecodes DEF Decoded, Marked
  <2>4. Encoding /\ LookedUp
    BY <1>3, <2>1, <2>3 DEF Encoding, LookedUp
  <2>5. Scanned
    BY <1>3 DEF Scanned
  <2>6. MarksKept /\ SaidKept
    BY <1>3, <2>1, <2>3 DEF MarksKept, SaidKept
  <2> QED
    BY <2>4, <2>5, <2>6 DEF EncodeInv
<1> QED
  BY <1>1, <1>2, <1>3

\* Two slices that meet.
LEMMA SliceJoin ==
    ASSUME NEW S, NEW s \in Seq(S), NEW a, NEW b, NEW c,
           Cuts(a, b, Len(s)), Cuts(b, c, Len(s))
    PROVE  /\ Slice(s, a, b) \o Slice(s, b, c) = Slice(s, a, c)
           /\ Slice(s, a, b) \in Seq(S) /\ Slice(s, b, c) \in Seq(S) /\ Slice(s, b, b) = <<>>
<1> DEFINE i == b - 1
           j == c - 1
<1>1. Len(s) \in Nat /\ \A h \in 1..Len(s) : s[h] \in S
  OBVIOUS
<1>0. a \in 1..(Len(s) + 1) /\ b \in a..(Len(s) + 1) /\ c \in b..(Len(s) + 1)
  BY DEF Cuts
<1>2. i \in (a - 1)..Len(s) /\ j \in i..Len(s) /\ i + 1 = b
  BY <1>0, <1>1
<1>3. Slice(s, a, b) = SubSeq(s, a, i) /\ Slice(s, b, c) = SubSeq(s, i + 1, j) /\ Slice(s, a, c) = SubSeq(s, a, j)
  BY <1>2 DEF Slice
<1>4. Slice(s, b, b) = <<>>
  BY <1>0, <1>1, SubSeqEmpty DEF Slice
<1>5. Slice(s, a, b) \in Seq(S)
  BY <1>0, <1>1, SubSeqProperties DEF Slice
<1>6. Slice(s, b, c) \in Seq(S)
  BY <1>0, <1>1, SubSeqProperties DEF Slice
<1> HIDE DEF i, j
<1>7. SubSeq(s, a, i) \o SubSeq(s, i + 1, j) = SubSeq(s, a, j)
  BY <1>0, <1>2, ConcatAdjacentSubSeq
<1> QED
  BY <1>3, <1>4, <1>5, <1>6, <1>7

\* Two segments.
LEMMA PairSays ==
    ASSUME NEW g \in SegParts, NEW h \in SegParts
    PROVE  /\ <<g, h>> \in Seq(SegParts)
           /\ Said(<<g, h>>) = SegSays[g] \o SegSays[h]
           /\ Marks(<<g, h>>) = SegMarks[g] \o SegMarks[h]
<1> DEFINE q == <<g, h>>
           r == <<h>>
<1>1. q \in Seq(SegParts) /\ q # <<>> /\ Head(q) = g /\ Tail(q) = r
  OBVIOUS
<1>2. Said(r) = SegSays[h] /\ Marks(r) = SegMarks[h]
  BY SaidIs
<1> HIDE DEF q, r
<1>3. Said(q) = SegSays[g] \o Said(r) /\ Marks(q) = SegMarks[g] \o Marks(r)
  BY <1>1, SaidFirst
<1> QED
  BY <1>1, <1>2, <1>3 DEF q

\* Where the scan stands.
LEMMA ScanAt ==
    ASSUME PiecesInv, EncodeInv, phase = "scan"
    PROVE  /\ input \in Inputs /\ Utf8Text(input.text) /\ input.text \in Seq(Bytes)
           /\ Len(input.text) \in Nat /\ pos \in Nat /\ from \in Nat
           /\ pos \in 1..(Len(input.text) + 1) /\ from \in 1..pos
           /\ pos \in Ends(input.text) /\ from \in Ends(input.text) /\ from <= pos
           /\ Kept \in Seq(Seq(Bytes)) /\ Len(Kept) = Len(input.text)
           /\ Started \in Seq(Seq(Nat)) /\ Len(Started) = Len(input.text)
<1> DEFINE n == Len(input.text)
<1>1. input \in Inputs /\ pos \in Ends(input.text) /\ from \in Ends(input.text) /\ from <= pos
  BY DEF PiecesInv, Scanning
<1>2. Utf8Text(input.text) /\ input.text \in Seq(Bytes)
  BY <1>1, InputTexts DEF Utf8Text
<1>3. n \in Nat /\ pos \in 1..(n + 1) /\ from \in 1..(n + 1)
  BY <1>1, <1>2, EndsFacts
<1>4. pos \in Nat /\ from \in Nat /\ from \in 1..pos
  BY <1>1, <1>3
<1>5. Kept \in Seq(Seq(Bytes)) /\ Len(Kept) = n /\ Started \in Seq(Seq(Nat)) /\ Len(Started) = n
  BY <1>1, ScanLists
<1> QED
  BY <1>1, <1>2, <1>3, <1>4, <1>5

\* A character that starts no control token stays in the open span.
LEMMA ScanCharKeeps ==
    ASSUME PiecesInv, EncodeInv, ScanChar
    PROVE  EncodeInv'
<1> DEFINE s == input.text
           n == Len(s)
           b == NextChar(s, pos)
<1>1. /\ phase = "scan" /\ pos <= n /\ SpecialAt(pos) = None /\ pos' = b
      /\ UNCHANGED <<phase, input, from, todo, cut, pieces, sym, rank, out>>
  BY DEF ScanChar
<1>2. /\ input \in Inputs /\ Utf8Text(s) /\ s \in Seq(Bytes) /\ n \in Nat /\ pos \in Nat /\ from \in Nat
      /\ pos \in 1..(n + 1) /\ from \in 1..pos /\ pos \in Ends(s) /\ from \in Ends(s) /\ from <= pos
      /\ Kept \in Seq(Seq(Bytes)) /\ Len(Kept) = n /\ Started \in Seq(Seq(Nat)) /\ Len(Started) = n
  BY <1>1, ScanAt
<1>3. /\ input.kind = "rendered" /\ out = <<>> /\ LastEnds[pos - 1] = from
      /\ from < pos => SpecialAt(from) = None
      /\ Said(todo) \o Slice(s, from, pos) = Flat(Slice(Kept, 1, pos))
      /\ Marks(todo) = Flat(Slice(Started, 1, pos))
  BY <1>1 DEF EncodeInv, Scanned
<1>4. pos \in 1..n
  BY <1>1, <1>2
<1>5. b \in Ends(s) /\ b > pos /\ \A i \in Ends(s) : i > pos => b <= i
  BY <1>2, <1>4, NextCharFacts
<1>6. b \in 1..(n + 1) /\ b \in pos..(n + 1) /\ b \in Nat
  <2>1. b \in 1..(n + 1)
    BY <1>2, <1>5, EndsFacts
  <2> QED
    BY <1>2, <1>5, <2>1
<1>7. ASSUME NEW p \in pos..(b - 1) PROVE SpecialAt(p) = None
  <2>1. p \in 1..n /\ p \in Nat
    BY <1>2, <1>6
  <2>2. CASE p = pos
    BY <1>1, <2>2
  <2>3. CASE p # pos
    <3>1. p > pos /\ ~(b <= p)
      BY <1>2, <1>6, <2>3
    <3>2. p \notin Ends(s)
      BY <1>5, <3>1
    <3>3. ~Lead(s[p])
      BY <1>2, <2>1, <3>2, EndsFacts
    <3> QED
      BY <1>2, <2>1, <3>3, SpecialStartsChar
  <2> QED
    BY <2>2, <2>3
<1>8. \A p \in (pos - 1)..(b - 1) : LastEnds[p] = from
  <2> DEFINE a == pos - 1
  <2>1. a \in 0..n /\ b \in (a + 1)..(n + 1) /\ a + 1 = pos
    BY <1>4, <1>5, <1>6, <1>2
  <2>2. \A p \in (a + 1)..(b - 1) : SpecialAt(p) = None
    BY <1>7, <2>1
  <2>3. LastEnds[a] = from
    BY <1>3
  <2> HIDE DEF a, b
  <2>4. \A p \in a..(b - 1) : LastEnds[p] = LastEnds[a]
    BY <1>2, <2>1, <2>2, EndsStay
  <2> QED
    BY <2>3, <2>4 DEF a
<1>9. Quiet(pos, b)
  <2>1. ASSUME NEW p \in pos..(b - 1) PROVE LastEnds[p] <= p
    <3>1. p \in (pos - 1)..(b - 1) /\ from <= p
      BY <1>2, <1>6
    <3> QED
      BY <1>8, <3>1
  <2> QED
    BY <1>7, <2>1 DEF Quiet
<1> HIDE DEF b
<1>10. /\ Flat(Slice(Kept, pos, b)) = Slice(s, pos, b)
       /\ Flat(Slice(Started, pos, b)) = <<>>
  BY <1>2, <1>6, <1>9, QuietPart
<1>11. Said(todo) \o Slice(s, from, b) = Flat(Slice(Kept, 1, b))
  <2> DEFINE x == Said(todo)
             y == Slice(s, from, pos)
             z == Slice(s, pos, b)
  <2>1. x \in Seq(Bytes)
    BY SaidIs DEF EncodeInv, Encoding
  <2>2. y \o z = Slice(s, from, b) /\ y \in Seq(Bytes) /\ z \in Seq(Bytes)
    <3>1. Cuts(from, pos, Len(s)) /\ Cuts(pos, b, Len(s))
      BY <1>2, <1>6 DEF Cuts
    <3>2. s \in Seq(Bytes)
      BY <1>2
    <3> HIDE DEF s
    <3> QED
      BY <3>1, <3>2, SliceJoin
  <2>3. Flat(Slice(Kept, 1, b)) = Flat(Slice(Kept, 1, pos)) \o Flat(Slice(Kept, pos, b))
    <3>1. Cuts(pos, b, Len(Kept))
      BY <1>2, <1>6 DEF Cuts
    <3>2. Kept \in Seq(Seq(Bytes))
      BY <1>2
    <3> QED
      BY <3>1, <3>2, FlatUpTo
  <2>4. Flat(Slice(Kept, 1, pos)) = x \o y /\ Flat(Slice(Kept, pos, b)) = z
    BY <1>3, <1>10
  <2> HIDE DEF x, y, z
  <2>5. (x \o y) \o z = x \o (y \o z)
    <3>1. y \in Seq(Bytes) /\ z \in Seq(Bytes)
      BY <2>2
    <3> QED
      <4>1. Cat(Cat(x, y), z) = Cat(x, Cat(y, z))
        BY <2>1, <3>1, CatAssociative
      <4> QED
        BY <4>1, Zenon DEF Cat
  <2>6. x \o Slice(s, from, b) = Flat(Slice(Kept, 1, b))
    BY <2>2, <2>3, <2>4, <2>5, Zenon
  <2> QED
    BY <2>6 DEF x
<1>12. Marks(todo) = Flat(Slice(Started, 1, b))
  <2>1. Cuts(pos, b, Len(Started))
    BY <1>2, <1>6 DEF Cuts
  <2>2. /\ Flat(Slice(Started, 1, b)) = Flat(Slice(Started, 1, pos)) \o Flat(Slice(Started, pos, b))
        /\ Flat(Slice(Started, 1, pos)) \in Seq(Nat)
    <3>1. Started \in Seq(Seq(Nat))
      BY <1>2
    <3> QED
      BY <2>1, <3>1, FlatUpTo
  <2> DEFINE x == Flat(Slice(Started, 1, pos))
  <2> HIDE DEF x
  <2>3. x \o <<>> = x
    BY <2>2, ConcatEmptySeq DEF x
  <2> QED
    BY <1>3, <1>10, <2>2, <2>3 DEF x
<1>13. LastEnds[b - 1] = from
  <2>1. b - 1 \in (pos - 1)..(b - 1)
    BY <1>2, <1>5, <1>6
  <2> QED
    BY <1>8, <2>1
<1>14. from < b => SpecialAt(from) = None
  <2>1. CASE from = pos
    BY <1>1, <2>1
  <2>2. CASE from # pos
    <3>1. from < pos
      BY <1>2, <2>2
    <3> QED
      BY <1>3, <3>1
  <2> QED
    BY <2>1, <2>2
<1>15. /\ Kept' = Kept /\ Started' = Started /\ LastEnds' = LastEnds /\ SpecialAt(from)' = SpecialAt(from)
       /\ OkControls' = OkControls /\ OkDecode' = OkDecode /\ s' = s
  <2>1. SpecialAt(from)' = SpecialAt(from)
    BY <1>1 DEF SpecialAt
  <2> QED
    BY <1>1, <2>1, PromiseFixed
<1>16. Scanned'
  BY <1>1, <1>3, <1>11, <1>12, <1>13, <1>14, <1>15 DEF Scanned
<1>17. Encoding' /\ LookedUp'
  BY <1>1, <1>15 DEF EncodeInv, Encoding, LookedUp
<1>18. MarksKept' /\ SaidKept'
  BY <1>1 DEF MarksKept, SaidKept
<1> QED
  BY <1>16, <1>17, <1>18 DEF EncodeInv

\* The open span is a segment that is looked up as it is.
LEMMA SpanIsSegment ==
    ASSUME PiecesInv, EncodeInv, phase = "scan"
    PROVE  /\ Span \in SegParts /\ Span \in OkSegs /\ (OkDecode => Span \in PlainSegs)
           /\ SegSays[Span] = Slice(input.text, from, pos) /\ SegMarks[Span] = <<>>
<1> DEFINE t == Slice(input.text, from, pos)
<1>1. /\ input \in Inputs /\ pos \in Ends(input.text) /\ from \in Ends(input.text) /\ from <= pos
  BY ScanAt
<1>2. from < pos => SpecialAt(from) = None
  BY DEF EncodeInv, Scanned
<1>3. Utf8Text(t) /\ NoControl(t) /\ (~Mistaken(input.text) => PlainIfToken(t))
  BY <1>1, <1>2, SpanIsPlain
<1>4. Span = Says(t)
  BY DEF Span, Slice
<1> HIDE DEF t
<1>5. Says(t) \in SegParts /\ SegSays[Says(t)] = t /\ SegMarks[Says(t)] = <<>> /\ Says(t).text = t
  BY <1>3, TextSeg
<1>6. Says(t) \in OkSegs /\ (OkDecode => Says(t) \in PlainSegs)
  BY <1>3, <1>5 DEF OkSegs, PlainSegs, OkDecode
<1> QED
  BY <1>4, <1>5, <1>6 DEF t

\* A control token ends the span and starts the next after it.
LEMMA ScanMarkKeeps ==
    ASSUME PiecesInv, EncodeInv, ScanSpecial
    PROVE  EncodeInv'
<1> DEFINE s == input.text
           n == Len(s)
           c == SpecialAt(pos)
           b == pos + Len(Control[c])
           q == <<Span, Mark(c)>>
           x == TokenId(Spelling(c))
<1>1. /\ phase = "scan" /\ pos <= n /\ c # None /\ todo' = todo \o q /\ pos' = b /\ from' = b
      /\ UNCHANGED <<phase, input, cut, pieces, sym, rank, out>>
  BY DEF ScanSpecial
<1>2. /\ input \in Inputs /\ Utf8Text(s) /\ s \in Seq(Bytes) /\ n \in Nat /\ pos \in Nat /\ from \in Nat
      /\ pos \in 1..(n + 1) /\ from \in 1..pos /\ pos \in Ends(s) /\ from \in Ends(s) /\ from <= pos
      /\ Kept \in Seq(Seq(Bytes)) /\ Len(Kept) = n /\ Started \in Seq(Seq(Nat)) /\ Len(Started) = n
  BY <1>1, ScanAt
<1>3. /\ input.kind = "rendered" /\ out = <<>> /\ LastEnds[pos - 1] = from
      /\ Said(todo) \o Slice(s, from, pos) = Flat(Slice(Kept, 1, pos))
      /\ Marks(todo) = Flat(Slice(Started, 1, pos))
  BY <1>1 DEF EncodeInv, Scanned
<1>4. pos \in 1..n
  BY <1>1, <1>2
<1>5. c \in DOMAIN Control /\ IsPrefix(Control[c], SubSeq(s, pos, Len(s)))
  BY <1>1, SpecialIsControl
<1>6. b \in Ends(s) /\ b \in 1..(n + 1) /\ b > pos /\ b \in Nat
  <2>1. Utf8Text(Control[c]) /\ Control[c] # <<>> /\ Len(Control[c]) \in Nat /\ Len(Control[c]) > 0
    BY <1>5, ControlText
  <2>2. b \in Ends(s)
    BY <1>2, <1>5, <2>1, AfterSpelling
  <2>3. b \in 1..(n + 1)
    BY <1>2, <2>2, EndsFacts
  <2> QED
    BY <1>2, <2>1, <2>2, <2>3
<1>7. /\ Flat(Slice(Kept, pos, b)) = <<>> /\ Flat(Slice(Started, pos, b)) = <<x>> /\ LastEnds[b - 1] = b
  BY <1>1, <1>2, <1>3, <1>4, <1>6, SpecialPart
<1>8. /\ Span \in SegParts /\ Span \in OkSegs /\ (OkDecode => Span \in PlainSegs)
      /\ SegSays[Span] = Slice(s, from, pos) /\ SegMarks[Span] = <<>>
  BY <1>1, SpanIsSegment
<1>9. Mark(c) \in SegParts /\ SegSays[Mark(c)] = <<>> /\ Mark(c).text = None /\ SegMarks[Mark(c)] = <<x>>
  BY <1>5, MarkSeg
<1>10. x \in Nat
  BY <1>5, ControlHasId
<1>11. Mark(c) \in OkSegs /\ Mark(c) \in PlainSegs
  BY <1>9 DEF OkSegs, PlainSegs
<1>12. /\ q \in Seq(SegParts) /\ Said(q) = SegSays[Span] \o SegSays[Mark(c)]
       /\ Marks(q) = SegMarks[Span] \o SegMarks[Mark(c)]
  BY <1>8, <1>9, PairSays
<1>13. q \in Seq(OkSegs) /\ (OkDecode => q \in Seq(PlainSegs))
  <2> DEFINE g == Span
             h == Mark(c)
  <2>1. g \in OkSegs /\ h \in OkSegs /\ (OkDecode => g \in PlainSegs) /\ h \in PlainSegs
    BY <1>8, <1>11
  <2> HIDE DEF g, h
  <2>2. <<g, h>> \in Seq(OkSegs) /\ (OkDecode => <<g, h>> \in Seq(PlainSegs))
    BY <2>1
  <2> QED
    BY <2>2 DEF g, h
<1> HIDE DEF b, c, x, q
<1>14. /\ todo \in Seq(SegParts) /\ (OkControls => todo \in Seq(OkSegs)) /\ (OkDecode => todo \in Seq(PlainSegs))
       /\ out \in Seq(DOMAIN Vocab)
  BY DEF EncodeInv, Encoding, LookedUp
<1>15. /\ todo' \in Seq(SegParts) /\ (OkControls => todo' \in Seq(OkSegs))
       /\ (OkDecode => todo' \in Seq(PlainSegs))
  <2>1. todo \o q \in Seq(SegParts)
    BY <1>12, <1>14, ConcatProperties
  <2>2. OkControls => todo \o q \in Seq(OkSegs)
    BY <1>13, <1>14, ConcatProperties
  <2>3. OkDecode => todo \o q \in Seq(PlainSegs)
    BY <1>13, <1>14, ConcatProperties
  <2> QED
    BY <1>1, <2>1, <2>2, <2>3
<1>16. Said(todo') = Said(todo) \o Said(q) /\ Marks(todo') = Marks(todo) \o Marks(q)
  <2>1. Said(todo \o q) = Said(todo) \o Said(q) /\ Marks(todo \o q) = Marks(todo) \o Marks(q)
    BY <1>12, <1>14, SaidIs
  <2> QED
    BY <1>1, <2>1
<1>17. Slice(s, from, pos) \in Seq(Bytes) /\ Slice(s, b, b) = <<>>
  <2>1. Cuts(from, pos, Len(s)) /\ Cuts(pos, b, Len(s)) /\ Cuts(b, b, Len(s))
    BY <1>2, <1>6 DEF Cuts
  <2>2. s \in Seq(Bytes)
    BY <1>2
  <2>3. Slice(s, b, b) = <<>>
    BY <1>6, SubSeqEmpty DEF Slice
  <2> HIDE DEF s
  <2>4. Slice(s, from, pos) \in Seq(Bytes)
    BY <2>1, <2>2, SliceJoin
  <2> QED
    BY <2>3, <2>4
<1>18. Said(todo') \o Slice(s, b, b) = Flat(Slice(Kept, 1, b))
  <2> DEFINE u == Said(todo)
             y == Slice(s, from, pos)
             w == Flat(Slice(Kept, 1, pos))
  <2>1. u \in Seq(Bytes) /\ y \in Seq(Bytes) /\ w = u \o y
    BY <1>3, <1>14, <1>17, SaidIs
  <2>2. Flat(Slice(Kept, 1, b)) = w \o <<>> /\ w \in Seq(Bytes)
    <3>1. Cuts(pos, b, Len(Kept))
      BY <1>2, <1>6 DEF Cuts
    <3>2. Kept \in Seq(Seq(Bytes))
      BY <1>2
    <3>3. Flat(Slice(Kept, 1, b)) = w \o Flat(Slice(Kept, pos, b)) /\ w \in Seq(Bytes)
      BY <3>1, <3>2, FlatUpTo
    <3> QED
      BY <1>7, <3>3
  <2>3. Said(q) = y \o <<>>
    BY <1>8, <1>9, <1>12
  <2> HIDE DEF u, y, w
  <2>4. w \o <<>> = w /\ y \o <<>> = y
    BY <2>1, <2>2, ConcatEmptySeq
  <2>5. Said(todo') = w
    BY <1>16, <2>1, <2>3, <2>4, Zenon DEF u
  <2> QED
    BY <1>17, <2>2, <2>4, <2>5, Zenon
<1>19. Marks(todo') = Flat(Slice(Started, 1, b))
  <2>1. Cuts(pos, b, Len(Started))
    BY <1>2, <1>6 DEF Cuts
  <2>2. Started \in Seq(Seq(Nat))
    BY <1>2
  <2>3. Flat(Slice(Started, 1, b)) = Flat(Slice(Started, 1, pos)) \o Flat(Slice(Started, pos, b))
    BY <2>1, <2>2, FlatUpTo
  <2>4. <<>> \o <<x>> = <<x>>
    OBVIOUS
  <2>5. Marks(q) = <<x>>
    BY <1>8, <1>9, <1>12, <2>4, Zenon
  <2> QED
    BY <1>3, <1>7, <1>16, <2>3, <2>5, Zenon
<1>20. ~(b < b)
  BY <1>6
<1>21. /\ Kept' = Kept /\ Started' = Started /\ LastEnds' = LastEnds
       /\ OkControls' = OkControls /\ OkDecode' = OkDecode /\ s' = s
  BY <1>1, PromiseFixed
<1>22. Scanned'
  BY <1>1, <1>3, <1>7, <1>18, <1>19, <1>20, <1>21 DEF Scanned
<1>23. Encoding' /\ LookedUp'
  BY <1>1, <1>14, <1>15, <1>21 DEF Encoding, LookedUp
<1>24. MarksKept' /\ SaidKept'
  BY <1>1 DEF MarksKept, SaidKept
<1> QED
  BY <1>22, <1>23, <1>24 DEF EncodeInv

\* The end of the text ends the last span.
LEMMA ScanEndKeeps ==
    ASSUME PiecesInv, EncodeInv, ScanEnd
    PROVE  EncodeInv'
<1> DEFINE s == input.text
           n == Len(s)
           q == <<Span>>
<1>1. /\ phase = "scan" /\ pos > n /\ todo' = Append(todo, Span) /\ phase' = "segment"
      /\ UNCHANGED <<input, pos, from, cut, pieces, sym, rank, out>>
  BY DEF ScanEnd
<1>2. /\ input \in Inputs /\ s \in Seq(Bytes) /\ n \in Nat /\ pos \in 1..(n + 1) /\ from \in 1..pos
      /\ Kept \in Seq(Seq(Bytes)) /\ Len(Kept) = n /\ Started \in Seq(Seq(Nat)) /\ Len(Started) = n
  BY <1>1, ScanAt
<1>3. /\ input.kind = "rendered" /\ out = <<>>
      /\ Said(todo) \o Slice(s, from, pos) = Flat(Slice(Kept, 1, pos))
      /\ Marks(todo) = Flat(Slice(Started, 1, pos))
  BY <1>1 DEF EncodeInv, Scanned
<1>4. /\ Span \in SegParts /\ Span \in OkSegs /\ (OkDecode => Span \in PlainSegs)
      /\ SegSays[Span] = Slice(s, from, pos) /\ SegMarks[Span] = <<>>
  BY <1>1, SpanIsSegment
<1>5. /\ todo \in Seq(SegParts) /\ (OkControls => todo \in Seq(OkSegs)) /\ (OkDecode => todo \in Seq(PlainSegs))
       /\ out \in Seq(DOMAIN Vocab)
  BY DEF EncodeInv, Encoding, LookedUp
<1>6. Stripped = Flat(Kept) /\ Template = Flat(Started)
  BY <1>2, <1>3, ScanLists
<1>7. Slice(Kept, 1, pos) = Kept /\ Slice(Started, 1, pos) = Started
  <2>1. pos - 1 = n
    BY <1>1, <1>2
  <2>2. SubSeq(Kept, 1, Len(Kept)) = Kept
    BY <1>2, SubSeqFull
  <2>3. SubSeq(Started, 1, Len(Started)) = Started
    BY <1>2, SubSeqFull
  <2> QED
    BY <1>2, <2>1, <2>2, <2>3 DEF Slice
<1>8. q \in Seq(SegParts) /\ Said(q) = Slice(s, from, pos) /\ Marks(q) = <<>>
  BY <1>4, SaidIs
<1>9. todo' = todo \o q
  <2> DEFINE g == Span
  <2>1. g \in SegParts
    BY <1>4
  <2> HIDE DEF g
  <2>2. Append(todo, g) = todo \o <<g>>
    BY <1>5, <2>1, AppendIsConcat
  <2> QED
    BY <1>1, <2>2 DEF g
<1>10. /\ todo' \in Seq(SegParts) /\ (OkControls => todo' \in Seq(OkSegs))
       /\ (OkDecode => todo' \in Seq(PlainSegs))
  <2> DEFINE g == Span
  <2>1. g \in SegParts /\ g \in OkSegs /\ (OkDecode => g \in PlainSegs) /\ todo' = Append(todo, g)
    BY <1>1, <1>4
  <2> HIDE DEF g
  <2> QED
    BY <1>5, <2>1
<1> HIDE DEF q
<1>11. Said(todo') = Said(todo) \o Said(q) /\ Marks(todo') = Marks(todo) \o Marks(q)
  <2>1. Said(todo \o q) = Said(todo) \o Said(q) /\ Marks(todo \o q) = Marks(todo) \o Marks(q)
    BY <1>5, <1>8, SaidIs
  <2> QED
    BY <1>9, <2>1
<1>12. Said(todo') = Stripped
  BY <1>3, <1>6, <1>7, <1>8, <1>11, Zenon
<1>13. Marks(todo') = Template
  <2>1. Marks(todo) \o <<>> = Marks(todo)
    <3> DEFINE m == Marks(todo)
    <3>1. m \in Seq(Nat)
      BY <1>5, SaidIs
    <3> HIDE DEF m
    <3>2. m \o <<>> = m
      BY <3>1, ConcatEmptySeq
    <3> QED
      BY <3>2 DEF m
  <2> QED
    BY <1>3, <1>6, <1>7, <1>8, <1>11, <2>1, Zenon
<1>14. Said(todo') \in Seq(Nat) /\ Marks(todo') \in Seq(Nat)
  BY <1>10, SaidIs, BytesAreNat
<1>15. Decoded' \o Said(todo') = Said(todo') /\ Marked' \o Marks(todo') = Marks(todo')
  BY <1>1, <1>3, <1>14, NothingDecodes DEF Decoded, Marked
<1>16. /\ Stripped' = Stripped /\ Template' = Template
       /\ OkControls' = OkControls /\ OkDecode' = OkDecode
  BY <1>1, PromiseFixed
<1>17. Scanned'
  BY <1>1 DEF Scanned
<1>18. Encoding' /\ LookedUp'
  BY <1>1, <1>5, <1>10, <1>16 DEF Encoding, LookedUp
<1>19. MarksKept' /\ SaidKept'
  BY <1>1, <1>12, <1>13, <1>15, <1>16 DEF MarksKept, SaidKept
<1> QED
  BY <1>17, <1>18, <1>19 DEF EncodeInv

\* The tokens so far decode to lists of numbers, and so do those added to them.
LEMMA OutGrows ==
    ASSUME out \in Seq(DOMAIN Vocab), NEW q \in Seq(DOMAIN Vocab), out' = out \o q
    PROVE  /\ out' \in Seq(DOMAIN Vocab) /\ Decoded \in Seq(Nat) /\ Marked \in Seq(Nat)
           /\ Spread(TokenBytes, q) \in Seq(Nat) /\ Spread(TokenMarks, q) \in Seq(Nat)
           /\ Decoded' = Decoded \o Spread(TokenBytes, q)
           /\ Marked' = Marked \o Spread(TokenMarks, q)
<1>1. out \o q \in Seq(DOMAIN Vocab)
  BY ConcatProperties
<1>2. \A s \in Seq(DOMAIN Vocab) : Spread(TokenBytes, s) \in Seq(Nat) /\ Spread(TokenMarks, s) \in Seq(Nat)
  BY TokenLists, SpreadType
<1>3. Spread(TokenBytes, out \o q) = Spread(TokenBytes, out) \o Spread(TokenBytes, q)
  BY TokenLists, SpreadConcat
<1>4. Spread(TokenMarks, out \o q) = Spread(TokenMarks, out) \o Spread(TokenMarks, q)
  BY TokenLists, SpreadConcat
<1>5. Decoded' = Spread(TokenBytes, out \o q) /\ Marked' = Spread(TokenMarks, out \o q)
  BY DEF Decoded, Marked
<1> QED
  BY <1>1, <1>2, <1>3, <1>4, <1>5 DEF Decoded, Marked

\* The segments after the first are looked up as before.
LEMMA TailLookedUp ==
    ASSUME EncodeInv, todo # <<>>, todo' = Tail(todo), input' = input
    PROVE  LookedUp' /\ todo' \in Seq(SegParts)
<1>1. /\ todo \in Seq(SegParts) /\ (OkControls => todo \in Seq(OkSegs))
      /\ (OkDecode => todo \in Seq(PlainSegs))
  BY DEF EncodeInv, Encoding, LookedUp
<1>2. OkControls' = OkControls /\ OkDecode' = OkDecode
  BY PromiseFixed
<1>3. \A S : todo \in Seq(S) => Tail(todo) \in Seq(S)
  OBVIOUS
<1> QED
  BY <1>1, <1>2, <1>3 DEF LookedUp

\* A segment is done when its tokens mark and decode to what it marks and says.
LEMMA SegmentDone ==
    ASSUME EncodeInv, phase = "segment", todo # <<>>, todo' = Tail(todo), phase' = phase,
           input' = input, NEW q \in Seq(DOMAIN Vocab), out' = out \o q,
           OkControls => Spread(TokenMarks, q) = SegMarks[Head(todo)],
           OkDecode => Spread(TokenBytes, q) = SegSays[Head(todo)]
    PROVE  EncodeInv'
<1> DEFINE m == Spread(TokenMarks, q)
           d == Spread(TokenBytes, q)
           ms == Marks(Tail(todo))
           ds == Said(Tail(todo))
<1>1. /\ todo \in Seq(SegParts) /\ out \in Seq(DOMAIN Vocab)
      /\ OkControls => Marked \o Marks(todo) = Template
      /\ OkDecode => Decoded \o Said(todo) = Stripped
  BY DEF EncodeInv, Encoding, MarksKept, SaidKept
<1>2. /\ out' \in Seq(DOMAIN Vocab) /\ Decoded \in Seq(Nat) /\ Marked \in Seq(Nat)
      /\ d \in Seq(Nat) /\ m \in Seq(Nat) /\ Decoded' = Decoded \o d /\ Marked' = Marked \o m
  BY <1>1, OutGrows
<1>3. /\ Tail(todo) \in Seq(SegParts) /\ Said(todo) = SegSays[Head(todo)] \o ds
      /\ Marks(todo) = SegMarks[Head(todo)] \o ms
  BY <1>1, SaidFirst
<1>4. ds \in Seq(Nat) /\ ms \in Seq(Nat)
  BY <1>3, SaidIs, BytesAreNat
<1>5. /\ Stripped' = Stripped /\ Template' = Template
      /\ OkControls' = OkControls /\ OkDecode' = OkDecode
  BY PromiseFixed
<1>6. (OkControls => m = SegMarks[Head(todo)]) /\ (OkDecode => d = SegSays[Head(todo)])
  OBVIOUS
<1>7. Marks(todo') = ms /\ Said(todo') = ds
  OBVIOUS
<1> HIDE DEF m, d, ms, ds
<1>8. (Decoded \o d) \o ds = Decoded \o (d \o ds) /\ (Marked \o m) \o ms = Marked \o (m \o ms)
  <2>1. Cat(Cat(Decoded, d), ds) = Cat(Decoded, Cat(d, ds))
    BY <1>2, <1>4, CatAssociative
  <2>2. Cat(Cat(Marked, m), ms) = Cat(Marked, Cat(m, ms))
    BY <1>2, <1>4, CatAssociative
  <2> QED
    BY <2>1, <2>2, Zenon DEF Cat
<1>9. OkControls => Marked' \o Marks(todo') = Template
  BY <1>1, <1>2, <1>3, <1>6, <1>7, <1>8, Zenon
<1>10. OkDecode => Decoded' \o Said(todo') = Stripped
  BY <1>1, <1>2, <1>3, <1>6, <1>7, <1>8, Zenon
<1>11. LookedUp' /\ todo' \in Seq(SegParts)
  BY TailLookedUp
<1>12. Encoding' /\ Scanned'
  BY <1>2, <1>11 DEF Encoding, Scanned
<1>13. MarksKept' /\ SaidKept'
  BY <1>5, <1>9, <1>10 DEF MarksKept, SaidKept
<1> QED
  BY <1>11, <1>12, <1>13 DEF EncodeInv

\* A text that may be taken for a token is how that token is written.
LEMMA WholeText ==
    ASSUME NEW t, Utf8Text(t), NEW x, x = TokenId(Chars(t)), x # None
    PROVE  /\ <<x>> \in Seq(DOMAIN Vocab)
           /\ NoControl(t) => Spread(TokenMarks, <<x>>) = <<>>
           /\ NoControl(t) /\ PlainIfToken(t) => Spread(TokenBytes, <<x>>) = t
<1>1. x \in DOMAIN Vocab /\ Vocab[x] = Chars(t)
  BY TokenIdIs
<1>2. Spread(TokenMarks, <<x>>) = TokenMarks[x] /\ Spread(TokenBytes, <<x>>) = TokenBytes[x]
  BY <1>1, TokenLists, SpreadOne
<1>3. NoControl(t) => ~IsControl(x)
  BY ControlIs DEF NoControl
<1>4. PlainIfToken(t) => Spread(CharBytes, Chars(t)) = t
  BY PlainCharsDecode DEF PlainIfToken
<1>5. DecodedBytes(x) = Spread(CharBytes, Chars(t))
  BY <1>1, DecodedBytesIs
<1>6. NoControl(t) => TokenMarks[x] = <<>> /\ TokenBytes[x] = DecodedBytes(x)
  BY <1>1, <1>3 DEF TokenMarks, TokenBytes
<1>7. <<x>> \in Seq(DOMAIN Vocab)
  BY <1>1
<1> QED
  BY <1>2, <1>4, <1>5, <1>6, <1>7

\* A control token marks itself and says nothing.
LEMMA MarkIs ==
    ASSUME NEW x \in DOMAIN Vocab, IsControl(x)
    PROVE  <<x>> \in Seq(DOMAIN Vocab) /\ Spread(TokenMarks, <<x>>) = <<x>> /\ Spread(TokenBytes, <<x>>) = <<>>
<1>1. Spread(TokenMarks, <<x>>) = TokenMarks[x] /\ Spread(TokenBytes, <<x>>) = TokenBytes[x]
  BY TokenLists, SpreadOne
<1>2. <<x>> \in Seq(DOMAIN Vocab)
  OBVIOUS
<1> QED
  BY <1>1, <1>2 DEF TokenMarks, TokenBytes

\* When decode_tokens gives the text the control tokens are kept too.
LEMMA OkDecodeSegs ==
    ASSUME input \in Inputs, OkDecode
    PROVE  OkControls
BY DEF OkDecode, OkControls, Mistaken

\* The first segment is looked up, or will be cut.
LEMMA StartKeeps ==
    ASSUME PiecesInv, EncodeInv, StartSegment
    PROVE  EncodeInv'
<1> DEFINE g == Head(todo)
           whole == IF g.text = None THEN g.token ELSE TokenId(Chars(g.text))
<1>1. /\ phase = "segment" /\ todo # <<>> /\ UNCHANGED <<input, pos, from, sym, rank>>
      /\ \/ g.text = <<>> /\ todo' = Tail(todo) /\ UNCHANGED <<phase, cut, pieces, out>>
         \/ g.text # <<>> /\ whole # None /\ todo' = Tail(todo) /\ out' = Append(out, whole)
              /\ UNCHANGED <<phase, cut, pieces>>
         \/ g.text # <<>> /\ whole = None /\ phase' = "pieces" /\ cut' = 1 /\ UNCHANGED <<todo, out>>
  BY DEF StartSegment
<1>2. /\ todo \in Seq(SegParts) /\ out \in Seq(DOMAIN Vocab) /\ input \in Inputs
      /\ (OkControls => todo \in Seq(OkSegs)) /\ (OkDecode => todo \in Seq(PlainSegs))
  BY DEF EncodeInv, Encoding, LookedUp, PiecesInv
<1>3. g \in SegParts
  BY <1>1, <1>2, SaidFirst
<1>4. (OkControls => g \in OkSegs) /\ (OkDecode => g \in PlainSegs)
  BY <1>1, <1>2
<1>5. OkDecode => OkControls
  BY <1>2, OkDecodeSegs
<1>6. \/ /\ g.text # None /\ Utf8Text(g.text) /\ g.text \in Seq(Bytes)
         /\ SegSays[g] = g.text /\ SegMarks[g] = <<>>
      \/ /\ g.text = None /\ g.token \in DOMAIN Vocab /\ g.token # None
         /\ IsControl(g.token) /\ SegSays[g] = <<>> /\ SegMarks[g] = <<g.token>>
  BY <1>3, SegIs
<1>7. None # <<>>
  <2>1. <<>> \in Seq(Bytes) /\ None \notin Seq(Bytes)
    BY TokenizerAssumption
  <2> QED
    BY <2>1
<1>8. CASE g.text = <<>> /\ todo' = Tail(todo) /\ UNCHANGED <<phase, cut, pieces, out>>
  <2>1. SegSays[g] = <<>> /\ SegMarks[g] = <<>>
    BY <1>6, <1>7, <1>8
  <2>2. <<>> \in Seq(DOMAIN Vocab) /\ out' = out \o <<>>
    BY <1>2, <1>8, ConcatEmptySeq
  <2>3. Spread(TokenMarks, <<>>) = <<>> /\ Spread(TokenBytes, <<>>) = <<>>
    BY SpreadNil
  <2> QED
    BY <1>1, <1>8, <2>1, <2>2, <2>3, SegmentDone
<1>9. CASE g.text # <<>> /\ whole # None /\ todo' = Tail(todo) /\ out' = Append(out, whole)
              /\ UNCHANGED <<phase, cut, pieces>>
  <2>1. /\ <<whole>> \in Seq(DOMAIN Vocab)
        /\ OkControls => Spread(TokenMarks, <<whole>>) = SegMarks[g]
        /\ OkDecode => Spread(TokenBytes, <<whole>>) = SegSays[g]
    <3>1. CASE g.text = None
      <4>1. whole = g.token /\ whole \in DOMAIN Vocab /\ IsControl(whole)
            /\ SegSays[g] = <<>> /\ SegMarks[g] = <<whole>>
        BY <1>6, <3>1
      <4> HIDE DEF whole
      <4> QED
        BY <4>1, MarkIs
    <3>2. CASE g.text # None
      <4>1. /\ whole = TokenId(Chars(g.text)) /\ whole # None /\ Utf8Text(g.text)
            /\ SegSays[g] = g.text /\ SegMarks[g] = <<>>
        BY <1>6, <1>9, <3>2
      <4>2. (OkControls => NoControl(g.text)) /\ (OkDecode => NoControl(g.text) /\ PlainIfToken(g.text))
        BY <1>4, <1>5, <3>2 DEF OkSegs, PlainSegs
      <4> HIDE DEF whole, g
      <4>3. /\ <<whole>> \in Seq(DOMAIN Vocab)
            /\ NoControl(g.text) => Spread(TokenMarks, <<whole>>) = <<>>
            /\ NoControl(g.text) /\ PlainIfToken(g.text) => Spread(TokenBytes, <<whole>>) = g.text
        BY <4>1, WholeText
      <4> QED
        BY <4>1, <4>2, <4>3
    <3> QED
      BY <3>1, <3>2
  <2> HIDE DEF whole
  <2>2. out' = out \o <<whole>>
    <3>1. whole \in DOMAIN Vocab
      BY <2>1
    <3> QED
      BY <1>2, <1>9, <3>1, AppendIsConcat
  <2> QED
    BY <1>1, <1>9, <2>1, <2>2, SegmentDone
<1>10. CASE g.text # <<>> /\ whole = None /\ phase' = "pieces" /\ cut' = 1 /\ UNCHANGED <<todo, out>>
  <2>1. g.text \in Seq(Bytes) /\ SegSays[g] = g.text
    BY <1>6, <1>10
  <2>2. Slice(g.text, 1, Len(g.text) + 1) = g.text
    <3>1. (Len(g.text) + 1) - 1 = Len(g.text)
      BY <2>1
    <3> QED
      BY <2>1, <3>1, SubSeqFull DEF Slice
  <2>3. Said(todo) = g.text \o Said(Tail(todo))
    BY <1>1, <1>2, <2>1, SaidFirst
  <2>4. Left' = Said(todo)
    <3>1. Left' = Slice(g.text, 1, Len(g.text) + 1) \o Said(Tail(todo))
      BY <1>10 DEF Left
    <3> QED
      BY <2>2, <2>3, <3>1, Zenon
  <2>5. /\ Stripped' = Stripped /\ Template' = Template
        /\ OkControls' = OkControls /\ OkDecode' = OkDecode
    BY <1>1, PromiseFixed
  <2>6. Decoded' = Decoded /\ Marked' = Marked /\ Marks(todo') = Marks(todo)
    BY <1>10 DEF Decoded, Marked
  <2>7. Encoding' /\ LookedUp' /\ Scanned'
    BY <1>2, <1>10, <2>5 DEF Encoding, LookedUp, Scanned
  <2>8. /\ OkControls => Marked \o Marks(todo) = Template
        /\ OkDecode => Decoded \o Said(todo) = Stripped
    BY <1>1 DEF EncodeInv, MarksKept, SaidKept
  <2>9. MarksKept' /\ SaidKept'
    BY <1>10, <2>4, <2>5, <2>6, <2>8 DEF MarksKept, SaidKept
  <2> QED
    BY <2>7, <2>9 DEF EncodeInv
<1> QED
  BY <1>1, <1>8, <1>9, <1>10

\* What is at a place of two lists joined.
LEMMA JoinedAt ==
    ASSUME NEW S, NEW a \in Seq(S), NEW b \in Seq(S)
    PROVE  \A j \in 1..(Len(a) + Len(b)) : (a \o b)[j] = IF j <= Len(a) THEN a[j] ELSE b[j - Len(a)]
BY ConcatProperties

\* Every part of what has tokens has them.
LEMMA EncodablePart ==
    ASSUME NEW x \in Seq(Nat), NEW y \in Seq(Nat), NEW z \in Seq(Nat), NEW w, w = x \o (y \o z),
           Encodable(w)
    PROVE  Encodable(y)
<1> SUFFICES ASSUME NEW i \in DOMAIN y PROVE TokenId(<<ByteToCodepoint(y[i])>>) # None
  BY DEF Encodable
<1> DEFINE v == y \o z
           k == Len(x) + i
<1>1. Len(x) \in Nat /\ Len(y) \in Nat /\ Len(z) \in Nat /\ i \in 1..Len(y)
  BY LenProperties
<1>2. v \in Seq(Nat) /\ Len(v) = Len(y) + Len(z) /\ v[i] = y[i]
  <2>1. v \in Seq(Nat) /\ Len(v) = Len(y) + Len(z)
    BY ConcatProperties
  <2>2. \A j \in 1..(Len(y) + Len(z)) : v[j] = IF j <= Len(y) THEN y[j] ELSE z[j - Len(y)]
    BY ConcatProperties
  <2>3. i \in 1..(Len(y) + Len(z)) /\ i <= Len(y)
    BY <1>1
  <2> QED
    BY <2>1, <2>2, <2>3
<1> HIDE DEF v
<1>3. w \in Seq(Nat) /\ Len(w) = Len(x) + Len(v) /\ w = x \o v
  BY <1>2, ConcatProperties DEF v
<1>4. \A j \in 1..(Len(x) + Len(v)) : w[j] = IF j <= Len(x) THEN x[j] ELSE v[j - Len(x)]
  BY <1>2, <1>3, JoinedAt, Zenon
<1>5. k \in 1..(Len(x) + Len(v)) /\ ~(k <= Len(x)) /\ k - Len(x) = i
  <2> DEFINE l == Len(x)
             m == Len(v)
  <2>1. l \in Nat /\ m \in Nat /\ i \in 1..m
    BY <1>1, <1>2
  <2> HIDE DEF l, m
  <2>2. l + i \in 1..(l + m) /\ ~(l + i <= l) /\ (l + i) - l = i
    BY <2>1
  <2> QED
    BY <2>2 DEF l, m
<1>6. w[k] = y[i] /\ k \in DOMAIN w
  <2>1. w[k] = v[k - Len(x)]
    BY <1>4, <1>5
  <2>2. k \in 1..Len(w)
    BY <1>3, <1>5
  <2>3. w[k] = v[i]
    BY <1>5, <2>1, Zenon
  <2>4. DOMAIN w = 1..Len(w)
    BY <1>3
  <2> QED
    BY <1>2, <2>2, <2>3, <2>4, Zenon
<1> HIDE DEF k
<1> QED
  BY <1>6 DEF Encodable

\* What is known of the segment being cut.
LEMMA CutAt ==
    ASSUME PiecesInv, EncodeInv, phase \in {"pieces", "bpe"}
    PROVE  /\ todo # <<>> /\ Head(todo) \in SegParts /\ Utf8Text(Head(todo).text)
           /\ Head(todo).text \in Seq(Bytes) /\ cut \in Ends(Head(todo).text)
           /\ SegMarks[Head(todo)] = <<>> /\ Said(Tail(todo)) \in Seq(Nat)
           /\ Marks(todo) = Marks(Tail(todo))
<1>1. todo # <<>> /\ Utf8Text(Head(todo).text) /\ cut \in Ends(Head(todo).text)
  BY DEF PiecesInv, Cutting
<1>2. todo \in Seq(SegParts)
  BY DEF EncodeInv, Encoding
<1>3. Head(todo).text \in Seq(Bytes)
  BY <1>1 DEF Utf8Text
<1>4. /\ Head(todo) \in SegParts /\ Tail(todo) \in Seq(SegParts)
      /\ Marks(todo) = SegMarks[Head(todo)] \o Marks(Tail(todo))
  BY <1>1, <1>2, SaidFirst
<1>5. Head(todo).text # None
  BY <1>3, TokenizerAssumption
<1>6. SegMarks[Head(todo)] = <<>>
  BY <1>4, <1>5, SegIs
<1>7. Said(Tail(todo)) \in Seq(Nat) /\ Marks(Tail(todo)) \in Seq(Nat)
  BY <1>4, SaidIs, BytesAreNat
<1> DEFINE m == Marks(Tail(todo))
<1>8. Marks(todo) = <<>> \o m
  BY <1>4, <1>6
<1> HIDE DEF m
<1>9. <<>> \o m = m
  BY <1>7, ConcatEmptySeq DEF m
<1> QED
  BY <1>1, <1>3, <1>4, <1>6, <1>7, <1>8, <1>9 DEF m

\* A piece is the start of what was left.
LEMMA TakePieceKeeps ==
    ASSUME PiecesInv, EncodeInv, TakePiece
    PROVE  EncodeInv'
<1> DEFINE t == Head(todo).text
           n == Len(t)
           e == PieceEnd(t, cut)
           p == Slice(t, cut, e)
           r == Slice(t, e, n + 1)
           ds == Said(Tail(todo))
<1>1. /\ phase = "pieces" /\ cut <= n /\ sym' = ByteEncode(p) /\ cut' = e /\ phase' = "bpe"
      /\ UNCHANGED <<input, todo, out>>
  BY DEF TakePiece, Slice
<1>2. Utf8Text(t) /\ t \in Seq(Bytes) /\ cut \in Ends(t) /\ ds \in Seq(Nat)
  BY <1>1, CutAt
<1>3. e \in Ends(t) /\ e > cut
  BY <1>1, <1>2, PieceFacts
<1>4. Cuts(cut, e, Len(t)) /\ Cuts(e, n + 1, Len(t))
  <2>1. n \in Nat /\ cut \in 1..(n + 1) /\ e \in 1..(n + 1)
    BY <1>2, <1>3, EndsFacts
  <2>2. e \in cut..(n + 1) /\ n + 1 \in e..(n + 1)
    BY <1>3, <2>1
  <2> QED
    BY <2>1, <2>2 DEF Cuts
<1>5. p \o r = Slice(t, cut, n + 1) /\ p \in Seq(Bytes) /\ r \in Seq(Bytes)
  <2> DEFINE f == n + 1
  <2>1. t \in Seq(Bytes) /\ Cuts(cut, e, Len(t)) /\ Cuts(e, f, Len(t))
    BY <1>2, <1>4
  <2> HIDE DEF t, e, f
  <2>2. /\ Slice(t, cut, e) \o Slice(t, e, f) = Slice(t, cut, f)
        /\ Slice(t, cut, e) \in Seq(Bytes) /\ Slice(t, e, f) \in Seq(Bytes)
    BY <2>1, SliceJoin
  <2> QED
    BY <2>2 DEF f
<1>6. Left = (p \o r) \o ds /\ Left' = r \o ds
  <2>1. Left = Slice(t, cut, n + 1) \o ds /\ Left' = r \o ds
    BY <1>1 DEF Left
  <2> QED
    BY <1>5, <2>1, Zenon
<1>7. p \in Seq(Nat) /\ r \in Seq(Nat)
  BY <1>5, BytesAreNat
<1>8. Decoded \in Seq(Nat) /\ Decoded' = Decoded /\ Marked' = Marked /\ Marks(todo') = Marks(todo)
  <2>1. Decoded \in Seq(Nat)
    BY TokenLists, SpreadType DEF EncodeInv, Encoding, Decoded
  <2> QED
    BY <1>1, <2>1 DEF Decoded, Marked
<1>9. OkDecode => Decoded \o Left = Stripped
  BY <1>1 DEF EncodeInv, SaidKept
<1>10. OkControls => Marked \o Marks(todo) = Template
  BY <1>1 DEF EncodeInv, MarksKept
<1>11. AllSymbols(sym') /\ (Encodable(p) => AllKnown(sym')) /\ Flat(sym') = Codes(p)
  <2> HIDE DEF p
  <2> QED
    BY <1>1, <1>5, EncodedStarts, CodesIs
<1> HIDE DEF p, r, ds
<1>12. (p \o r) \o ds = p \o (r \o ds) /\ r \o ds \in Seq(Nat)
  <2>1. Cat(Cat(p, r), ds) = Cat(p, Cat(r, ds))
    BY <1>2, <1>7, CatAssociative
  <2>2. r \o ds \in Seq(Nat)
    BY <1>2, <1>7, ConcatProperties
  <2> QED
    BY <2>1, <2>2, Zenon DEF Cat
<1>13. OkDecode => Decoded \o (p \o Left') = Stripped
  BY <1>6, <1>9, <1>12, Zenon
<1>14. OkDecode => Encodable(p)
  <2> SUFFICES ASSUME OkDecode PROVE Encodable(p)
    OBVIOUS
  <2>1. Encodable(Stripped)
    BY DEF OkDecode
  <2>2. Left' \in Seq(Nat)
    BY <1>6, <1>12
  <2> HIDE DEF t, n
  <2> DEFINE l == Left'
             d == Decoded
             w == Stripped
  <2>3. l \in Seq(Nat) /\ d \in Seq(Nat) /\ w = d \o (p \o l) /\ Encodable(w)
    BY <1>8, <1>13, <2>1, <2>2
  <2> HIDE DEF l, d, w
  <2> QED
    BY <1>7, <2>3, EncodablePart
<1>15. /\ Stripped' = Stripped /\ Template' = Template
       /\ OkControls' = OkControls /\ OkDecode' = OkDecode
  BY <1>1, PromiseFixed
<1>16. Encoding' /\ LookedUp' /\ Scanned'
  BY <1>1, <1>11, <1>15 DEF EncodeInv, Encoding, LookedUp, Scanned
<1>17. MarksKept'
  BY <1>1, <1>8, <1>10, <1>15 DEF MarksKept
<1>18. SaidKept'
  <2> SUFFICES ASSUME OkDecode
               PROVE  /\ AllKnown(sym')
                      /\ \E x \in Seq(Bytes) : Flat(sym') = Codes(x) /\ Decoded' \o (x \o Left') = Stripped'
    BY <1>1, <1>15 DEF SaidKept
  <2> QED
    BY <1>5, <1>8, <1>11, <1>13, <1>14, <1>15
<1> QED
  BY <1>16, <1>17, <1>18 DEF EncodeInv

\* A merge changes no character.
LEMMA MergeKeeps ==
    ASSUME PiecesInv, EncodeInv, Merge
    PROVE  EncodeInv'
<1> DEFINE i == BestPair(sym)
<1>1. /\ phase = "bpe" /\ Mergeable(sym) # {} /\ sym' = MergeAt(sym, i)
      /\ UNCHANGED <<phase, input, todo, cut, out>>
  BY DEF Merge
<1>2. AllSymbols(sym) /\ sym \in Seq(Symbols)
  BY <1>1 DEF EncodeInv, Encoding, AllSymbols
<1>3. i \in Mergeable(sym)
  BY <1>1, <1>2, BestPairIs
<1>4. i \in 1..(Len(sym) - 1)
  BY <1>3 DEF Mergeable
<1> HIDE DEF i
<1>5. Flat(sym') = Flat(sym)
  BY <1>1, <1>2, <1>4, MergeKeepsFlat
<1>6. AllSymbols(sym') /\ (AllKnown(sym) => AllKnown(sym'))
  BY <1>1, <1>2, <1>3, MergeKeepsSymbols
<1>7. /\ Stripped' = Stripped /\ Template' = Template
      /\ OkControls' = OkControls /\ OkDecode' = OkDecode
  BY <1>1, PromiseFixed
<1>8. Decoded' = Decoded /\ Marked' = Marked /\ Left' = Left /\ Marks(todo') = Marks(todo)
  BY <1>1 DEF Decoded, Marked, Left
<1>9. Encoding' /\ LookedUp' /\ Scanned'
  BY <1>1, <1>6, <1>7 DEF EncodeInv, Encoding, LookedUp, Scanned
<1>10. MarksKept'
  BY <1>1, <1>7, <1>8 DEF EncodeInv, MarksKept
<1>11. SaidKept'
  <2> SUFFICES ASSUME OkDecode
               PROVE  /\ AllKnown(sym')
                      /\ \E x \in Seq(Bytes) : Flat(sym') = Codes(x) /\ Decoded' \o (x \o Left') = Stripped'
    BY <1>1, <1>7 DEF SaidKept
  <2>1. /\ AllKnown(sym)
        /\ \E x \in Seq(Bytes) : Flat(sym) = Codes(x) /\ Decoded \o (x \o Left) = Stripped
    BY <1>1 DEF EncodeInv, SaidKept
  <2> QED
    BY <1>5, <1>6, <1>7, <1>8, <2>1
<1> QED
  BY <1>9, <1>10, <1>11 DEF EncodeInv

\* A piece's tokens are no control tokens and decode to the piece.
LEMMA EmitKeeps ==
    ASSUME MergesMakeNoControl, PiecesInv, EncodeInv, Emit
    PROVE  EncodeInv'
<1> DEFINE q == Emitted(sym)
           d == Spread(TokenBytes, q)
<1>1. /\ phase = "bpe" /\ out' = out \o q /\ phase' = "pieces" /\ UNCHANGED <<input, todo, cut>>
  BY DEF Emit, Emitted
<1>2. AllSymbols(sym) /\ out \in Seq(DOMAIN Vocab)
  BY <1>1 DEF EncodeInv, Encoding
<1>3. q \in Seq(DOMAIN Vocab) /\ Spread(TokenMarks, q) = <<>>
  BY <1>2, EmittedPlain, PlainTokensMark
<1>4. /\ out' \in Seq(DOMAIN Vocab) /\ Decoded \in Seq(Nat) /\ Marked \in Seq(Nat) /\ d \in Seq(Nat)
      /\ Decoded' = Decoded \o d /\ Marked' = Marked \o Spread(TokenMarks, q)
  <2> HIDE DEF q
  <2> QED
    BY <1>1, <1>2, <1>3, OutGrows
<1>5. Marked' = Marked
  <2>1. Marked \o <<>> = Marked
    BY <1>4, ConcatEmptySeq
  <2> QED
    BY <1>3, <1>4, <2>1
<1>6. /\ Stripped' = Stripped /\ Template' = Template
      /\ OkControls' = OkControls /\ OkDecode' = OkDecode
  BY <1>1, PromiseFixed
<1>7. Left' = Left /\ Marks(todo') = Marks(todo)
  BY <1>1 DEF Left
<1>8. Encoding' /\ LookedUp' /\ Scanned'
  BY <1>1, <1>4, <1>6 DEF EncodeInv, Encoding, LookedUp, Scanned
<1>9. MarksKept'
  BY <1>1, <1>5, <1>6, <1>7 DEF EncodeInv, MarksKept
<1>10. OkDecode => Decoded' \o Left = Stripped
  <2> SUFFICES ASSUME OkDecode PROVE Decoded' \o Left = Stripped
    OBVIOUS
  <2>1. AllKnown(sym)
    BY <1>1 DEF EncodeInv, SaidKept
  <2>2. PICK x \in Seq(Bytes) : Flat(sym) = Codes(x) /\ Decoded \o (x \o Left) = Stripped
    BY <1>1 DEF EncodeInv, SaidKept
  <2>3. d = x
    BY <1>2, <2>1, <2>2, PieceDecodes
  <2>4. Left \in Seq(Nat)
    <3> DEFINE t == Head(todo).text
               y == Slice(t, cut, Len(t) + 1)
    <3>1. t \in Seq(Bytes) /\ cut \in Ends(t) /\ Said(Tail(todo)) \in Seq(Nat)
      BY <1>1, CutAt
    <3>2. Cuts(cut, cut, Len(t)) /\ Cuts(cut, Len(t) + 1, Len(t))
      <4>1. Len(t) \in Nat /\ cut \in 1..(Len(t) + 1)
        BY <3>1, EndsFacts
      <4> QED
        BY <4>1 DEF Cuts
    <3>3. y \in Seq(Bytes)
      <4> HIDE DEF t
      <4> QED
        BY <3>1, <3>2, SliceJoin
    <3>4. y \in Seq(Nat)
      BY <3>3, BytesAreNat
    <3>5. Left = y \o Said(Tail(todo))
      BY DEF Left
    <3> HIDE DEF y
    <3>6. y \o Said(Tail(todo)) \in Seq(Nat)
      BY <3>1, <3>4, ConcatProperties
    <3> QED
      BY <3>5, <3>6
  <2> HIDE DEF d
  <2>5. (Decoded \o d) \o Left = Decoded \o (d \o Left)
    <3>1. Cat(Cat(Decoded, d), Left) = Cat(Decoded, Cat(d, Left))
      BY <1>4, <2>4, CatAssociative
    <3> QED
      BY <3>1, Zenon DEF Cat
  <2> QED
    BY <1>4, <2>2, <2>3, <2>5, Zenon
<1>11. SaidKept'
  BY <1>1, <1>6, <1>7, <1>10 DEF SaidKept
<1> QED
  BY <1>8, <1>9, <1>11 DEF EncodeInv

\* A text that is cut to its end leaves nothing.
LEMMA EndSegmentKeeps ==
    ASSUME PiecesInv, EncodeInv, EndSegment
    PROVE  EncodeInv'
<1> DEFINE t == Head(todo).text
<1>1. /\ phase = "pieces" /\ cut > Len(t) /\ todo' = Tail(todo) /\ phase' = "segment"
      /\ UNCHANGED <<input, out>>
  BY DEF EndSegment
<1>2. /\ todo # <<>> /\ t \in Seq(Bytes) /\ cut \in Ends(t) /\ Said(Tail(todo)) \in Seq(Nat)
      /\ Marks(todo) = Marks(Tail(todo))
  BY <1>1, CutAt
<1>3. cut = Len(t) + 1 /\ Len(t) \in Nat
  <2>1. Len(t) \in Nat /\ cut \in 1..(Len(t) + 1)
    BY <1>2, EndsFacts
  <2> QED
    BY <1>1, <2>1
<1>4. Left = <<>> \o Said(Tail(todo))
  <2>1. Slice(t, cut, Len(t) + 1) = <<>>
    BY <1>3, SubSeqEmpty DEF Slice
  <2> QED
    BY <2>1, Zenon DEF Left
<1>5. Left = Said(Tail(todo))
  <2> DEFINE x == Said(Tail(todo))
  <2>1. x \in Seq(Nat) /\ Left = <<>> \o x
    BY <1>2, <1>4
  <2> HIDE DEF x
  <2>2. <<>> \o x = x
    BY <2>1, ConcatEmptySeq
  <2> QED
    BY <2>1, <2>2 DEF x
<1>6. /\ Stripped' = Stripped /\ Template' = Template
      /\ OkControls' = OkControls /\ OkDecode' = OkDecode
  BY <1>1, PromiseFixed
<1>7. Decoded' = Decoded /\ Marked' = Marked /\ Said(todo') = Left /\ Marks(todo') = Marks(todo)
  BY <1>1, <1>2, <1>5 DEF Decoded, Marked
<1>8. LookedUp' /\ todo' \in Seq(SegParts)
  BY <1>1, <1>2, TailLookedUp
<1>9. Encoding' /\ Scanned'
  BY <1>1, <1>8 DEF EncodeInv, Encoding, Scanned
<1>10. MarksKept' /\ SaidKept'
  BY <1>1, <1>6, <1>7 DEF EncodeInv, MarksKept, SaidKept
<1> QED
  BY <1>8, <1>9, <1>10 DEF EncodeInv

\* The last step, and none, change nothing that was encoded.
LEMMA FinishKeeps ==
    ASSUME EncodeInv, Finish \/ UNCHANGED vars
    PROVE  EncodeInv'
<1>1. UNCHANGED <<input, pos, from, todo, cut, sym, out>>
      /\ (phase' = phase \/ (phase = "segment" /\ todo = <<>> /\ phase' = "done"))
  BY DEF Finish, vars
<1>2. /\ Stripped' = Stripped /\ Template' = Template /\ LastEnds' = LastEnds
      /\ Kept' = Kept /\ Started' = Started /\ SpecialAt(from)' = SpecialAt(from)
      /\ OkControls' = OkControls /\ OkDecode' = OkDecode
  <2>1. SpecialAt(from)' = SpecialAt(from)
    BY <1>1 DEF SpecialAt
  <2> QED
    BY <1>1, <2>1, PromiseFixed
<1>3. Decoded' = Decoded /\ Marked' = Marked /\ Left' = Left
  BY <1>1 DEF Decoded, Marked, Left
<1>4. Encoding' /\ LookedUp'
  BY <1>1, <1>2 DEF EncodeInv, Encoding, LookedUp
<1>5. Scanned'
  BY <1>1, <1>2 DEF EncodeInv, Scanned
<1>6. MarksKept'
  BY <1>1, <1>2, <1>3 DEF EncodeInv, MarksKept
<1>7. SaidKept'
  BY <1>1, <1>2, <1>3 DEF EncodeInv, SaidKept
<1> QED
  BY <1>4, <1>5, <1>6, <1>7 DEF EncodeInv

\* Every state of the encoders, if no merge makes a control token: what is encoded and
\* what is left are the input, and the control tokens are those it asks for.
THEOREM EncodeInvariant == Spec => [](MergesMakeNoControl => EncodeInv)
<1>1. Init => (MergesMakeNoControl => EncodeInv)
  BY EncodeInit
<1>2. ASSUME PiecesInv, MergesMakeNoControl => EncodeInv, [Next]_vars
      PROVE  (MergesMakeNoControl => EncodeInv)'
  <2> SUFFICES ASSUME MergesMakeNoControl, EncodeInv PROVE EncodeInv'
    BY <1>2 DEF MergesMakeNoControl
  <2> QED
    BY <1>2, ScanCharKeeps, ScanMarkKeeps, ScanEndKeeps, StartKeeps, TakePieceKeeps, MergeKeeps,
       EmitKeeps, EndSegmentKeeps, FinishKeeps DEF Next
<1> QED
  BY <1>1, <1>2, PiecesInvariant, PTL DEF Spec

\* At the end nothing is left.
LEMMA DoneIs ==
    ASSUME EncodeInv, phase = "done"
    PROVE  /\ OkControls => ControlsOf(out) = Template
           /\ OkDecode => Decode(out) = Stripped
<1>1. todo = <<>> /\ out \in Seq(DOMAIN Vocab)
  BY DEF EncodeInv, Encoding
<1>2. /\ OkControls => Marked \o Marks(todo) = Template
      /\ OkDecode => Decoded \o Said(todo) = Stripped
  BY DEF EncodeInv, MarksKept, SaidKept
<1>3. Marks(todo) = <<>> /\ Said(todo) = <<>>
  BY <1>1, SaidIs
<1>4. Decoded \in Seq(Nat) /\ Marked \in Seq(Nat)
  BY <1>1, TokenLists, SpreadType DEF Decoded, Marked
<1>5. Decoded \o <<>> = Decoded /\ Marked \o <<>> = Marked
  BY <1>4, ConcatEmptySeq
<1>6. Decode(out) = Decoded /\ ControlsOf(out) = Marked
  BY <1>1, DecodeIs DEF Decoded, Marked
<1> QED
  BY <1>2, <1>3, <1>5, <1>6

\* tokenize_text, render_chat_prompt and tokenize_rendered_chat, for every vocabulary,
\* every text and every merges that make no control token: the control tokens of the
\* result are those of the template or of the rendered text, in order.
THEOREM ControlsAlwaysFromTemplate == Spec => []ControlsFromTemplate
<1>1. (MergesMakeNoControl => EncodeInv) => ControlsFromTemplate
  BY DoneIs DEF ControlsFromTemplate, OkControls
<1> QED
  BY <1>1, EncodeInvariant, PTL

\* decode_tokens after the encoders, for every vocabulary, every merges that make no
\* control token and every text whose bytes have tokens: what was said comes back byte
\* for byte.
THEOREM DecodeAlwaysGivesText == Spec => []DecodeGivesText
<1>1. (MergesMakeNoControl => EncodeInv) => DecodeGivesText
  BY DoneIs DEF DecodeGivesText, OkDecode
<1> QED
  BY <1>1, EncodeInvariant, PTL

=============================================================================

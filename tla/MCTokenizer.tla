---------------------------- MODULE MCTokenizer -----------------------------
(* Texts of up to four characters, one of each class that matters.         *)
EXTENDS Tokenizer

\* a b 1 . space newline, a control byte, e acute, a CJK character, a face
MCChars == {<<97>>, <<98>>, <<49>>, <<46>>, <<32>>, <<10>>, <<1>>, <<195, 169>>, <<228, 189, 160>>,
            <<240, 159, 152, 128>>}
Few == {<<97>>, <<98>>, <<32>>, <<228, 189, 160>>}
Upto(n, units) == {Flat(u) : u \in UNION {[1..k -> units] : k \in 0..n}}

MCTexts == Upto(3, MCChars) \union Upto(4, {<<97>>, <<98>>, <<32>>, <<46>>, <<49>>, <<10>>})
             \union Upto(3, Few \union {<<60, 98, 62>>, <<60>>, <<60, 47, 98, 62>>, <<239, 189, 156, 68, 239, 189, 156>>, <<68, 239, 189, 156>>})
MCPrompts == Upto(2, {<<97>>, <<98>>, <<60, 98, 62>>, <<32>>}) \X Upto(2, {<<97>>, <<60, 98, 62>>})

\* <s> <u> <a> <b> </b> <e>, and D between two full-width bars
MCControl == [bos |-> <<60, 115, 62>>, user |-> <<60, 117, 62>>, assistant |-> <<60, 97, 62>>,
              think_start |-> <<60, 98, 62>>, think_end |-> <<60, 47, 98, 62>>,
              eos |-> <<60, 101, 62>>, dsml |-> <<239, 189, 156, 68, 239, 189, 156>>]
MCEffort == <<98, 97, 10>>

\* The bytes of the texts except the control byte 1, what is merged except
\* "ba", a token twice, and one that spells the CJK character.
MCVocab ==
    <<MCControl.bos, MCControl.user, MCControl.assistant, MCControl.think_start, MCControl.think_end,
      MCControl.eos, <<65372, 68, 65372>>, <<20320>>,
      <<97>>, <<98>>, <<49>>, <<46>>, <<288>>, <<266>>, <<195>>, <<169>>, <<228>>, <<189>>, <<322>>,
      <<60>>, <<62>>, <<47>>, <<115>>, <<117>>, <<97>>, <<233>>,
      <<97, 98>>, <<97, 98, 97>>, <<288, 97>>>>
MCMerges == <<<<<<97>>, <<98>>>>, <<<<98>>, <<97>>>>, <<<<97, 98>>, <<97>>>>, <<<<288>>, <<97>>>>>>
=============================================================================

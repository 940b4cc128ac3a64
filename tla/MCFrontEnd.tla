----------------------------- MODULE MCFrontEnd -----------------------------
(***************************************************************************)
(* FrontEnd on three kinds of files: every text of up to three characters  *)
(* that lex differently; every keyword, with a character less and more;    *)
(* and programs with every construct of the grammar, whole, cut off, and   *)
(* with any one token left out or replaced.                                *)
(***************************************************************************)
EXTENDS Language

Alphabet == {"i", "f", "_", "1", "/", ":", "-", ">", "\"", "@", ";", "\n", " "}

ShortTexts == {""} \union {a \o b \o c : a, b, c \in Alphabet \union {""}}

Words == Range(Keywords)
KeywordTexts ==
    UNION {{w, w \o "s", SubSeq(w, 1, Len(w) - 1), w \o ":", "A" \o w} : w \in Words}

Programs ==
  { <<"f", "::", "(", "a", ":", "int", "=", "1", ")", "->", "*", "s8", "{",
      "return", "a", "+", "!", "b", ";", "}">>,
    <<"f", "::", "(", ")", "->", "u8", "{", "if", "x", "{", "}", "else", "{", "}",
      "g", "(", "1", ",", "x", ")", ";", "}">>,
    <<"f", "::", "(", ")", "->", "s16", ";", "x", ":", "*", "bool", "=", "cast", "(",
      "u16", ")", "-", "y", ";">>,
    <<"f", "::", "(", ")", "->", "s32", "{", "while", "x", "{", "x", "=", "(", "y", ")",
      ";", "}", "g", "::", "(", ")", "->", "u32", "{", "}", "}">> }

Tokens == {"x", "1", "int", "*", "(", ")", "{", "}", ";", ":", "::", "=", "!", "else", "if",
           "cast", "return", "//\n"}

Spaced(p) == FlattenSeq([i \in DOMAIN p |-> p[i] \o " "])
Replaced(p) == {ReplaceAt(p, i, t) : i \in DOMAIN p, t \in Tokens}
Shortened(p) == {RemoveAt(p, i) : i \in DOMAIN p}
CutOff(p) == {SubSeq(p, 1, i) : i \in DOMAIN p}

ProgramTexts ==
    {Spaced(p) : p \in UNION {Replaced(p) \union Shortened(p) \union CutOff(p) : p \in Programs}}

MCTexts == ShortTexts \union KeywordTexts \union ProgramTexts
=============================================================================

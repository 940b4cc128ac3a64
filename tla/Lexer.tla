------------------------------- MODULE Lexer -------------------------------
(***************************************************************************)
(* The lexer of src/src/lexer.c: lex_file cuts the text of a file into     *)
(* tokens, one token per turn of its loop, after skipping blanks and       *)
(* comments; lex_identifier tells keywords from identifiers by a perfect   *)
(* hash.                                                                   *)
(*                                                                         *)
(* A text is a string, and ends with a NUL that is not part of it.  Places *)
(* are counted from 1.  A scan that does not stop at the NUL reads         *)
(* whatever memory holds behind the text: "lost" stands for all that may   *)
(* follow.  A failing realloc is left out.                                 *)
(*                                                                         *)
(* A definition that is only a faulty variant of the next one is named for *)
(* its fault; it shows that a property notices that fault.                 *)
(***************************************************************************)
EXTENDS Integers, Sequences, FiniteSets, FiniteSetsExt, SequencesExt, TLC

CONSTANTS Texts,           \* the files
          InitialCapacity  \* of the token array, 0x1000 in main.c

ASSUME InitialCapacityAssumption == InitialCapacity \in Nat \ {0}

\* A file is a string that holds no NUL.
ASSUME TextsAssumption ==
    \A t \in Texts :
      /\ t \in STRING /\ Len(t) \in Nat
      /\ \A k \in 1..Len(t) : SubSeq(t, k, k) # "" /\ \A e \in k..Len(t) : Len(SubSeq(t, k, e)) \in Nat

VARIABLES text,      \* s->start
          txt,       \* the place the lexer is at
          s,         \* the tokens
          capacity,  \* s->capacity
          lexing     \* "yes", or how lex_file ended

lexVars == <<text, txt, s, capacity, lexing>>

NUL == ""
Quote == "\""
CharOf(string, k) == SubSeq(string, k, k)
Char(k) == IF k \in 1..Len(text) THEN CharOf(text, k) ELSE NUL

-----------------------------------------------------------------------------
(* Characters *)

CharsOf(string) == {CharOf(string, k) : k \in 1..Len(string)}
PlaceIn(string, c) == CHOOSE k \in 1..Len(string) : CharOf(string, k) = c

Letters == "abcdefghijklmnopqrstuvwxyz"
Capitals == "ABCDEFGHIJKLMNOPQRSTUVWXYZ"
Digits == "0123456789"

Digit == CharsOf(Digits)
Alphanumeric == CharsOf(Letters) \union CharsOf(Capitals) \union Digit \union {"_"}
Blanks == {"\n", " ", "\t", "\r"}

\* How far a character's code is from that of "a".
FromA == [c \in Alphanumeric |->
            CASE c \in CharsOf(Letters)  -> PlaceIn(Letters, c) - 1
              [] c \in CharsOf(Capitals) -> 33 - PlaceIn(Capitals, c)
              [] c \in Digit             -> 50 - PlaceIn(Digits, c)
              [] OTHER                   -> 2]

\* The token that begins with a character, and the character that makes it one of two.
Singles == CharsOf("{})(;+*/,^%-:=><!&|")
Second == "-" :> ">" @@ ":" :> ":" @@ "=" :> "=" @@ ">" :> "=" @@ "<" :> "="
            @@ "!" :> "=" @@ "&" :> "&" @@ "|" :> "|"

Pairs == {c \o Second[c] : c \in DOMAIN Second}
Named == {"identifier", "number", "quoted", "EOF"}

\* A fact about the tables above, without a constant in it: the cases of the
\* lexer's switch exclude each other, and no symbol is taken for a NUL.
ASSUME CharactersAssumption ==
    /\ Digit \subseteq Alphanumeric
    /\ Alphanumeric \intersect (Singles \union Blanks \union {Quote, NUL}) = {}
    /\ Singles \intersect (Blanks \union {Quote, NUL}) = {}
    /\ Blanks \intersect {Quote, NUL} = {} /\ Quote # NUL
    /\ DOMAIN Second \subseteq Singles
    /\ \A c \in DOMAIN Second : Second[c] # NUL
    /\ (Singles \union Pairs) \intersect Named = {}

-----------------------------------------------------------------------------
(* Keywords *)

\* buff_tbl, whose last element is not given
Values == <<1, 2, 3, 15, 5, 11, 21, 8, 9, 10, 11, 12, 13, 16, 15, 17, 17, 18, 19, 20,
            21, 21, 44, 24, 25, 0>>

\* keywords_hashes_tbl by its keys, which are different modulo its size
Keywords ==
    64 :> "true" @@ 98 :> "return" @@ 36 :> "s8" @@ 37 :> "nil" @@ 38 :> "u8"
 @@ 103 :> "string" @@ 41 :> "else" @@ 43 :> "cast" @@ 44 :> "bool" @@ 45 :> "int"
 @@ 78 :> "while" @@ 48 :> "false" @@ 81 :> "s16" @@ 83 :> "u16" @@ 20 :> "if"
 @@ 57 :> "s64" @@ 59 :> "u64" @@ 60 :> "void" @@ 61 :> "s32" @@ 63 :> "u32"

Hash(word) ==
    SumFunction([i \in 1..Len(word) |-> Values[(FromA[CharOf(word, i)] % 26) + 1]])

LexIdentifierByHash(word) ==
    IF Hash(word) \in DOMAIN Keywords THEN Keywords[Hash(word)] ELSE "identifier"

\* A fact about the tables: the hash is perfect, and a keyword that is cut off
\* has not the hash of the whole.
ASSUME KeywordsAssumption ==
    \A h \in DOMAIN Keywords :
      LET word == Keywords[h]
      IN  /\ Hash(word) = h
          /\ Len(word) \in Nat /\ SubSeq(word, 1, Len(word)) = word
          /\ \A n \in 0..Len(word) : Hash(SubSeq(word, 1, n)) = h => n = Len(word)
          /\ word \notin Named

\* The comparison ends with the identifier, not with the keyword.
LexIdentifier(word) ==
    LET hash == Hash(word)
    IN  IF /\ hash \in DOMAIN Keywords
           /\ Len(word) <= Len(Keywords[hash])
           /\ SubSeq(Keywords[hash], 1, Len(word)) = word
          THEN Keywords[hash]
          ELSE "identifier"

-----------------------------------------------------------------------------
(* lex_file *)

Init == /\ text \in Texts
        /\ txt = 1
        /\ s = <<>>
        /\ capacity = InitialCapacity
        /\ lexing = "yes"

CommentAt(k) == Char(k) = "/" /\ Char(k + 1) = "/"
TokenAt(k) == lexing = "yes" /\ Char(k) \notin Blanks /\ ~CommentAt(k)

\* The first place from k on that does not hold one of some characters.
RunEnd(k, chars) == Min({e \in k..(Len(text) + 1) : Char(e) \notin chars})

Stop(how) == lexing' = how /\ UNCHANGED <<text, txt, s, capacity>>

Kinds == Singles \union Pairs \union Named \union {Keywords[h] : h \in DOMAIN Keywords}

Token(k, from, size) == [kind |-> k, from |-> from, size |-> size]

\* The array is doubled when it is full.
Grown == IF Len(s) >= capacity THEN 2 * capacity ELSE capacity

Put(token, next) ==
    /\ s' = Append(s, token)
    /\ capacity' = Grown
    /\ txt' = next
    /\ UNCHANGED text

SkipBlank ==
    /\ lexing = "yes"
    /\ Char(txt) \in Blanks
    /\ txt' = txt + 1
    /\ UNCHANGED <<text, s, capacity, lexing>>

\* The scan for the end of the line does not look for the end of the file.
CommentEnds(k) == {e \in k..Len(text) : Char(e) = "\n"}

SkipComment ==
    /\ lexing = "yes"
    /\ CommentAt(txt)
    /\ IF CommentEnds(txt) = {}
         THEN Stop("lost")
         ELSE /\ txt' = Min(CommentEnds(txt)) + 1
              /\ UNCHANGED <<text, s, capacity, lexing>>

IsDouble(k) == Char(k) \in DOMAIN Second /\ Char(k + 1) = Second[Char(k)]

LexSymbol ==
    /\ TokenAt(txt)
    /\ Char(txt) \in Singles
    /\ IF IsDouble(txt)
         THEN Put(Token(Char(txt) \o Second[Char(txt)], txt, 2), txt + 2)
         ELSE Put(Token(Char(txt), txt, 1), txt + 1)
    /\ UNCHANGED lexing

\* A string ends with its line, if nothing else ends it.
StringEndsQuoted(k) == {e \in k..Len(text) : Char(e) = Quote}

StringEnds(k) == {e \in k..Len(text) : Char(e) \in {Quote, "\n"}}

QuotedFromQuote(k, e) == Token("quoted", k, e - k)

Quoted(k, e) == Token("quoted", k + 1, e - (k + 1))

LexString ==
    /\ TokenAt(txt)
    /\ Char(txt) = Quote
    /\ IF StringEnds(txt + 1) = {}
         THEN Stop("lost")
         ELSE LET e == Min(StringEnds(txt + 1))
              IN  Put(Quoted(txt, e), e + 1) /\ UNCHANGED lexing

LexNumber ==
    /\ TokenAt(txt)
    /\ Char(txt) \in Digit
    /\ LET e == RunEnd(txt, Digit)
       IN  IF Char(e) \in Alphanumeric
             THEN Stop("failed")
             ELSE Put(Token("number", txt, e - txt), e) /\ UNCHANGED lexing

LexWord ==
    /\ TokenAt(txt)
    /\ Char(txt) \in Alphanumeric \ Digit
    /\ LET e == RunEnd(txt, Alphanumeric)
       IN  Put(Token(LexIdentifier(SubSeq(text, txt, e - 1)), txt, e - txt), e)
    /\ UNCHANGED lexing

Unknown(k) == Char(k) \notin Alphanumeric \union Singles \union {Quote, NUL}

\* The last character of a file counts as its end if it begins no token.  The
\* token keeps the place of the token before it.
LexEnd ==
    /\ TokenAt(txt)
    /\ Char(txt) = NUL \/ (Unknown(txt) /\ Char(txt + 1) = NUL)
    /\ Put(IF s = <<>> THEN Token("EOF", 0, 0) ELSE [Last(s) EXCEPT !.kind = "EOF"], txt)
    /\ lexing' = "done"

LexUnknown ==
    /\ TokenAt(txt)
    /\ Unknown(txt) /\ Char(txt + 1) # NUL
    /\ Stop("failed")

LexNext == \/ SkipBlank
           \/ SkipComment
           \/ LexSymbol
           \/ LexString
           \/ LexNumber
           \/ LexWord
           \/ LexEnd
           \/ LexUnknown

LexSpec == Init /\ [][LexNext]_lexVars /\ WF_lexVars(LexNext)

-----------------------------------------------------------------------------
(* Properties *)

\* What a token covers, the quotes of a string included.
Begin(token) == IF token.kind = "quoted" THEN token.from - 1 ELSE token.from
After(token) == token.from + token.size + (IF token.kind = "quoted" THEN 1 ELSE 0)

\* The tokens without the end of the file.
Proper == IF lexing = "done" THEN Front(s) ELSE s

\* The variables have their types; the array has room for its tokens.
TypeOK == /\ text \in STRING
          /\ txt \in 1..(Len(text) + 1)
          /\ s \in Seq([kind : Kinds, from : Nat, size : Nat])
          /\ capacity \in Nat /\ Len(s) <= capacity
          /\ lexing \in {"yes", "done", "failed", "lost"}

Trivia(a, z) ==
    /\ a <= z
    /\ \A k \in a..(z - 1) :
         \/ Char(k) \in Blanks
         \/ \E c \in a..k : CommentAt(c) /\ \A j \in c..k : Char(j) # "\n"

\* Nothing is lost between two tokens: they stand in the order of the text, do
\* not overlap, and blanks and comments are all there is before, between and
\* behind them (the loop of lex_file moves the cursor in eight places).
TextCovered ==
    /\ \A i \in 1..Len(Proper) :
         Trivia(IF i = 1 THEN 1 ELSE After(Proper[i - 1]), Begin(Proper[i]))
    /\ Trivia(IF Proper = <<>> THEN 1 ELSE After(Last(Proper)), txt)

Extendable(token) ==
    IF token.kind = "quoted"
      THEN \E k \in token.from..(token.from + token.size - 1) : Char(k) = "\n"
      ELSE \/ Char(token.from) \in Alphanumeric /\ Char(After(token)) \in Alphanumeric
           \/ /\ Char(token.from) \in Singles /\ token.size = 1
              /\ IsDouble(token.from) \/ CommentAt(token.from)

\* Each token is as long as it can be, and a word is a keyword exactly when it
\* is spelled as one: the hash of lex_identifier misses none of the twenty
\* keywords, and takes no other word for one.
LongestMatch ==
    \A i \in 1..Len(Proper) :
      LET token == Proper[i]
          word == SubSeq(text, token.from, After(token) - 1)
      IN  /\ ~Extendable(token)
          /\ token.kind # "quoted" /\ Char(token.from) \in Alphanumeric \ Digit =>
               token.kind = IF \E h \in DOMAIN Keywords : Keywords[h] = word
                              THEN word ELSE "identifier"

\* The lexer reads past the end of the text only if a comment or a string is
\* open on the last line, and the end it reports is the end of the text or the
\* place of a last character that begins no token.
EndsAtEnd ==
    /\ lexing = "lost" => /\ CommentAt(txt) \/ Char(txt) = Quote
                          /\ \A k \in txt..Len(text) : Char(k) # "\n"
    /\ lexing = "done" => txt = Len(text) + 1 \/ (txt = Len(text) /\ Unknown(txt))
=============================================================================

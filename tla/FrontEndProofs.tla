--------------------------- MODULE FrontEndProofs ---------------------------
(***************************************************************************)
(* Proofs about the lexer and the parser, for every file: no text is lost  *)
(* between the tokens, each is as long as it can be, the lexer passes the  *)
(* end of a file only in an open comment or string; tu->scopes follows the *)
(* activations of parse_scope_stmt, and a function is entered where it is  *)
(* declared.                                                               *)
(***************************************************************************)
EXTENDS FrontEnd, FiniteSetTheorems, WellFoundedInduction, SequenceTheorems, TLAPS

-----------------------------------------------------------------------------
(* Places *)

LEMMA Least ==
  ASSUME NEW S \in SUBSET Nat, S # {}
  PROVE  Min(S) \in S /\ \A j \in S : Min(S) <= j
<1>. DEFINE R == OpToRel(<, Nat)
<1>1. \A x, y \in Nat : <<x, y>> \in R <=> x < y
  BY DEF OpToRel
<1>2. IsWellFoundedOn(R, Nat)
  BY NatLessThanWellFounded, Zenon
<1>. HIDE DEF R
<1>3. PICK m \in S : \A n \in S : ~(<<n, m>> \in R)
  BY <1>2, WFMin
<1>4. \A n \in S : m <= n
  <2>1. \A n \in S : n \in Nat /\ m \in Nat
    OBVIOUS
  <2>2. \A n \in S : ~(n < m)
    BY <1>1, <1>3, <2>1
  <2>. QED BY <2>1, <2>2
<1>5. \E x \in S : \A y \in S : x =< y
  BY <1>4
<1>. QED BY <1>5 DEF Min

LEMMA Greatest ==
  ASSUME NEW N \in Nat, NEW S \in SUBSET (1..N), S # {}
  PROVE  Max(S) \in S /\ \A j \in S : j <= Max(S)
<1>1. PICK T : T = {N - j : j \in S}
  OBVIOUS
<1>2. T \in SUBSET Nat /\ T # {}
  <2>1. \A j \in S : N - j \in Nat
    OBVIOUS
  <2>. QED BY <1>1, <2>1
<1>3. Min(T) \in T /\ \A j \in T : Min(T) <= j
  BY <1>2, Least
<1>4. PICK x \in S : Min(T) = N - x
  BY <1>1, <1>3
<1>5. \A y \in S : N - x <= N - y
  BY <1>1, <1>3, <1>4
<1>6. \A y \in S : x >= y /\ y <= x
  BY <1>5
<1>7. Max(S) \in S /\ \A y \in S : Max(S) >= y
  BY <1>6 DEF Max
<1>. QED BY <1>7

\* The last element of a sequence, and what is before it.
LEMMA LastAndFront ==
  ASSUME NEW S, NEW q \in Seq(S), q # <<>>
  PROVE  /\ Len(q) \in Nat \ {0} /\ Last(q) \in S /\ Last(q) = q[Len(q)]
         /\ Front(q) \in Seq(S) /\ Len(Front(q)) = Len(q) - 1
         /\ \A i \in 1..(Len(q) - 1) : Front(q)[i] = q[i]
<1>1. Len(q) \in Nat \ {0}
  BY EmptySeq
<1>2. \A i \in 1..(Len(q) - 1) : q[i] \in S
  BY <1>1, ElementOfSeq
<1>3. Last(q) \in S /\ Last(q) = q[Len(q)]
  BY <1>1, ElementOfSeq DEF Last
<1>4. PICK n \in Nat : n = Len(q) - 1
  BY <1>1
<1>5. /\ SubSeq(q, 1, n) \in Seq(S)
      /\ Len(SubSeq(q, 1, n)) = IF 1 <= n THEN n - 1 + 1 ELSE 0
      /\ \A i \in 1..(n - 1 + 1) : SubSeq(q, 1, n)[i] = q[1 + i - 1]
  BY <1>2, <1>4, SubSeqProperties
<1>6. Len(SubSeq(q, 1, n)) = n
  BY <1>5
<1>7. \A i \in 1..n : SubSeq(q, 1, n)[i] = q[i]
  BY <1>5
<1>. QED BY <1>1, <1>3, <1>4, <1>5, <1>6, <1>7 DEF Front

LEMMA Appended ==
  ASSUME NEW S, NEW q \in Seq(S), NEW e \in S
  PROVE  /\ Append(q, e) \in Seq(S) /\ Len(Append(q, e)) = Len(q) + 1
         /\ Append(q, e) # <<>> /\ Last(Append(q, e)) = e /\ Front(Append(q, e)) = q
         /\ \A i \in 1..(Len(q) + 1) : Append(q, e)[i] = IF i <= Len(q) THEN q[i] ELSE e
<1>1. /\ Append(q, e) \in Seq(S) /\ Len(Append(q, e)) = Len(q) + 1
      /\ \A i \in 1..(Len(q) + 1) : Append(q, e)[i] = IF i <= Len(q) THEN q[i] ELSE e
  OBVIOUS
<1>2. Len(q) \in Nat /\ Append(q, e) # <<>>
  BY <1>1
<1>3. Last(Append(q, e)) = e
  BY <1>1, <1>2 DEF Last
<1>4. /\ Front(Append(q, e)) \in Seq(S) /\ Len(Front(Append(q, e))) = Len(q)
      /\ \A i \in 1..Len(q) : Front(Append(q, e))[i] = q[i]
  <2>1. PICK p : p = Append(q, e)
    OBVIOUS
  <2>2. p \in Seq(S) /\ p # <<>> /\ Len(p) - 1 = Len(q) /\ \A i \in 1..Len(q) : p[i] = q[i]
    BY <1>1, <1>2, <2>1
  <2>3. Front(p) \in Seq(S) /\ Len(Front(p)) = Len(q) /\ \A i \in 1..Len(q) : Front(p)[i] = p[i]
    BY <2>2, LastAndFront
  <2>. QED BY <2>1, <2>2, <2>3
<1>5. Front(Append(q, e)) = q
  BY <1>4, SeqEqual
<1>. QED BY <1>1, <1>2, <1>3, <1>5

-----------------------------------------------------------------------------
(* The lexer *)

TokenSet == [kind : Kinds, from : Nat, size : Nat]

\* The inductive invariant of the lexer.
LexInv ==
  /\ text \in Texts /\ txt \in 1..(Len(text) + 1)
  /\ s \in Seq(TokenSet) /\ capacity \in Nat \ {0} /\ Len(s) <= capacity
  /\ lexing \in {"yes", "done", "failed", "lost"}
  /\ lexing = "done" => s # <<>> /\ Last(s).kind = "EOF"
  /\ TextCovered
  /\ LongestMatch
  /\ EndsAtEnd

LEMMA OfText ==
  ASSUME text \in Texts
  PROVE  /\ Len(text) \in Nat
         /\ \A k : Char(k) # NUL <=> k \in 1..Len(text)
BY TextsAssumption DEF Char, CharOf, NUL

\* What the properties say of the text does not change while the text stays.
LEMMA TextStays ==
  ASSUME text' = text
  PROVE  /\ \A k : Char(k)' = Char(k)
         /\ \A k : IsDouble(k)' = IsDouble(k)
         /\ \A k : CommentAt(k)' = CommentAt(k)
         /\ \A a, z : Trivia(a, z)' = Trivia(a, z)
         /\ \A token : Extendable(token)' = Extendable(token)
<1>1. \A k : Char(k)' = Char(k)
  BY DEF Char
<1>2. \A k : IsDouble(k)' = IsDouble(k)
  BY <1>1 DEF IsDouble
<1>3. \A k : CommentAt(k)' = CommentAt(k)
  BY <1>1 DEF CommentAt
<1>4. \A a, z : Trivia(a, z)' = Trivia(a, z)
  BY <1>1, <1>3 DEF Trivia
<1>5. \A token : Extendable(token)' = Extendable(token)
  BY <1>1, <1>2, <1>3 DEF Extendable, After
<1>. QED BY <1>1, <1>2, <1>3, <1>4, <1>5

\* The gaps between tokens and the one up to a place.
Gaps(q, z) ==
  /\ \A i \in 1..Len(q) : Trivia(IF i = 1 THEN 1 ELSE After(q[i - 1]), Begin(q[i]))
  /\ Trivia(IF q = <<>> THEN 1 ELSE After(Last(q)), z)

WellMatched(token) ==
  LET word == SubSeq(text, token.from, After(token) - 1)
  IN  /\ ~Extendable(token)
      /\ token.kind # "quoted" /\ Char(token.from) \in Alphanumeric \ Digit =>
           token.kind = IF \E h \in DOMAIN Keywords : Keywords[h] = word THEN word ELSE "identifier"

LEMMA InGaps ==
  /\ TextCovered <=> Gaps(Proper, txt)
  /\ LongestMatch <=> \A i \in 1..Len(Proper) : WellMatched(Proper[i])
BY DEF TextCovered, Gaps, LongestMatch, WellMatched

LEMMA InGapsNext ==
  /\ TextCovered' <=> Gaps(Proper, txt)'
  /\ LongestMatch' <=> (\A i \in 1..Len(Proper) : WellMatched(Proper[i]))'
BY DEF TextCovered, Gaps, LongestMatch, WellMatched

LEMMA AfterNat == \A token \in TokenSet : After(token) \in Nat
BY DEF TokenSet, After

LEMMA WellMatchedStays ==
  ASSUME text' = text
  PROVE  \A token : WellMatched(token)' = WellMatched(token)
BY TextStays DEF WellMatched, After

\* A token put behind a gap leaves no other one.
LEMMA GapsAfterPut ==
  ASSUME NEW q \in Seq(TokenSet), NEW token \in TokenSet, NEW z \in Nat, NEW next \in Nat,
         Gaps(q, z), Begin(token) = z, After(token) = next
  PROVE  Gaps(Append(q, token), next)
<1>. DEFINE p == Append(q, token)
<1>1. /\ p # <<>> /\ Last(p) = token /\ Len(p) = Len(q) + 1 /\ Len(q) \in Nat
      /\ \A i \in 1..(Len(q) + 1) : p[i] = IF i <= Len(q) THEN q[i] ELSE token
  BY Appended
<1>. HIDE DEF p
<1>2. Trivia(next, next)
  BY DEF Trivia
<1>3. ASSUME NEW i \in 1..Len(p)
      PROVE  Trivia(IF i = 1 THEN 1 ELSE After(p[i - 1]), Begin(p[i]))
  <2>1. CASE i <= Len(q)
    <3>1. p[i] = q[i] /\ (i # 1 => p[i - 1] = q[i - 1])
      BY <1>1, <2>1
    <3>2. Trivia(IF i = 1 THEN 1 ELSE After(q[i - 1]), Begin(q[i]))
      BY <1>1, <2>1 DEF Gaps
    <3>. QED BY <3>1, <3>2
  <2>2. CASE ~(i <= Len(q))
    <3>1. i = Len(q) + 1 /\ p[i] = token
      BY <1>1, <2>2
    <3>2. Trivia(IF q = <<>> THEN 1 ELSE After(Last(q)), z)
      BY DEF Gaps
    <3>3. CASE q = <<>>
      BY <3>1, <3>2, <3>3
    <3>4. CASE q # <<>>
      <4>1. Len(q) # 0
        BY <3>4, EmptySeq
      <4>2. i # 1 /\ p[i - 1] = q[Len(q)]
        BY <1>1, <3>1, <4>1
      <4>. QED BY <3>1, <3>2, <3>4, <4>2 DEF Last
    <3>. QED BY <3>3, <3>4
  <2>. QED BY <2>1, <2>2
<1>. QED BY <1>1, <1>2, <1>3 DEF Gaps, p

LEMMA GapsStay ==
  ASSUME text' = text
  PROVE  \A q, z : Gaps(q, z)' = Gaps(q, z)
BY TextStays DEF Gaps, After, Begin

LEMMA PutKeeps ==
  ASSUME LexInv, lexing = "yes", lexing' = "yes",
         NEW token \in TokenSet, NEW next \in 1..(Len(text) + 1), Put(token, next),
         Begin(token) = txt, After(token) = next, WellMatched(token)
  PROVE  LexInv'
<1>1. s' = Append(s, token) /\ txt' = next /\ text' = text
      /\ capacity' = IF Len(s) >= capacity THEN 2 * capacity ELSE capacity
  BY DEF Put, Grown
<1>2. s \in Seq(TokenSet) /\ capacity \in Nat \ {0} /\ Len(s) <= capacity /\ txt \in Nat /\ next \in Nat
  BY OfText DEF LexInv
<1>3. /\ s' \in Seq(TokenSet) /\ Len(s') = Len(s) + 1 /\ Len(s) \in Nat
      /\ \A i \in 1..(Len(s) + 1) : s'[i] = IF i <= Len(s) THEN s[i] ELSE token
  BY <1>1, <1>2, Appended
<1>4. capacity' \in Nat \ {0} /\ Len(s') <= capacity'
  BY <1>1, <1>2, <1>3
<1>5. Proper = s /\ Proper' = s'
  BY DEF Proper
<1>6. TextCovered'
  <2>1. Gaps(s, txt)
    BY <1>5, InGaps DEF LexInv
  <2>2. Gaps(Append(s, token), next)
    BY <1>2, <2>1, GapsAfterPut
  <2>3. PICK p : p = Append(s, token)
    OBVIOUS
  <2>4. Gaps(p, next)'
    BY <1>1, <2>2, <2>3, GapsStay
  <2>5. Gaps(Proper, txt)'
    BY <1>1, <1>5, <2>3, <2>4
  <2>. QED BY <2>5, InGapsNext
<1>7. LongestMatch'
  <2>1. \A i \in 1..Len(s) : WellMatched(s[i])
    BY <1>5, InGaps DEF LexInv
  <2>2. ASSUME NEW i \in 1..Len(s')
        PROVE  (WellMatched(s[i]))'
    <3>1. PICK e : e = s'[i]
      OBVIOUS
    <3>2. WellMatched(e)
      BY <1>3, <2>1, <3>1
    <3>3. WellMatched(e)'
      BY <1>1, <3>2, WellMatchedStays
    <3>. QED BY <3>1, <3>3
  <2>. QED BY <1>5, <2>2, InGapsNext
<1>. QED BY <1>1, <1>3, <1>4, <1>6, <1>7 DEF LexInv, EndsAtEnd

\* The place moves over blanks or a comment.
LEMMA MoveKeeps ==
  ASSUME LexInv, lexing = "yes", NEW next \in 1..(Len(text) + 1), txt' = next,
         UNCHANGED <<text, s, capacity, lexing>>,
         \A a \in Nat : Trivia(a, txt) => Trivia(a, next)
  PROVE  LexInv'
<1>1. Proper = s /\ Proper' = s
  BY DEF Proper
<1>2. Gaps(s, txt)
  BY <1>1, InGaps DEF LexInv
<1>3. Gaps(s, next)
  <2>1. s # <<>> => After(Last(s)) \in Nat
    BY LastAndFront, AfterNat DEF LexInv
  <2>. QED BY <1>2, <2>1 DEF Gaps
<1>4. PICK p : p = s
  OBVIOUS
<1>5. Gaps(p, next)'
  BY <1>3, <1>4, GapsStay
<1>6. TextCovered'
  BY <1>1, <1>4, <1>5, InGapsNext
<1>7. \A i \in 1..Len(p) : WellMatched(p[i])
  BY <1>1, <1>4, InGaps DEF LexInv
<1>8. \A i \in 1..Len(p) : WellMatched(p[i])'
  BY <1>7, WellMatchedStays
<1>9. LongestMatch'
  BY <1>1, <1>4, <1>8, InGapsNext
<1>. QED BY <1>6, <1>9 DEF LexInv, EndsAtEnd

\* lex_file gives up.
LEMMA StopKeeps ==
  ASSUME LexInv, lexing = "yes", NEW how \in {"failed", "lost"}, Stop(how),
         how = "lost" => /\ CommentAt(txt) \/ Char(txt) = Quote
                         /\ \A k \in txt..Len(text) : Char(k) # "\n"
  PROVE  LexInv'
<1>1. lexing' = how /\ text' = text /\ txt' = txt /\ s' = s /\ capacity' = capacity
  BY DEF Stop
<1>2. Proper' = Proper
  BY <1>1 DEF Proper
<1>3. PICK p : p = Proper
  OBVIOUS
<1>4. PICK z : z = txt
  OBVIOUS
<1>5. Gaps(p, z)' /\ \A i \in 1..Len(p) : WellMatched(p[i])'
  BY <1>1, <1>3, <1>4, InGaps, GapsStay, WellMatchedStays DEF LexInv
<1>6. TextCovered' /\ LongestMatch'
  BY <1>1, <1>2, <1>3, <1>4, <1>5, InGapsNext
<1>7. (CommentAt(z) \/ Char(z) = Quote)' <=> (CommentAt(z) \/ Char(z) = Quote)
  BY <1>1, TextStays
<1>8. \A k : (Char(k) # "\n")' <=> Char(k) # "\n"
  BY <1>1, TextStays
<1>9. EndsAtEnd'
  BY <1>1, <1>4, <1>7, <1>8 DEF EndsAtEnd
<1>. QED BY <1>1, <1>6, <1>9 DEF LexInv

LEMMA BlankKeeps ==
  ASSUME LexInv, SkipBlank
  PROVE  LexInv'
<1>1. lexing = "yes" /\ Char(txt) \in Blanks /\ txt' = txt + 1
      /\ UNCHANGED <<text, s, capacity, lexing>>
  BY DEF SkipBlank
<1>2. Char(txt) # NUL
  BY <1>1 DEF Blanks, NUL
<1>3. txt \in 1..Len(text) /\ txt + 1 \in 1..(Len(text) + 1)
  BY <1>2, OfText DEF LexInv
<1>4. ASSUME NEW a \in Nat, Trivia(a, txt)
      PROVE  Trivia(a, txt + 1)
  BY <1>1, <1>3, <1>4 DEF Trivia
<1>. QED BY <1>1, <1>3, <1>4, MoveKeeps

LEMMA CommentKeeps ==
  ASSUME LexInv, SkipComment
  PROVE  LexInv'
<1>1. lexing = "yes" /\ CommentAt(txt) /\ Len(text) \in Nat /\ txt \in 1..(Len(text) + 1)
  BY OfText DEF SkipComment, LexInv
<1>2. CASE CommentEnds(txt) = {}
  <2>1. Stop("lost")
    BY <1>2 DEF SkipComment
  <2>2. \A k \in txt..Len(text) : Char(k) # "\n"
    BY <1>2 DEF CommentEnds
  <2>. QED BY <1>1, <2>1, <2>2, StopKeeps
<1>3. CASE CommentEnds(txt) # {}
  <2>1. CommentEnds(txt) \in SUBSET Nat
    BY <1>1 DEF CommentEnds
  <2>2. PICK m \in CommentEnds(txt) : m = Min(CommentEnds(txt)) /\ \A j \in CommentEnds(txt) : m <= j
    BY <1>3, <2>1, Least
  <2>3. m \in txt..Len(text) /\ Char(m) = "\n"
    BY <2>2 DEF CommentEnds
  <2>4. \A j \in txt..(m - 1) : Char(j) # "\n"
    BY <1>1, <2>2, <2>3 DEF CommentEnds
  <2>5. txt' = m + 1 /\ UNCHANGED <<text, s, capacity, lexing>>
    BY <1>3, <2>2 DEF SkipComment
  <2>6. ASSUME NEW a \in Nat, Trivia(a, txt)
        PROVE  Trivia(a, m + 1)
    <3>1. a <= m + 1
      BY <1>1, <2>3, <2>6 DEF Trivia
    <3>2. ASSUME NEW k \in a..m
          PROVE  \/ Char(k) \in Blanks
                 \/ \E c \in a..k : CommentAt(c) /\ \A j \in c..k : Char(j) # "\n"
      <4>1. CASE k < txt
        BY <1>1, <2>3, <2>6, <4>1 DEF Trivia
      <4>2. CASE k = m
        BY <2>3, <4>2 DEF Blanks
      <4>3. CASE txt <= k /\ k # m
        <5>1. txt \in a..k /\ \A j \in txt..k : Char(j) # "\n"
          BY <1>1, <2>3, <2>4, <2>6, <4>3 DEF Trivia
        <5>. QED BY <1>1, <5>1
      <4>. QED BY <1>1, <2>3, <4>1, <4>2, <4>3
    <3>. QED BY <3>1, <3>2, <2>3 DEF Trivia
  <2>. QED BY <1>1, <2>3, <2>5, <2>6, MoveKeeps
<1>. QED BY <1>2, <1>3

LEMMA SymbolKeeps ==
  ASSUME LexInv, LexSymbol
  PROVE  LexInv'
<1>1. /\ lexing = "yes" /\ lexing' = "yes" /\ Char(txt) \in Singles /\ ~CommentAt(txt)
      /\ Len(text) \in Nat /\ txt \in 1..(Len(text) + 1)
  BY OfText DEF LexSymbol, TokenAt, LexInv
<1>2. Char(txt) # NUL /\ Char(txt) \notin Alphanumeric /\ Char(txt) # "quoted"
  BY <1>1, CharactersAssumption DEF Named
<1>3. txt \in 1..Len(text)
  BY <1>2, OfText DEF LexInv
<1>4. CASE IsDouble(txt)
  <2>1. PICK c \in DOMAIN Second : c = Char(txt) /\ Char(txt + 1) = Second[c]
    BY <1>4 DEF IsDouble
  <2>2. c \o Second[c] \in Pairs
    BY DEF Pairs
  <2>3. PICK kind : kind = c \o Second[c]
    OBVIOUS
  <2>4. kind \in Kinds /\ kind # "quoted"
    BY <2>2, <2>3, CharactersAssumption DEF Kinds, Named
  <2>5. txt + 1 \in 1..Len(text)
    BY <2>1, CharactersAssumption, OfText DEF LexInv
  <2>6. Put(Token(kind, txt, 2), txt + 2)
    BY <1>4, <2>1, <2>3 DEF LexSymbol
  <2>7. Token(kind, txt, 2) \in TokenSet
    BY <1>3, <2>4 DEF Token, TokenSet
  <2>8. Begin(Token(kind, txt, 2)) = txt /\ After(Token(kind, txt, 2)) = txt + 2
    BY <1>3, <2>4 DEF Token, Begin, After
  <2>9. WellMatched(Token(kind, txt, 2))
    BY <1>2, <2>4 DEF Token, WellMatched, Extendable
  <2>. QED BY <1>1, <2>5, <2>6, <2>7, <2>8, <2>9, PutKeeps
<1>5. CASE ~IsDouble(txt)
  <2>1. PICK kind : kind = Char(txt)
    OBVIOUS
  <2>2. kind \in Kinds /\ kind # "quoted"
    BY <1>1, <1>2, <2>1 DEF Kinds
  <2>3. Put(Token(kind, txt, 1), txt + 1)
    BY <1>5, <2>1 DEF LexSymbol
  <2>4. Token(kind, txt, 1) \in TokenSet
    BY <1>3, <2>2 DEF Token, TokenSet
  <2>5. Begin(Token(kind, txt, 1)) = txt /\ After(Token(kind, txt, 1)) = txt + 1
    BY <1>3, <2>2 DEF Token, Begin, After
  <2>6. WellMatched(Token(kind, txt, 1))
    BY <1>1, <1>2, <1>5, <2>2 DEF Token, WellMatched, Extendable
  <2>. QED BY <1>1, <1>3, <2>3, <2>4, <2>5, <2>6, PutKeeps
<1>. QED BY <1>4, <1>5

LEMMA StringKeeps ==
  ASSUME LexInv, LexString
  PROVE  LexInv'
<1>1. /\ lexing = "yes" /\ Char(txt) = Quote /\ Len(text) \in Nat /\ txt \in 1..(Len(text) + 1)
  BY OfText DEF LexString, TokenAt, LexInv
<1>2. txt \in 1..Len(text)
  BY <1>1, OfText, CharactersAssumption DEF LexInv
<1>3. CASE StringEnds(txt + 1) = {}
  <2>1. Stop("lost")
    BY <1>3 DEF LexString
  <2>2. \A k \in txt..Len(text) : Char(k) # "\n"
    <3>1. \A k \in (txt + 1)..Len(text) : Char(k) # "\n"
      BY <1>3 DEF StringEnds
    <3>2. Char(txt) # "\n"
      BY <1>1, CharactersAssumption DEF Blanks
    <3>3. ASSUME NEW k \in txt..Len(text), k # txt
          PROVE  k \in (txt + 1)..Len(text)
      BY <1>1, <3>3
    <3>. QED BY <3>1, <3>2, <3>3
  <2>. QED BY <1>1, <2>1, <2>2, StopKeeps
<1>4. CASE StringEnds(txt + 1) # {}
  <2>1. StringEnds(txt + 1) \in SUBSET Nat
    BY <1>2 DEF StringEnds
  <2>2. PICK e \in StringEnds(txt + 1) : e = Min(StringEnds(txt + 1)) /\ \A j \in StringEnds(txt + 1) : e <= j
    BY <1>4, <2>1, Least
  <2>3. e \in (txt + 1)..Len(text)
    BY <2>2 DEF StringEnds
  <2>4. \A j \in (txt + 1)..(e - 1) : Char(j) # "\n"
    BY <1>2, <2>2, <2>3 DEF StringEnds
  <2>5. Put(Quoted(txt, e), e + 1) /\ lexing' = "yes"
    BY <1>1, <1>4, <2>2 DEF LexString
  <2>6. PICK token : token = Quoted(txt, e)
    OBVIOUS
  <2>7. token.kind = "quoted" /\ token.from = txt + 1 /\ token.size = e - (txt + 1)
    BY <2>6 DEF Quoted, Token
  <2>8. token \in TokenSet
    BY <1>2, <2>3, <2>6 DEF Quoted, Token, TokenSet, Kinds, Named
  <2>9. Begin(token) = txt /\ After(token) = e + 1
    BY <1>2, <2>3, <2>7 DEF Begin, After
  <2>10. WellMatched(token)
    <3>1. \A k \in token.from..(token.from + token.size - 1) : k \in (txt + 1)..(e - 1)
      BY <1>2, <2>3, <2>7
    <3>. QED BY <2>4, <2>7, <3>1 DEF WellMatched, Extendable
  <2>. QED BY <1>1, <1>2, <2>3, <2>5, <2>6, <2>8, <2>9, <2>10, PutKeeps
<1>. QED BY <1>3, <1>4

\* A run of characters ends, at the latest with the text.
LEMMA Run ==
  ASSUME text \in Texts, NEW k \in 1..Len(text), NEW chars, NUL \notin chars, Char(k) \in chars
  PROVE  RunEnd(k, chars) \in (k + 1)..(Len(text) + 1) /\ Char(RunEnd(k, chars)) \notin chars
<1>. DEFINE E == {e \in k..(Len(text) + 1) : Char(e) \notin chars}
<1>1. Len(text) \in Nat /\ Char(Len(text) + 1) = NUL
  BY OfText
<1>2. E \in SUBSET Nat /\ Len(text) + 1 \in E
  BY <1>1
<1>3. Min(E) \in E
  BY <1>2, Least
<1>4. RunEnd(k, chars) = Min(E)
  BY DEF RunEnd
<1>5. Min(E) \in k..(Len(text) + 1) /\ Char(Min(E)) \notin chars
  BY <1>3
<1>. QED BY <1>1, <1>4, <1>5

LEMMA NumberKeeps ==
  ASSUME LexInv, LexNumber
  PROVE  LexInv'
<1>1. lexing = "yes" /\ Char(txt) \in Digit /\ text \in Texts /\ Len(text) \in Nat /\ txt \in 1..(Len(text) + 1)
  BY OfText DEF LexNumber, TokenAt, LexInv
<1>2. NUL \notin Digit /\ Digit \subseteq Alphanumeric
  BY CharactersAssumption
<1>3. txt \in 1..Len(text)
  BY <1>1, <1>2, OfText
<1>4. PICK e \in (txt + 1)..(Len(text) + 1) : e = RunEnd(txt, Digit)
  BY <1>1, <1>2, <1>3, Run
<1>5. CASE Char(e) \in Alphanumeric
  <2>1. Stop("failed")
    BY <1>4, <1>5 DEF LexNumber
  <2>. QED BY <1>1, <2>1, StopKeeps
<1>6. CASE Char(e) \notin Alphanumeric
  <2>1. PICK token : token = Token("number", txt, e - txt)
    OBVIOUS
  <2>2. Put(token, e) /\ lexing' = "yes"
    BY <1>1, <1>4, <1>6, <2>1 DEF LexNumber
  <2>3. token.kind = "number" /\ token.from = txt /\ token.size = e - txt
    BY <2>1 DEF Token
  <2>4. token \in TokenSet
    BY <1>3, <1>4, <2>1 DEF Token, TokenSet, Kinds, Named
  <2>5. Begin(token) = txt /\ After(token) = e
    BY <1>3, <1>4, <2>3 DEF Begin, After
  <2>6. WellMatched(token)
    <3>1. Char(txt) \notin Singles
      BY <1>1, <1>2, CharactersAssumption
    <3>. QED BY <1>1, <1>6, <2>3, <2>5, <3>1 DEF WellMatched, Extendable
  <2>. QED BY <1>1, <1>4, <2>2, <2>4, <2>5, <2>6, PutKeeps
<1>. QED BY <1>5, <1>6

\* The perfect hash with its comparison finds the keywords, and nothing else.
LEMMA KeywordsFound ==
  ASSUME NEW word, Len(word) \in Nat
  PROVE  LexIdentifier(word) =
           IF \E h \in DOMAIN Keywords : Keywords[h] = word THEN word ELSE "identifier"
<1>1. ASSUME NEW h \in DOMAIN Keywords, Keywords[h] = word
      PROVE  LexIdentifier(word) = word
  <2>1. Hash(word) = h /\ SubSeq(word, 1, Len(word)) = word
    BY <1>1, KeywordsAssumption
  <2>. QED BY <1>1, <2>1 DEF LexIdentifier
<1>2. ASSUME \A h \in DOMAIN Keywords : Keywords[h] # word
      PROVE  LexIdentifier(word) = "identifier"
  <2>1. SUFFICES ASSUME Hash(word) \in DOMAIN Keywords,
                        Len(word) <= Len(Keywords[Hash(word)]),
                        SubSeq(Keywords[Hash(word)], 1, Len(word)) = word
                 PROVE  FALSE
    BY DEF LexIdentifier
  <2>2. PICK h \in DOMAIN Keywords : h = Hash(word)
    BY <2>1
  <2>3. PICK n \in Nat : n = Len(word)
    OBVIOUS
  <2>4. /\ Len(Keywords[h]) \in Nat /\ SubSeq(Keywords[h], 1, Len(Keywords[h])) = Keywords[h]
        /\ \A k \in 0..Len(Keywords[h]) : Hash(SubSeq(Keywords[h], 1, k)) = h => k = Len(Keywords[h])
    BY KeywordsAssumption
  <2>5. n \in 0..Len(Keywords[h]) /\ SubSeq(Keywords[h], 1, n) = word
    <3>1. n <= Len(Keywords[h]) /\ SubSeq(Keywords[h], 1, n) = word
      BY <2>1, <2>2, <2>3, Zenon
    <3>2. PICK z \in Nat : z = Len(Keywords[h])
      BY <2>4
    <3>. QED BY <3>1, <3>2
  <2>6. Hash(SubSeq(Keywords[h], 1, n)) = h
    BY <2>2, <2>5
  <2>7. n = Len(Keywords[h])
    BY <2>4, <2>5, <2>6
  <2>. QED BY <1>2, <2>4, <2>5, <2>7
<1>. QED BY <1>1, <1>2

LEMMA WordKeeps ==
  ASSUME LexInv, LexWord
  PROVE  LexInv'
<1>1. /\ lexing = "yes" /\ Char(txt) \in Alphanumeric /\ Char(txt) \notin Digit
      /\ text \in Texts /\ Len(text) \in Nat /\ txt \in 1..(Len(text) + 1)
  BY OfText DEF LexWord, TokenAt, LexInv
<1>2. NUL \notin Alphanumeric /\ Char(txt) \notin Singles
  BY <1>1, CharactersAssumption
<1>3. txt \in 1..Len(text)
  BY <1>1, <1>2, OfText
<1>4. PICK e \in (txt + 1)..(Len(text) + 1) : e = RunEnd(txt, Alphanumeric) /\ Char(e) \notin Alphanumeric
  BY <1>1, <1>2, <1>3, Run
<1>5. PICK word : word = SubSeq(text, txt, e - 1)
  OBVIOUS
<1>6. Len(word) \in Nat
  <2>1. e - 1 \in txt..Len(text)
    BY <1>3, <1>4
  <2>. QED BY <1>1, <1>3, <1>5, <2>1, TextsAssumption
<1>7. PICK kind : kind = LexIdentifier(word)
  OBVIOUS
<1>8. kind = IF \E h \in DOMAIN Keywords : Keywords[h] = word THEN word ELSE "identifier"
  BY <1>6, <1>7, KeywordsFound
<1>9. kind \in Kinds /\ kind # "quoted"
  <2>1. \A h \in DOMAIN Keywords : Keywords[h] # "quoted"
    BY KeywordsAssumption DEF Named
  <2>. QED BY <1>8, <2>1 DEF Kinds, Named
<1>10. PICK token : token = Token(kind, txt, e - txt)
  OBVIOUS
<1>11. Put(token, e) /\ lexing' = "yes"
  BY <1>1, <1>4, <1>5, <1>7, <1>10 DEF LexWord
<1>12. token.kind = kind /\ token.from = txt /\ token.size = e - txt
  BY <1>10 DEF Token
<1>13. token \in TokenSet
  BY <1>3, <1>4, <1>9, <1>10 DEF Token, TokenSet
<1>14. Begin(token) = txt /\ After(token) = e
  BY <1>3, <1>4, <1>9, <1>12 DEF Begin, After
<1>15. WellMatched(token)
  <2>1. ~Extendable(token)
    BY <1>2, <1>4, <1>9, <1>12, <1>14 DEF Extendable
  <2>2. SubSeq(text, token.from, After(token) - 1) = word
    BY <1>5, <1>12, <1>14
  <2>. QED BY <1>8, <1>12, <2>1, <2>2 DEF WellMatched
<1>. QED BY <1>1, <1>4, <1>11, <1>13, <1>14, <1>15, PutKeeps

LEMMA EndKeeps ==
  ASSUME LexInv, LexEnd
  PROVE  LexInv'
<1>. DEFINE end == IF s = <<>> THEN Token("EOF", 0, 0) ELSE [Last(s) EXCEPT !.kind = "EOF"]
<1>1. /\ lexing = "yes" /\ lexing' = "done" /\ text' = text /\ txt' = txt
      /\ s' = Append(s, end)
      /\ capacity' = IF Len(s) >= capacity THEN 2 * capacity ELSE capacity
  BY DEF LexEnd, TokenAt, Put, Grown
<1>2. /\ s \in Seq(TokenSet) /\ capacity \in Nat \ {0} /\ Len(s) <= capacity /\ Len(text) \in Nat
      /\ txt \in 1..(Len(text) + 1)
  BY OfText DEF LexInv
<1>3. end \in TokenSet /\ end.kind = "EOF"
  <2>1. s # <<>> => Last(s) \in TokenSet
    BY <1>2, LastAndFront
  <2>2. "EOF" \in Kinds
    BY DEF Kinds, Named
  <2>. QED BY <2>1, <2>2 DEF Token, TokenSet
<1>. HIDE DEF end
<1>4. /\ s' \in Seq(TokenSet) /\ Len(s') = Len(s) + 1 /\ Len(s) \in Nat
      /\ s' # <<>> /\ Last(s') = end /\ Front(s') = s
  BY <1>1, <1>2, <1>3, Appended
<1>5. capacity' \in Nat \ {0} /\ Len(s') <= capacity'
  BY <1>1, <1>2, <1>4
<1>6. Proper = s /\ Proper' = s
  BY <1>1, <1>4 DEF Proper
<1>7. PICK p : p = s
  OBVIOUS
<1>8. PICK z : z = txt
  OBVIOUS
<1>9. Gaps(p, z) /\ \A i \in 1..Len(p) : WellMatched(p[i])
  BY <1>6, <1>7, <1>8, InGaps DEF LexInv
<1>10. Gaps(p, z)' /\ \A i \in 1..Len(p) : WellMatched(p[i])'
  BY <1>1, <1>9, GapsStay, WellMatchedStays
<1>11. TextCovered' /\ LongestMatch'
  BY <1>1, <1>6, <1>7, <1>8, <1>10, InGapsNext
<1>12. txt = Len(text) + 1 \/ (txt = Len(text) /\ Unknown(txt))
  <2>1. CASE Char(txt) = NUL
    BY <1>2, <2>1, OfText DEF LexInv
  <2>2. CASE Unknown(txt) /\ Char(txt + 1) = NUL
    <3>1. Char(txt) # NUL
      BY <2>2 DEF Unknown
    <3>2. txt \in 1..Len(text) /\ txt + 1 \notin 1..Len(text)
      BY <2>2, <3>1, OfText DEF LexInv
    <3>. QED BY <1>2, <2>2, <3>2
  <2>. QED BY <2>1, <2>2 DEF LexEnd
<1>13. Unknown(z)' <=> Unknown(z)
  BY <1>1, TextStays DEF Unknown
<1>14. EndsAtEnd'
  BY <1>1, <1>8, <1>12, <1>13 DEF EndsAtEnd
<1>. QED BY <1>1, <1>3, <1>4, <1>5, <1>11, <1>14 DEF LexInv

LEMMA LexStep ==
  ASSUME LexInv, LexNext
  PROVE  LexInv'
<1>1. CASE LexUnknown
  <2>1. lexing = "yes" /\ Stop("failed")
    BY <1>1 DEF LexUnknown, TokenAt
  <2>. QED BY <2>1, StopKeeps
<1>. QED BY <1>1, BlankKeeps, CommentKeeps, SymbolKeeps, StringKeeps, NumberKeeps, WordKeeps, EndKeeps
         DEF LexNext

LEMMA LexInit ==
  ASSUME Init
  PROVE  LexInv
<1>1. text \in Texts /\ txt = 1 /\ s = <<>> /\ capacity = InitialCapacity /\ lexing = "yes"
  BY DEF Init
<1>2. Len(text) \in Nat
  BY <1>1, OfText
<1>3. s \in Seq(TokenSet) /\ Len(s) = 0
  BY <1>1, EmptySeq
<1>4. Proper = <<>>
  BY <1>1 DEF Proper
<1>5. TextCovered /\ LongestMatch /\ EndsAtEnd
  <2>1. Trivia(1, 1)
    BY DEF Trivia
  <2>2. TextCovered
    BY <1>1, <1>3, <1>4, <2>1 DEF TextCovered
  <2>3. LongestMatch
    BY <1>3, <1>1, <1>4 DEF LongestMatch
  <2>. QED BY <1>1, <2>2, <2>3 DEF EndsAtEnd
<1>. QED BY <1>1, <1>2, <1>3, <1>5, InitialCapacityAssumption DEF LexInv

\* The parser leaves the lexer's variables alone.
LEMMA LexUnchanged ==
  ASSUME LexInv, UNCHANGED lexVars
  PROVE  LexInv'
<1>1. text' = text /\ txt' = txt /\ s' = s /\ capacity' = capacity /\ lexing' = lexing
  BY DEF lexVars
<1>2. Proper' = Proper
  BY <1>1 DEF Proper
<1>3. PICK p : p = Proper
  OBVIOUS
<1>4. PICK z : z = txt
  OBVIOUS
<1>5. Gaps(p, z)' /\ \A i \in 1..Len(p) : WellMatched(p[i])'
  BY <1>1, <1>3, <1>4, InGaps, GapsStay, WellMatchedStays DEF LexInv
<1>6. TextCovered' /\ LongestMatch'
  BY <1>1, <1>2, <1>3, <1>4, <1>5, InGapsNext
<1>7. \A k : /\ Unknown(k)' <=> Unknown(k)
             /\ CommentAt(k)' <=> CommentAt(k)
             /\ Char(k)' = Char(k)
  BY <1>1, TextStays DEF Unknown
<1>8. EndsAtEnd'
  <2>1. (lexing = "lost" => /\ CommentAt(z) \/ Char(z) = Quote
                            /\ \A k \in z..Len(text) : Char(k) # "\n")'
    BY <1>1, <1>4, <1>7 DEF LexInv, EndsAtEnd
  <2>2. (lexing = "done" => z = Len(text) + 1 \/ (z = Len(text) /\ Unknown(z)))'
    BY <1>1, <1>4, <1>7 DEF LexInv, EndsAtEnd
  <2>. QED BY <1>1, <1>4, <2>1, <2>2 DEF EndsAtEnd
<1>. QED BY <1>1, <1>6, <1>8 DEF LexInv

-----------------------------------------------------------------------------
(* The parser's stack and its scopes *)

Places == {"unit", "unit got", "decl", "decl got", "var type", "var end", "params", "param type",
           "param end", "params end", "func type", "func end", "type", "scope", "scope got", "stmt",
           "return", "if", "while", "else?", "body end", "expr stmt", "expr", "assign", "assigned",
           "operator", "right", "unary", "cast", "prefix", "call?", "args", "arg", "call end",
           "primary", "group"}

\* The activations of parse_function_decloration know the declaration's place.
Heads == {"params", "param type", "param end", "params end", "func type", "func end"}

FrameSet == {f \in [at : Places, n : 0..Len(tokens)] : f.at \in Heads => f.n # 0}
PlainFrames == {f \in FrameSet : ~IsScope(f)}

\* The body of ScopesBalanced, for any stack and scopes.
Matched(frames, list) ==
  /\ Len(list) = 1 + Cardinality(Open(frames))
  /\ list[1] = 0
  /\ \A i \in Open(frames) : list[1 + Depth(frames, i)] = frames[i].n

LEMMA OpenFinite ==
  ASSUME NEW q, Len(q) \in Nat
  PROVE  /\ IsFiniteSet(Open(q)) /\ Cardinality(Open(q)) \in Nat
         /\ Open(q) \in SUBSET (1..Len(q))
         /\ \A i : IsFiniteSet({j \in Open(q) : j <= i}) /\ Depth(q, i) \in 0..Cardinality(Open(q))
<1>1. Open(q) \in SUBSET (1..Len(q))
  BY DEF Open
<1>2. IsFiniteSet(1..Len(q))
  BY FS_Interval
<1>3. IsFiniteSet(Open(q)) /\ Cardinality(Open(q)) \in Nat
  BY <1>1, <1>2, FS_Subset, FS_CardinalityType
<1>4. ASSUME NEW i
      PROVE  IsFiniteSet({j \in Open(q) : j <= i}) /\ Depth(q, i) \in 0..Cardinality(Open(q))
  <2>1. {j \in Open(q) : j <= i} \in SUBSET Open(q)
    OBVIOUS
  <2>2. /\ IsFiniteSet({j \in Open(q) : j <= i})
        /\ Cardinality({j \in Open(q) : j <= i}) <= Cardinality(Open(q))
    BY <1>3, <2>1, FS_Subset
  <2>3. Cardinality({j \in Open(q) : j <= i}) \in Nat
    BY <2>2, FS_CardinalityType
  <2>4. PICK d \in Nat, c \in Nat : d = Cardinality({j \in Open(q) : j <= i}) /\ c = Cardinality(Open(q))
    BY <1>3, <2>3
  <2>5. Depth(q, i) = d
    BY <2>4, Zenon DEF Depth
  <2>6. d \in 0..c
    BY <2>2, <2>4
  <2>. QED BY <2>2, <2>4, <2>5, <2>6
<1>. QED BY <1>1, <1>3, <1>4

\* The stack after the innermost activation has become others.
Turned(q, f) == Front(q) \o f

IsTurn(p, q, f, n, m) ==
  /\ p \in Seq(FrameSet) /\ Len(p) = n + m /\ Len(q) = n + 1
  /\ \A i \in 1..n : p[i] = q[i]
  /\ \A i \in (n + 1)..(n + m) : p[i] = f[i - n]

LEMMA TurnedFrames ==
  ASSUME NEW q \in Seq(FrameSet), q # <<>>, NEW f \in Seq(FrameSet),
         NEW n \in Nat, NEW m \in Nat, n = Len(q) - 1, m = Len(f)
  PROVE  IsTurn(Turned(q, f), q, f, n, m)
<1>1. /\ Front(q) \in Seq(FrameSet) /\ Len(Front(q)) = Len(q) - 1 /\ Len(q) \in Nat \ {0}
      /\ \A i \in 1..(Len(q) - 1) : Front(q)[i] = q[i]
  BY LastAndFront
<1>2. PICK r \in Seq(FrameSet) : r = Front(q) /\ Len(r) = n /\ \A i \in 1..n : r[i] = q[i]
  BY <1>1
<1>3. PICK p : p = r \o f
  OBVIOUS
<1>4. /\ p \in Seq(FrameSet) /\ Len(p) = Len(r) + Len(f)
      /\ \A i \in 1..(Len(r) + Len(f)) : p[i] = IF i <= Len(r) THEN r[i] ELSE f[i - Len(r)]
  <2>1. /\ r \o f \in Seq(FrameSet) /\ Len(r \o f) = Len(r) + Len(f)
        /\ \A i \in 1..(Len(r) + Len(f)) : (r \o f)[i] = IF i <= Len(r) THEN r[i] ELSE f[i - Len(r)]
    BY ConcatProperties
  <2>. QED BY <1>3, <2>1
<1>5. /\ p \in Seq(FrameSet) /\ Len(p) = n + m
      /\ \A i \in 1..(n + m) : p[i] = IF i <= n THEN r[i] ELSE f[i - n]
  BY <1>2, <1>4
<1>6. ASSUME NEW i \in 1..n
      PROVE  p[i] = q[i]
  <2>1. i \in 1..(n + m) /\ i <= n
    OBVIOUS
  <2>. QED BY <1>2, <1>5, <2>1
<1>7. ASSUME NEW i \in (n + 1)..(n + m)
      PROVE  p[i] = f[i - n]
  <2>1. i \in 1..(n + m) /\ ~(i <= n)
    OBVIOUS
  <2>. QED BY <1>5, <2>1
<1>8. Turned(q, f) = p
  BY <1>2, <1>3 DEF Turned
<1>9. Len(q) = n + 1
  <2>1. PICK k \in Nat : k = Len(q) /\ n = k - 1
    BY <1>1
  <2>. QED BY <2>1
<1>10. IsTurn(p, q, f, n, m)
  BY <1>5, <1>6, <1>7, <1>9, Zenon DEF IsTurn
<1>. QED BY <1>8, <1>10, Zenon

LEMMA TurnLengths ==
  ASSUME NEW q \in Seq(FrameSet), q # <<>>, NEW f \in Seq(FrameSet)
  PROVE  /\ Len(q) \in Nat \ {0} /\ Len(f) \in Nat
         /\ f # <<>> => Len(f) # 0
<1>1. PICK S : S = FrameSet
  OBVIOUS
<1>2. q \in Seq(S) /\ f \in Seq(S)
  BY <1>1
<1>. QED BY <1>2, EmptySeq, LenProperties

\* The outermost activation stays in parse_translation_unit.
LEMMA TurnPlace ==
  ASSUME NEW q \in Seq(FrameSet), q # <<>>, NEW f \in Seq(FrameSet), NEW X, q[1].at \in X,
         Len(q) = 1 => f # <<>> /\ f[1].at \in X
  PROVE  Turned(q, f) \in Seq(FrameSet) /\ Turned(q, f) # <<>> /\ Turned(q, f)[1].at \in X
<1>1. PICK a \in Nat \ {0} : a = Len(q)
  BY TurnLengths
<1>2. PICK m \in Nat : m = Len(f) /\ (f # <<>> => m # 0)
  BY TurnLengths
<1>3. PICK n \in Nat : n = a - 1
  OBVIOUS
<1>4. PICK p : p = Turned(q, f)
  OBVIOUS
<1>5. IsTurn(p, q, f, n, m)
  BY <1>1, <1>2, <1>3, <1>4, TurnedFrames
<1>6. /\ p \in Seq(FrameSet) /\ Len(p) = n + m
      /\ \A i \in 1..n : p[i] = q[i]
      /\ \A i \in (n + 1)..(n + m) : p[i] = f[i - n]
  BY <1>5 DEF IsTurn
<1>7. CASE n = 0
  <2>0. a = 1
    BY <1>3, <1>7
  <2>1. m # 0 /\ f[1].at \in X
    BY <1>1, <1>2, <2>0
  <2>2. 1 \in (n + 1)..(n + m) /\ 1 - n = 1 /\ n + m # 0
    BY <1>7, <2>1
  <2>3. p[1] = f[1]
    BY <1>6, <2>2
  <2>4. Len(p) # 0
    BY <1>6, <2>2
  <2>. QED BY <1>4, <1>6, <2>1, <2>3, <2>4, EmptySeq
<1>8. CASE n # 0
  <2>1. 1 \in 1..n /\ n + m # 0
    BY <1>8
  <2>2. p[1] = q[1]
    BY <1>6, <2>1
  <2>3. Len(p) # 0
    BY <1>6, <2>1
  <2>. QED BY <1>4, <1>6, <2>2, <2>3, EmptySeq
<1>. QED BY <1>7, <1>8

\* A function that returns.
LEMMA TurnedToNone ==
  ASSUME NEW q \in Seq(FrameSet), q # <<>>
  PROVE  Front(q) = Turned(q, <<>>) /\ <<>> \in Seq(FrameSet)
<1>1. PICK S : S = FrameSet /\ q \in Seq(S)
  OBVIOUS
<1>2. PICK r \in Seq(S) : r = Front(q)
  BY <1>1, LastAndFront
<1>3. r \o <<>> = r
  BY <1>2, ConcatEmptySeq
<1>. QED BY <1>2, <1>3, EmptySeq DEF Turned

\* What leaves the places of the scopes alone leaves the match alone.
LEMMA MatchedStays ==
  ASSUME NEW q, NEW p, NEW list, Matched(q, list), Open(p) = Open(q),
         \A i \in Open(q) : p[i].n = q[i].n
  PROVE  Matched(p, list)
BY DEF Matched, Depth

\* A function that is no parse_scope_stmt calls others, goes on or returns.
LEMMA PlainTurn ==
  ASSUME NEW q \in Seq(FrameSet), q # <<>>, ~IsScope(Last(q)), NEW f \in Seq(PlainFrames),
         NEW list, Matched(q, list)
  PROVE  Matched(Turned(q, f), list)
<1>1. f \in Seq(FrameSet)
  <2>1. PlainFrames \subseteq FrameSet
    BY DEF PlainFrames
  <2>. QED BY <2>1, SeqMonotonic
<1>2. PICK n \in Nat, m \in Nat : n = Len(q) - 1 /\ m = Len(f) /\ Len(q) = n + 1
  BY EmptySeq
<1>3. PICK p : p = Turned(q, f)
  OBVIOUS
<1>4. /\ p \in Seq(FrameSet) /\ Len(p) = n + m
      /\ \A i \in 1..n : p[i] = q[i]
      /\ \A i \in (n + 1)..(n + m) : p[i] = f[i - n]
  <2>1. IsTurn(Turned(q, f), q, f, n, m)
    BY <1>1, <1>2, <1>3, TurnedFrames
  <2>. QED BY <1>1, <1>2, <1>3, <2>1 DEF IsTurn
<1>5. \A i \in 1..m : ~IsScope(f[i])
  BY <1>2, ElementOfSeq DEF PlainFrames
<1>6. ~IsScope(q[n + 1])
  BY <1>2 DEF Last
<1>7. ASSUME NEW i \in Open(p)
      PROVE  i \in Open(q)
  <2>1. i \in 1..(n + m) /\ IsScope(p[i])
    BY <1>4 DEF Open
  <2>2. CASE i <= n
    <3>1. i \in 1..Len(q) /\ q[i] = p[i]
      BY <1>2, <1>4, <2>1, <2>2
    <3>. QED BY <2>1, <3>1 DEF Open
  <2>3. CASE ~(i <= n)
    <3>1. i - n \in 1..m /\ i = n + (i - n)
      BY <2>1, <2>3
    <3>. QED BY <1>4, <1>5, <2>1, <3>1
  <2>. QED BY <2>2, <2>3
<1>8. ASSUME NEW i \in Open(q)
      PROVE  i \in Open(p) /\ p[i] = q[i]
  <2>1. i \in 1..(n + 1) /\ IsScope(q[i])
    BY <1>2 DEF Open
  <2>2. i \in 1..n /\ i \in 1..(n + m)
    BY <1>6, <2>1
  <2>. QED BY <1>4, <2>1, <2>2 DEF Open
<1>9. Open(p) = Open(q)
  BY <1>7, <1>8
<1>. QED BY <1>3, <1>8, <1>9, MatchedStays

\* parse_scope_stmt goes on.
LEMMA ScopeTurn ==
  ASSUME NEW q \in Seq(FrameSet), q # <<>>, IsScope(Last(q)), NEW f \in Seq(FrameSet),
         NEW m \in Nat \ {0}, m = Len(f), IsScope(f[1]), f[1].n = Last(q).n,
         \A i \in 2..m : ~IsScope(f[i]), NEW list, Matched(q, list)
  PROVE  Matched(Turned(q, f), list)
<1>1. PICK n \in Nat : n = Len(q) - 1 /\ Len(q) = n + 1
  BY EmptySeq
<1>2. PICK p : p = Turned(q, f)
  OBVIOUS
<1>3. /\ p \in Seq(FrameSet) /\ Len(p) = n + m
      /\ \A i \in 1..n : p[i] = q[i]
      /\ \A i \in (n + 1)..(n + m) : p[i] = f[i - n]
  <2>1. IsTurn(Turned(q, f), q, f, n, m)
    BY <1>1, <1>2, TurnedFrames
  <2>. QED BY <1>1, <1>2, <2>1 DEF IsTurn
<1>4. IsScope(q[n + 1]) /\ f[1].n = q[n + 1].n
  BY <1>1 DEF Last
<1>5. p[n + 1] = f[1]
  BY <1>3
<1>6. ASSUME NEW i \in Open(p)
      PROVE  i \in Open(q)
  <2>1. i \in 1..(n + m) /\ IsScope(p[i])
    BY <1>3 DEF Open
  <2>2. CASE i <= n
    <3>1. i \in 1..Len(q) /\ q[i] = p[i]
      BY <1>1, <1>3, <2>1, <2>2
    <3>. QED BY <2>1, <3>1 DEF Open
  <2>3. CASE i = n + 1
    <3>1. n + 1 \in 1..Len(q)
      BY <1>1
    <3>. QED BY <1>4, <2>3, <3>1 DEF Open
  <2>4. CASE i > n + 1
    <3>1. PICK k \in 2..m : k = i - n
      BY <2>1, <2>4
    <3>2. i \in (n + 1)..(n + m)
      BY <2>1, <2>4
    <3>3. p[i] = f[k]
      BY <1>3, <3>1, <3>2
    <3>. QED BY <2>1, <3>1, <3>3
  <2>. QED BY <2>1, <2>2, <2>3, <2>4
<1>7. ASSUME NEW i \in Open(q)
      PROVE  i \in Open(p) /\ p[i].n = q[i].n
  <2>1. i \in 1..(n + 1) /\ IsScope(q[i])
    BY <1>1 DEF Open
  <2>2. i \in 1..(n + m)
    BY <2>1
  <2>3. CASE i \in 1..n
    BY <1>3, <2>1, <2>2, <2>3 DEF Open
  <2>4. CASE i = n + 1
    <3>1. i \in 1..Len(p) /\ IsScope(p[i]) /\ p[i].n = q[i].n
      BY <1>3, <1>4, <1>5, <2>2, <2>4
    <3>. QED BY <3>1 DEF Open
  <2>. QED BY <2>1, <2>3, <2>4
<1>8. Open(p) = Open(q)
  BY <1>6, <1>7
<1>. QED BY <1>2, <1>7, <1>8, MatchedStays

\* A function calls parse_scope_stmt, which pushes its scope.
LEMMA ScopePush ==
  ASSUME NEW q \in Seq(FrameSet), q # <<>>, ~IsScope(Last(q)), NEW f \in Seq(FrameSet),
         NEW m \in Nat \ {0}, m = Len(f), IsScope(f[m]),
         \A i \in 1..(m - 1) : ~IsScope(f[i]),
         NEW S, NEW list \in Seq(S), NEW k \in S, k = f[m].n, Matched(q, list)
  PROVE  Matched(Turned(q, f), Append(list, k))
<1>1. PICK n \in Nat : n = Len(q) - 1 /\ Len(q) = n + 1
  BY EmptySeq
<1>2. PICK p : p = Turned(q, f)
  OBVIOUS
<1>3. /\ p \in Seq(FrameSet) /\ Len(p) = n + m
      /\ \A i \in 1..n : p[i] = q[i]
      /\ \A i \in (n + 1)..(n + m) : p[i] = f[i - n]
  <2>1. IsTurn(Turned(q, f), q, f, n, m)
    BY <1>1, <1>2, TurnedFrames
  <2>. QED BY <1>1, <1>2, <2>1 DEF IsTurn
<1>4. PICK t \in Nat : t = n + m /\ n < t /\ p[t] = f[m] /\ t \in 1..Len(p)
  BY <1>3
<1>5. ~IsScope(q[n + 1])
  BY <1>1 DEF Last
<1>6. ASSUME NEW i \in Open(p)
      PROVE  i \in Open(q) \/ i = t
  <2>1. i \in 1..(n + m) /\ IsScope(p[i])
    BY <1>3 DEF Open
  <2>2. CASE i <= n
    <3>1. i \in 1..Len(q) /\ q[i] = p[i]
      BY <1>1, <1>3, <2>1, <2>2
    <3>. QED BY <2>1, <3>1 DEF Open
  <2>3. CASE n < i /\ i < t
    <3>1. PICK j \in 1..(m - 1) : i = n + j
      <4>1. i - n \in 1..(m - 1) /\ i = n + (i - n)
        BY <1>4, <2>1, <2>3
      <4>. QED BY <4>1
    <3>2. p[n + j] = f[j]
      BY <1>3
    <3>. QED BY <2>1, <3>1, <3>2
  <2>. QED BY <1>4, <2>1, <2>2, <2>3
<1>7. ASSUME NEW i \in Open(q)
      PROVE  i \in Open(p) /\ p[i] = q[i] /\ i \in 1..n
  <2>1. i \in 1..(n + 1) /\ IsScope(q[i])
    BY <1>1 DEF Open
  <2>2. i \in 1..n /\ i \in 1..(n + m)
    BY <1>5, <2>1
  <2>. QED BY <1>3, <2>1, <2>2 DEF Open
<1>8. t \in Open(p)
  BY <1>4 DEF Open
<1>9. Open(p) = Open(q) \union {t} /\ t \notin Open(q)
  <2>1. t \notin 1..n
    BY <1>4
  <2>2. t \notin Open(q)
    BY <1>7, <2>1
  <2>3. Open(p) = Open(q) \union {t}
    BY <1>6, <1>7, <1>8
  <2>. QED BY <2>2, <2>3
<1>10. /\ IsFiniteSet(Open(q)) /\ Cardinality(Open(q)) \in Nat
       /\ \A i : Depth(q, i) \in 0..Cardinality(Open(q))
  <2>1. Len(q) \in Nat
    BY <1>1
  <2>. QED BY <2>1, OpenFinite
<1>11. PICK c \in Nat : c = Cardinality(Open(q)) /\ Cardinality(Open(p)) = c + 1
  <2>1. PICK c \in Nat : c = Cardinality(Open(q))
    BY <1>10
  <2>2. Cardinality(Open(q) \union {t}) = Cardinality(Open(q)) + 1
    BY <1>9, <1>10, FS_AddElement
  <2>. QED BY <1>9, <2>1, <2>2
<1>12. \A i \in Open(q) : Depth(p, i) = Depth(q, i)
  <2>1. \A i \in Open(q) : {j \in Open(p) : j <= i} = {j \in Open(q) : j <= i}
    BY <1>4, <1>7, <1>9
  <2>. QED BY <2>1 DEF Depth
<1>13. Depth(p, t) = c + 1
  <2>1. \A j \in Open(p) : j <= t
    BY <1>4, <1>7, <1>9
  <2>2. {j \in Open(p) : j <= t} = Open(p)
    BY <2>1
  <2>. QED BY <1>11, <2>2 DEF Depth
<1>14. PICK l : l = Append(list, k)
  OBVIOUS
<1>15. Len(list) = c + 1 /\ list[1] = 0 /\ \A i \in Open(q) : list[1 + Depth(q, i)] = q[i].n
  BY <1>11 DEF Matched
<1>16. Len(l) = c + 2 /\ \A i \in 1..(c + 2) : l[i] = IF i <= c + 1 THEN list[i] ELSE k
  <2>1. /\ Len(Append(list, k)) = Len(list) + 1
        /\ \A i \in 1..(Len(list) + 1) : Append(list, k)[i] = IF i <= Len(list) THEN list[i] ELSE k
    OBVIOUS
  <2>. QED BY <1>14, <1>15, <2>1
<1>17. ASSUME NEW i \in Open(p)
       PROVE  l[1 + Depth(p, i)] = p[i].n
  <2>1. CASE i \in Open(q)
    <3>1. PICK d \in 0..c : d = Depth(q, i) /\ d = Depth(p, i)
      BY <1>10, <1>11, <1>12, <2>1
    <3>2. l[1 + d] = list[1 + d]
      <4>1. PICK k1 \in 1..(c + 2) : k1 = 1 + d /\ k1 <= c + 1
        BY <3>1
      <4>. QED BY <1>16, <4>1
    <3>. QED BY <1>7, <1>15, <2>1, <3>1, <3>2
  <2>2. CASE i = t
    BY <1>4, <1>13, <1>16, <2>2
  <2>. QED BY <1>6, <2>1, <2>2
<1>18. l[1] = 0
  BY <1>15, <1>16
<1>19. Len(l) = 1 + Cardinality(Open(p))
  BY <1>11, <1>16
<1>. QED BY <1>2, <1>14, <1>17, <1>18, <1>19 DEF Matched

\* parse_scope_stmt pops its scope and returns.
LEMMA ScopePop ==
  ASSUME NEW q \in Seq(FrameSet), q # <<>>, IsScope(Last(q)),
         NEW S, NEW list \in Seq(S), Matched(q, list)
  PROVE  Matched(Turned(q, <<>>), Front(list)) /\ Len(list) \in Nat /\ Len(list) > 1
<1>1. PICK n \in Nat : n = Len(q) - 1 /\ Len(q) = n + 1
  BY EmptySeq
<1>2. PICK p : p = Turned(q, <<>>)
  OBVIOUS
<1>3. Len(p) = n /\ \A i \in 1..n : p[i] = q[i]
  <2>1. <<>> \in Seq(FrameSet) /\ Len(<<>>) = 0
    BY EmptySeq
  <2>2. IsTurn(Turned(q, <<>>), q, <<>>, n, 0)
    BY <1>1, <2>1, TurnedFrames
  <2>. QED BY <1>2, <2>2 DEF IsTurn
<1>4. n + 1 \in Open(q)
  BY <1>1 DEF Last, Open
<1>5. \A i \in Open(p) : i \in Open(q) /\ i \in 1..n
  <2>1. \A i \in Open(p) : i \in 1..n /\ IsScope(p[i])
    BY <1>3 DEF Open
  <2>2. \A i \in Open(p) : i \in 1..Len(q) /\ IsScope(q[i])
    BY <1>1, <1>3, <2>1
  <2>. QED BY <2>1, <2>2 DEF Open
<1>6. \A i \in Open(q) : i \in Open(p) \/ i = n + 1
  <2>1. \A i \in Open(q) : i \in 1..(n + 1) /\ IsScope(q[i])
    BY <1>1 DEF Open
  <2>2. \A i \in Open(q) : i # n + 1 => i \in 1..n /\ IsScope(p[i])
    BY <1>3, <2>1
  <2>. QED BY <1>3, <2>2 DEF Open
<1>7. Open(q) = Open(p) \union {n + 1} /\ n + 1 \notin Open(p)
  BY <1>4, <1>5, <1>6
<1>8. /\ IsFiniteSet(Open(p)) /\ Cardinality(Open(p)) \in Nat
      /\ \A i : Depth(p, i) \in 0..Cardinality(Open(p))
  BY <1>3, OpenFinite
<1>9. PICK c \in Nat : c = Cardinality(Open(p)) /\ Cardinality(Open(q)) = c + 1
  <2>1. PICK c \in Nat : c = Cardinality(Open(p))
    BY <1>8
  <2>2. Cardinality(Open(p) \union {n + 1}) = Cardinality(Open(p)) + 1
    BY <1>7, <1>8, FS_AddElement
  <2>. QED BY <1>7, <2>1, <2>2
<1>10. \A i \in Open(p) : Depth(p, i) = Depth(q, i)
  <2>1. \A i \in Open(p) : {j \in Open(p) : j <= i} = {j \in Open(q) : j <= i}
    BY <1>5, <1>7
  <2>. QED BY <2>1 DEF Depth
<1>11. Len(list) = c + 2 /\ list[1] = 0 /\ \A i \in Open(q) : list[1 + Depth(q, i)] = q[i].n
  BY <1>9 DEF Matched
<1>12. PICK l : l = Front(list)
  OBVIOUS
<1>13. Len(l) = c + 1 /\ \A i \in 1..(c + 1) : l[i] = list[i]
  <2>1. list # <<>>
    BY <1>11, EmptySeq
  <2>2. Len(Front(list)) = Len(list) - 1 /\ \A i \in 1..(Len(list) - 1) : Front(list)[i] = list[i]
    BY <2>1, LastAndFront
  <2>. QED BY <1>11, <1>12, <2>2
<1>14. ASSUME NEW i \in Open(p)
       PROVE  l[1 + Depth(p, i)] = p[i].n
  <2>1. PICK d \in 0..c : d = Depth(p, i) /\ d = Depth(q, i)
    BY <1>8, <1>9, <1>10
  <2>2. l[1 + d] = list[1 + d]
    BY <1>13
  <2>3. p[i] = q[i] /\ i \in Open(q)
    BY <1>3, <1>5
  <2>. QED BY <1>11, <2>1, <2>2, <2>3
<1>15. l[1] = 0
  BY <1>11, <1>13
<1>16. Len(l) = 1 + Cardinality(Open(p))
  BY <1>9, <1>13
<1>17. Matched(p, l)
  BY <1>14, <1>15, <1>16 DEF Matched
<1>. QED BY <1>2, <1>11, <1>12, <1>17

-----------------------------------------------------------------------------
(* The parser *)

Answers == {None, NULL, "type", "lvar", "expr", "statement", "scope"} \union Declarations
Entries == [decl : 1..Len(tokens), scope : 0..Len(tokens), home : 0..Len(tokens)]

\* The stream that is left ends with "EOF".
StreamOK == Len(tokens) \in Nat \ {0} /\ AtEnd(Len(tokens))

\* Stack and scopes, and what may be instead at the end of the stream.
EndReported == AtEnd(current) /\ errors
InStep == Matched(stack, scopes) \/ EndReported

ParseInv ==
  /\ current \in 1..Len(tokens)
  /\ stack \in Seq(FrameSet)
  /\ ret \in Answers
  /\ scopes \in Seq(0..Len(tokens)) /\ scopes # <<>>
  /\ symbols \in SUBSET Entries
  /\ errors \in BOOLEAN /\ holes \in BOOLEAN
  /\ parsing \in {"yes", "done", "crashed"}
  /\ parsing = "yes" => /\ stack # <<>> /\ stack[1].at \in {"unit", "unit got"}
                        /\ InStep
  /\ \A f \in symbols : f.scope = f.home \/ EndReported

\* The inductive invariant of lexer and parser.
IInv ==
  /\ LexInv
  /\ lexing # "done" => parsing = "no"
  /\ parsing = "no" => ParseInit
  /\ parsing # "no" => ParseInv

LEMMA Forward ==
  ASSUME StreamOK, NEW k \in 1..Len(tokens), tokens[k] # "EOF"
  PROVE  k + 1 \in 1..Len(tokens)
BY DEF StreamOK, AtEnd

LEMMA ConsumedIn ==
  ASSUME StreamOK, NEW k \in 1..Len(tokens), NEW kind, kind # "EOF"
  PROVE  Consumed(k, kind) \in 1..Len(tokens) /\ (AtEnd(k) => Consumed(k, kind) = k)
BY Forward DEF Consumed, AtEnd

LEMMA AdvancedIn ==
  ASSUME StreamOK, NEW k \in 1..Len(tokens)
  PROVE  Advanced(k) \in k..Len(tokens) /\ (AtEnd(k) => Advanced(k) = k)
<1>1. CASE AtEnd(k)
  BY <1>1 DEF Advanced
<1>2. CASE ~AtEnd(k)
  <2>1. k + 1 \in 1..Len(tokens)
    BY <1>2, Forward DEF AtEnd
  <2>. QED BY <1>2, <2>1 DEF Advanced, StreamOK
<1>. QED BY <1>1, <1>2

LEMMA SynchronisedIn ==
  ASSUME StreamOK, NEW k \in 1..Len(tokens)
  PROVE  Synchronised(k) \in 1..Len(tokens) /\ (AtEnd(k) => Synchronised(k) = k)
<1>1. PICK N \in Nat, a \in Nat : N = Len(tokens) /\ a = Advanced(k) /\ a \in k..N /\ (AtEnd(k) => a = k)
  BY AdvancedIn DEF StreamOK
<1>2. AtEnd(N) /\ k \in 1..N
  BY <1>1 DEF StreamOK
<1>. DEFINE Good(j) == AtEnd(j) \/ tokens[j - 1] = ";" \/ tokens[j] \in Resume
            J == {j \in a..N : Good(j)}
<1>3. Synchronised(k) = Min(J)
  BY <1>1 DEF Synchronised
<1>4. Good(N) /\ (AtEnd(k) => Good(k))
  BY <1>2
<1>. HIDE DEF Good
<1>5. N \in J /\ J \in SUBSET Nat
  BY <1>1, <1>2, <1>4
<1>6. Min(J) \in J /\ \A j \in J : Min(J) <= j
  BY <1>5, Least
<1>7. Min(J) \in a..N
  BY <1>6
<1>8. ASSUME AtEnd(k)
      PROVE  Min(J) = k
  <2>1. k \in J
    BY <1>1, <1>2, <1>4, <1>8
  <2>2. Min(J) <= k
    BY <1>6, <2>1
  <2>. QED BY <1>1, <1>7, <1>8, <2>2
<1>. QED BY <1>1, <1>2, <1>3, <1>7, <1>8

LEMMA RecoveredIn ==
  ASSUME StreamOK, current \in 1..Len(tokens)
  PROVE  Recovered \in 1..Len(tokens) /\ (AtEnd(current) => Recovered = current)
<1>1. CASE Tok = ";"
  <2>1. tokens[current] # "EOF"
    BY <1>1 DEF Tok
  <2>. QED BY <1>1, <2>1, Forward DEF Recovered, Tok, AtEnd
<1>2. CASE Tok \in Punctuation \ {";"}
  <2>1. Recovered = Synchronised(current)
    BY <1>2 DEF Recovered
  <2>. QED BY <2>1, SynchronisedIn
<1>3. CASE Tok \notin Punctuation /\ Tok # ";"
  <2>1. Recovered = current
    BY <1>3 DEF Recovered
  <2>. QED BY <2>1
<1>. QED BY <1>1, <1>2, <1>3

-----------------------------------------------------------------------------
(* Steps of the parser *)

Ready == ParseInv /\ StreamOK /\ tokens' = tokens /\ parsing = "yes"

\* The parser never leaves the end of the stream, nor forgets an error.
Moved == current' \in 1..Len(tokens) /\ (AtEnd(current) => current' = current)
Told == /\ errors' \in BOOLEAN /\ (errors => errors')
        /\ holes' \in BOOLEAN
        /\ ret' \in Answers

LEMMA EndStays ==
  ASSUME Ready, Moved, Told
  PROVE  EndReported => EndReported'
BY DEF Ready, Moved, Told, EndReported, AtEnd

LEMMA SetsStay ==
  ASSUME tokens' = tokens
  PROVE  FrameSet' = FrameSet /\ Entries' = Entries
BY DEF FrameSet, Entries

\* An activation becomes others, and the scopes follow.
LEMMA TurnKeeps ==
  ASSUME Ready, Moved, Told, parsing' = "yes",
         NEW f \in Seq(FrameSet), stack' = Turned(stack, f),
         Len(stack) = 1 => f # <<>> /\ f[1].at \in {"unit", "unit got"},
         scopes' \in Seq(0..Len(tokens)), scopes' # <<>>,
         symbols' \in SUBSET Entries,
         \A e \in symbols' : e \in symbols \/ e.scope = e.home \/ EndReported',
         Matched(stack, scopes) => Matched(Turned(stack, f), scopes') \/ EndReported'
  PROVE  ParseInv'
<1>1. stack \in Seq(FrameSet) /\ stack # <<>> /\ stack[1].at \in {"unit", "unit got"} /\ InStep
  BY DEF Ready, ParseInv
<1>3. PICK p : p = Turned(stack, f)
  OBVIOUS
<1>5. p \in Seq(FrameSet) /\ p # <<>> /\ p[1].at \in {"unit", "unit got"}
  BY <1>1, <1>3, TurnPlace
<1>7. Matched(p, scopes') \/ EndReported'
  BY <1>1, <1>3, EndStays DEF InStep
<1>8. stack' = p
  BY <1>3
<1>9. InStep'
  <2>1. Matched(p, scopes') => Matched(stack, scopes)'
    BY <1>8 DEF Matched, Depth, Open, IsScope
  <2>. QED BY <1>7, <2>1 DEF InStep
<1>10. \A e \in symbols' : e.scope = e.home \/ EndReported'
  BY EndStays DEF Ready, ParseInv
<1>11. tokens' = tokens
  BY DEF Ready
<1>. QED BY <1>5, <1>8, <1>9, <1>10, <1>11, SetsStay DEF ParseInv, Moved, Told, Answers, Declarations, None, NULL

\* What is called, and gone on with, is no scope.
Turns == \E f \in Seq(PlainFrames) : stack' = Turned(stack, f)

LEMMA PlainKeeps ==
  ASSUME Ready, Moved, Told, Same, Turns,
         NEW place, At(place), place \notin {"unit", "unit got", "scope", "scope got"}
  PROVE  ParseInv'
<1>. PICK f \in Seq(PlainFrames) : stack' = Turned(stack, f)
  BY DEF Turns
<1>1. /\ stack \in Seq(FrameSet) /\ stack # <<>> /\ stack[1].at \in {"unit", "unit got"}
      /\ scopes \in Seq(0..Len(tokens)) /\ scopes # <<>> /\ symbols \in SUBSET Entries
  BY DEF Ready, ParseInv
<1>2. scopes' = scopes /\ symbols' = symbols /\ parsing' = "yes"
  BY DEF Same, Ready
<1>3. f \in Seq(FrameSet)
  <2>1. PlainFrames \subseteq FrameSet
    BY DEF PlainFrames
  <2>. QED BY <2>1, SeqMonotonic
<1>4. Len(stack) # 1
  BY <1>1 DEF At, Last
<1>5. ~IsScope(Last(stack))
  BY DEF At, IsScope
<1>6. Matched(stack, scopes) => Matched(Turned(stack, f), scopes')
  BY <1>1, <1>2, <1>5, PlainTurn
<1>. QED BY <1>1, <1>2, <1>3, <1>4, <1>6, TurnKeeps

LEMMA Within == \A N \in Nat : \A k \in 1..N : k \in 0..N
OBVIOUS

LEMMA ZeroIn == \A N \in Nat : 0 \in 0..N
OBVIOUS

LEMMA FixedFrame ==
  ASSUME StreamOK, NEW place \in Places \ (Heads \union {"scope", "scope got"})
  PROVE  Frame(place, 0) \in PlainFrames
<1>1. 0 \in 0..Len(tokens)
  <2>1. Len(tokens) \in Nat
    BY DEF StreamOK
  <2>. QED BY <2>1, ZeroIn, Zenon
<1>2. Frame(place, 0) \in [at : Places, n : 0..Len(tokens)]
  BY <1>1 DEF Frame
<1>3. Frame(place, 0).at = place
  BY DEF Frame
<1>. QED BY <1>2, <1>3 DEF PlainFrames, FrameSet, IsScope

LEMMA LastFrame ==
  ASSUME Ready
  PROVE  stack \in Seq(FrameSet) /\ stack # <<>> /\ Last(stack) \in FrameSet
<1>1. stack \in Seq(FrameSet) /\ stack # <<>>
  BY DEF Ready, ParseInv
<1>. QED BY <1>1, LastAndFront

LEMMA HeadFrame ==
  ASSUME Ready, NEW k \in 1..Len(tokens), NEW place \in Heads
  PROVE  Frame(place, k) \in PlainFrames
<1>0. k \in 0..Len(tokens) /\ k # 0
  <2>1. Len(tokens) \in Nat
    BY DEF Ready, StreamOK
  <2>2. PICK N \in Nat : N = Len(tokens)
    BY <2>1
  <2>. QED BY <2>2
<1>1. /\ Frame(place, k) \in [at : Places, n : 0..Len(tokens)]
      /\ Frame(place, k).at = place /\ Frame(place, k).n = k /\ k # 0
  BY <1>0 DEF Heads, Places, Frame
<1>2. ~IsScope(Frame(place, k))
  BY <1>1 DEF IsScope, Heads
<1>. QED BY <1>1, <1>2 DEF PlainFrames, FrameSet

LEMMA HereHead ==
  ASSUME Ready, NEW place \in Heads, At(place), NEW to \in Heads
  PROVE  Here(to) \in PlainFrames
<1>1. Last(stack) \in FrameSet /\ Last(stack).at \in Heads
  BY LastFrame DEF At
<1>2. PICK k \in 1..Len(tokens) : k = Last(stack).n
  <2>1. Last(stack).n \in 0..Len(tokens) /\ Last(stack).n # 0
    BY <1>1 DEF FrameSet
  <2>2. Len(tokens) \in Nat
    BY DEF Ready, StreamOK
  <2>. QED BY <2>1, <2>2
<1>. QED BY <1>2, HeadFrame DEF Here

LEMMA HereOther ==
  ASSUME Ready, NEW to \in Places \ (Heads \union {"scope", "scope got"})
  PROVE  Here(to) \in PlainFrames
<1>1. PICK k \in 0..Len(tokens) : k = Last(stack).n
  BY LastFrame DEF FrameSet
<1>2. Frame(to, k) \in [at : Places, n : 0..Len(tokens)]
  BY <1>1 DEF Frame
<1>3. Frame(to, k).at = to
  BY DEF Frame
<1>. QED BY <1>1, <1>2, <1>3 DEF PlainFrames, FrameSet, IsScope, Here

LEMMA CallsOne ==
  ASSUME NEW x \in PlainFrames, Call(<<x>>)
  PROVE  Turns
<1>1. <<x>> \in Seq(PlainFrames)
  OBVIOUS
<1>. QED BY <1>1 DEF Turns, Turned, Call

LEMMA CallsTwo ==
  ASSUME NEW x \in PlainFrames, NEW y \in PlainFrames, Call(<<x, y>>)
  PROVE  Turns
<1>1. <<x, y>> \in Seq(PlainFrames)
  OBVIOUS
<1>. QED BY <1>1 DEF Turns, Turned, Call

LEMMA CallsThree ==
  ASSUME NEW x \in PlainFrames, NEW y \in PlainFrames, NEW z \in PlainFrames, Call(<<x, y, z>>)
  PROVE  Turns
<1>1. <<x, y, z>> \in Seq(PlainFrames)
  OBVIOUS
<1>. QED BY <1>1 DEF Turns, Turned, Call

LEMMA Returns ==
  ASSUME Ready, NEW value, Return(value)
  PROVE  Turns /\ ret' = value
<1>1. stack \in Seq(FrameSet) /\ stack # <<>>
  BY LastFrame
<1>2. Front(stack) = Turned(stack, <<>>)
  BY <1>1, TurnedToNone
<1>3. <<>> \in Seq(PlainFrames)
  OBVIOUS
<1>. QED BY <1>2, <1>3 DEF Turns, Return

\* What a step does with the place, the errors, the holes and the answer.
ErrorsKept == errors' \in BOOLEAN /\ (errors => errors')

LEMMA Reported ==
  ASSUME Ready, \/ UNCHANGED errors
                \/ \E w : Report(w)
  PROVE  ErrorsKept
<1>1. errors \in BOOLEAN
  BY DEF Ready, ParseInv
<1>2. CASE UNCHANGED errors
  BY <1>1, <1>2, Zenon DEF ErrorsKept
<1>3. ASSUME NEW w, Report(w)
      PROVE  ErrorsKept
  BY <1>1, <1>3, Zenon DEF ErrorsKept, Report
<1>. QED BY <1>2, <1>3

LEMMA Tells ==
  ASSUME Ready, ErrorsKept, Hole \/ UNCHANGED holes, ret' \in Answers \/ UNCHANGED ret
  PROVE  Told
<1>1. holes \in BOOLEAN /\ ret \in Answers
  BY DEF Ready, ParseInv
<1>2. holes' \in BOOLEAN
  BY <1>1, Zenon DEF Hole
<1>3. ret' \in Answers
  BY <1>1
<1>. QED BY <1>2, <1>3, Zenon DEF Told, ErrorsKept

LEMMA Stays ==
  ASSUME Ready, UNCHANGED current
  PROVE  Moved
BY DEF Ready, ParseInv, Moved

LEMMA Steps ==
  ASSUME Ready, Tok # "EOF", Go(current + 1)
  PROVE  Moved
<1>1. current \in 1..Len(tokens) /\ tokens[current] # "EOF" /\ StreamOK
  BY DEF Ready, ParseInv, Tok
<1>2. current + 1 \in 1..Len(tokens)
  BY <1>1, Forward
<1>. QED BY <1>1, <1>2 DEF Moved, Go, AtEnd

LEMMA StepsAndConsumes ==
  ASSUME Ready, Tok # "EOF", NEW kind, kind # "EOF", Go(Consumed(current + 1, kind))
  PROVE  Moved
<1>1. current \in 1..Len(tokens) /\ tokens[current] # "EOF" /\ StreamOK
  BY DEF Ready, ParseInv, Tok
<1>2. current + 1 \in 1..Len(tokens)
  BY <1>1, Forward
<1>3. Consumed(current + 1, kind) \in 1..Len(tokens)
  BY <1>1, <1>2, ConsumedIn
<1>. QED BY <1>1, <1>3 DEF Moved, Go, AtEnd

LEMMA Consumes ==
  ASSUME Ready, NEW kind, kind # "EOF", Go(Consumed(current, kind))
  PROVE  Moved
<1>1. current \in 1..Len(tokens) /\ StreamOK
  BY DEF Ready, ParseInv
<1>. QED BY <1>1, ConsumedIn DEF Moved, Go

LEMMA Advances ==
  ASSUME Ready, Go(Advanced(current))
  PROVE  Moved
<1>1. current \in 1..Len(tokens) /\ StreamOK
  BY DEF Ready, ParseInv
<1>2. Advanced(current) \in current..Len(tokens) /\ (AtEnd(current) => Advanced(current) = current)
  BY <1>1, AdvancedIn
<1>3. Advanced(current) \in 1..Len(tokens)
  BY <1>1, <1>2 DEF StreamOK
<1>. QED BY <1>2, <1>3 DEF Moved, Go

LEMMA TwoOn ==
  ASSUME StreamOK, NEW k \in 1..Len(tokens), tokens[k] # "EOF", tokens[k + 1] # "EOF"
  PROVE  k + 2 \in 1..Len(tokens) /\ ~AtEnd(k)
<1>1. k + 1 \in 1..Len(tokens)
  BY Forward
<1>2. (k + 1) + 1 \in 1..Len(tokens)
  BY <1>1, Forward
<1>3. (k + 1) + 1 = k + 2
  BY <1>1
<1>. QED BY <1>2, <1>3 DEF AtEnd

LEMMA DeclKeeps ==
  ASSUME Ready, Decl
  PROVE  ParseInv'
<1>1. ErrorsKept
  BY Reported DEF Decl
<1>2. Told
  BY <1>1, Tells DEF Decl
<1>3. StreamOK /\ current \in 1..Len(tokens)
  BY DEF Ready, ParseInv
<1>4. Same /\ At("decl")
  BY DEF Decl
<1>5. CASE /\ Tok = "id" /\ Next1 = ":" /\ Go(current + 2)
           /\ Call(<<Frame("var type", 0), Frame("type", 0)>>)
  <2>1. current + 2 \in 1..Len(tokens) /\ ~AtEnd(current)
    BY <1>3, <1>5, TwoOn DEF Tok, Next1
  <2>2. Moved
    BY <1>5, <2>1 DEF Moved, Go
  <2>3. Turns
    BY <1>3, <1>5, FixedFrame, CallsTwo DEF Places, Heads
  <2>. QED BY <1>2, <1>4, <2>2, <2>3, PlainKeeps
<1>6. CASE /\ Tok = "id" /\ Next1 = "::" /\ Go(Consumed(current + 2, "("))
           /\ Call(<<Frame("params", current)>>)
  <2>1. current + 2 \in 1..Len(tokens) /\ ~AtEnd(current)
    BY <1>3, <1>6, TwoOn DEF Tok, Next1
  <2>2. Consumed(current + 2, "(") \in 1..Len(tokens)
    BY <1>3, <2>1, ConsumedIn
  <2>3. Moved
    BY <1>6, <2>1, <2>2 DEF Moved, Go
  <2>4. Turns
    BY <1>3, <1>6, HeadFrame, CallsOne DEF Heads
  <2>. QED BY <1>2, <1>4, <2>3, <2>4, PlainKeeps
<1>7. CASE UNCHANGED current /\ Call(<<Frame("decl got", 0), Frame("stmt", 0)>>)
  <2>1. Moved
    BY <1>7, Stays
  <2>2. Turns
    BY <1>3, <1>7, FixedFrame, CallsTwo DEF Places, Heads
  <2>. QED BY <1>2, <1>4, <2>1, <2>2, PlainKeeps
<1>. QED BY <1>5, <1>6, <1>7 DEF Decl

LEMMA DeclGotKeeps ==
  ASSUME Ready, DeclGot
  PROVE  ParseInv'
<1>1. current \in 1..Len(tokens) /\ StreamOK /\ ret \in Answers
  BY DEF Ready, ParseInv
<1>2. Moved
  <2>1. Synchronised(current) \in 1..Len(tokens) /\ (AtEnd(current) => Synchronised(current) = current)
    BY <1>1, SynchronisedIn
  <2>2. Go(Synchronised(current)) \/ UNCHANGED current
    BY DEF DeclGot, Stay
  <2>. QED BY <2>1, <2>2, Stays DEF Moved, Go
<1>3. Turns /\ ret' = ret
  BY Returns DEF DeclGot
<1>4. ErrorsKept
  BY Reported DEF DeclGot
<1>5. Told
  BY <1>3, <1>4, Tells DEF DeclGot
<1>. QED BY <1>2, <1>3, <1>5, PlainKeeps DEF DeclGot

LEMMA InitialiserKeeps ==
  ASSUME Ready, NEW from, NEW to, At(from), Initialiser(to), Here(to) \in PlainFrames,
         from \notin {"unit", "unit got", "scope", "scope got"}
  PROVE  ParseInv'
<1>1. StreamOK
  BY DEF Ready
<1>2. Moved
  BY Stays, Steps DEF Initialiser, Stay
<1>3. Turns
  BY <1>1, FixedFrame, CallsTwo, CallsOne DEF Initialiser, Places, Heads
<1>4. ErrorsKept
  BY Reported DEF Initialiser
<1>5. Told
  BY <1>4, Tells DEF Initialiser, Answers
<1>. QED BY <1>2, <1>3, <1>5, PlainKeeps DEF Initialiser

LEMMA VarTypeKeeps ==
  ASSUME Ready, VarType
  PROVE  ParseInv'
<1>1. Here("var end") \in PlainFrames
  BY HereOther DEF Places, Heads
<1>. QED BY <1>1, InitialiserKeeps DEF VarType

LEMMA ParamTypeKeeps ==
  ASSUME Ready, ParamType
  PROVE  ParseInv'
<1>1. Here("param end") \in PlainFrames
  BY HereHead DEF Heads, ParamType
<1>. QED BY <1>1, InitialiserKeeps DEF ParamType

LEMMA VarEndKeeps ==
  ASSUME Ready, VarEnd
  PROVE  ParseInv'
<1>1. Moved
  BY Consumes DEF VarEnd
<1>2. Turns /\ ret' = "variable"
  BY Returns DEF VarEnd
<1>3. ErrorsKept
  BY Reported DEF VarEnd
<1>4. Told
  BY <1>2, <1>3, Tells DEF VarEnd, Answers, Declarations
<1>. QED BY <1>1, <1>2, <1>4, PlainKeeps DEF VarEnd

LEMMA ParamsKeeps ==
  ASSUME Ready, Params
  PROVE  ParseInv'
<1>1. StreamOK
  BY DEF Ready
<1>2. Moved
  BY Stays, StepsAndConsumes DEF Params
<1>3. Here("param type") \in PlainFrames /\ Here("params end") \in PlainFrames
  BY HereHead DEF Params, Heads
<1>4. Turns
  BY <1>1, <1>3, FixedFrame, CallsTwo, CallsOne DEF Params, Places, Heads
<1>5. ErrorsKept
  BY Reported DEF Params
<1>6. Told
  BY <1>5, Tells DEF Params
<1>. QED BY <1>2, <1>4, <1>6, PlainKeeps DEF Params

LEMMA ParamEndKeeps ==
  ASSUME Ready, ParamEnd
  PROVE  ParseInv'
<1>1. Moved
  BY Consumes DEF ParamEnd
<1>2. Here(IF Tok = "," THEN "params" ELSE "params end") \in PlainFrames
  BY HereHead DEF ParamEnd, Heads
<1>3. Turns
  BY <1>2, CallsOne DEF ParamEnd
<1>4. ErrorsKept
  BY Reported DEF ParamEnd
<1>5. Told
  BY <1>4, Tells DEF ParamEnd
<1>. QED BY <1>1, <1>3, <1>5, PlainKeeps DEF ParamEnd

LEMMA ParamsEndKeeps ==
  ASSUME Ready, ParamsEnd
  PROVE  ParseInv'
<1>1. StreamOK /\ current \in 1..Len(tokens)
  BY DEF Ready, ParseInv
<1>2. Moved
  <2>1. PICK k : k = Consumed(current, ")")
    OBVIOUS
  <2>2. k \in 1..Len(tokens) /\ (AtEnd(current) => k = current)
    BY <1>1, <2>1, ConsumedIn
  <2>3. Consumed(k, "->") \in 1..Len(tokens) /\ (AtEnd(k) => Consumed(k, "->") = k)
    BY <1>1, <2>2, ConsumedIn
  <2>4. current' = Consumed(k, "->")
    BY <2>1 DEF ParamsEnd, Go
  <2>. QED BY <2>2, <2>3, <2>4 DEF Moved
<1>3. Here("func type") \in PlainFrames
  BY HereHead DEF ParamsEnd, Heads
<1>4. Turns
  BY <1>1, <1>3, FixedFrame, CallsTwo DEF ParamsEnd, Places, Heads
<1>5. ErrorsKept
  BY Reported DEF ParamsEnd
<1>6. Told
  BY <1>5, Tells DEF ParamsEnd
<1>. QED BY <1>2, <1>4, <1>6, PlainKeeps DEF ParamsEnd

LEMMA TypeNameKeeps ==
  ASSUME Ready, TypeName
  PROVE  ParseInv'
<1>1. Moved
  BY Advances DEF TypeName
<1>2. Turns /\ ret' = "type"
  BY Returns DEF TypeName
<1>3. ErrorsKept
  BY Reported DEF TypeName
<1>4. Told
  BY <1>2, <1>3, Tells DEF TypeName, Answers
<1>. QED BY <1>1, <1>2, <1>4, PlainKeeps DEF TypeName

LEMMA TypeNoneKeeps ==
  ASSUME Ready, TypeNone
  PROVE  ParseInv'
<1>1. Moved
  BY Advances DEF TypeNone
<1>2. Turns /\ ret' = NULL
  BY Returns DEF TypeNone
<1>3. ErrorsKept
  BY Reported DEF TypeNone
<1>4. Told
  BY <1>2, <1>3, Tells DEF TypeNone, Answers
<1>. QED BY <1>1, <1>2, <1>4, PlainKeeps DEF TypeNone

LEMMA ExprEndKeeps ==
  ASSUME Ready, ExprEnd
  PROVE  ParseInv'
<1>1. Moved
  BY Consumes DEF ExprEnd
<1>2. Turns /\ ret' = "statement"
  BY Returns DEF ExprEnd
<1>3. ErrorsKept
  BY Reported DEF ExprEnd
<1>4. Told
  BY <1>2, <1>3, Tells DEF ExprEnd, Answers
<1>. QED BY <1>1, <1>2, <1>4, PlainKeeps DEF ExprEnd

LEMMA BodyEndKeeps ==
  ASSUME Ready, BodyEnd
  PROVE  ParseInv'
<1>1. Moved
  BY Stays DEF BodyEnd
<1>2. Turns /\ ret' = "statement"
  BY Returns DEF BodyEnd
<1>3. ErrorsKept
  BY Reported DEF BodyEnd
<1>4. Told
  BY <1>2, <1>3, Tells DEF BodyEnd, Answers
<1>. QED BY <1>1, <1>2, <1>4, PlainKeeps DEF BodyEnd

LEMMA ExprKeeps ==
  ASSUME Ready, Expr
  PROVE  ParseInv'
<1>1. StreamOK
  BY DEF Ready
<1>2. Moved
  BY Stays DEF Expr
<1>3. Turns
  BY <1>1, FixedFrame, CallsThree DEF Expr, Expression, Places, Heads
<1>4. ErrorsKept
  BY Reported DEF Expr
<1>5. Told
  BY <1>4, Tells DEF Expr
<1>. QED BY <1>2, <1>3, <1>5, PlainKeeps DEF Expr

LEMMA AssignKeeps ==
  ASSUME Ready, Assign
  PROVE  ParseInv'
<1>1. StreamOK
  BY DEF Ready
<1>2. Moved
  BY Stays, Steps DEF Assign, Stay
<1>3. Turns
  BY <1>1, FixedFrame, CallsThree, Returns DEF Assign, Places, Heads
<1>4. UNCHANGED ret
  BY DEF Assign, Return
<1>5. ErrorsKept
  BY Reported DEF Assign
<1>6. Told
  BY <1>4, <1>5, Tells DEF Assign
<1>. QED BY <1>2, <1>3, <1>6, PlainKeeps DEF Assign

LEMMA OperatorKeeps ==
  ASSUME Ready, Operator
  PROVE  ParseInv'
<1>1. StreamOK
  BY DEF Ready
<1>2. Moved
  BY Stays, Steps DEF Operator, Stay, Binary
<1>3. Turns
  BY <1>1, FixedFrame, CallsThree, Returns DEF Operator, Places, Heads
<1>4. UNCHANGED ret
  BY DEF Operator, Return
<1>5. ErrorsKept
  BY Reported DEF Operator
<1>6. Told
  BY <1>4, <1>5, Tells DEF Operator
<1>. QED BY <1>2, <1>3, <1>6, PlainKeeps DEF Operator

LEMMA BuiltKeeps ==
  ASSUME Ready, NEW place, place \notin {"unit", "unit got", "scope", "scope got"}, Built(place)
  PROVE  ParseInv'
<1>1. Moved
  BY Stays DEF Built
<1>2. Turns /\ ret' = "expr"
  BY Returns DEF Built
<1>3. ErrorsKept
  BY Reported DEF Built
<1>4. Told
  BY <1>2, <1>3, Tells DEF Built, Answers
<1>. QED BY <1>1, <1>2, <1>4, PlainKeeps DEF Built

LEMMA UnaryKeeps ==
  ASSUME Ready, Unary
  PROVE  ParseInv'
<1>1. StreamOK
  BY DEF Ready
<1>2. Moved
  BY Stays, Steps, StepsAndConsumes DEF Unary, Stay
<1>3. Turns
  BY <1>1, FixedFrame, CallsTwo DEF Unary, Places, Heads
<1>4. ErrorsKept
  BY Reported DEF Unary
<1>5. Told
  BY <1>4, Tells DEF Unary
<1>. QED BY <1>2, <1>3, <1>5, PlainKeeps DEF Unary

LEMMA CastKeeps ==
  ASSUME Ready, Cast
  PROVE  ParseInv'
<1>1. StreamOK
  BY DEF Ready
<1>2. Moved
  BY Consumes DEF Cast
<1>3. Turns
  BY <1>1, FixedFrame, CallsTwo DEF Cast, Places, Heads
<1>4. ErrorsKept
  BY Reported DEF Cast
<1>5. Told
  BY <1>4, Tells DEF Cast
<1>. QED BY <1>2, <1>3, <1>5, PlainKeeps DEF Cast

LEMMA MaybeCallKeeps ==
  ASSUME Ready, MaybeCall
  PROVE  ParseInv'
<1>1. StreamOK
  BY DEF Ready
<1>2. Moved
  BY Stays, Steps DEF MaybeCall, Stay, IsCall
<1>3. Turns
  BY <1>1, FixedFrame, CallsOne, Returns DEF MaybeCall, Places, Heads
<1>4. UNCHANGED ret
  BY DEF MaybeCall, Return
<1>5. ErrorsKept
  BY Reported DEF MaybeCall
<1>6. Told
  BY <1>4, <1>5, Tells DEF MaybeCall
<1>. QED BY <1>2, <1>3, <1>6, PlainKeeps DEF MaybeCall

LEMMA ArgsKeeps ==
  ASSUME Ready, Args
  PROVE  ParseInv'
<1>1. StreamOK
  BY DEF Ready
<1>2. Moved
  BY Stays DEF Args
<1>3. Turns
  BY <1>1, FixedFrame, CallsOne, CallsTwo DEF Args, Places, Heads
<1>4. ErrorsKept
  BY Reported DEF Args
<1>5. Told
  BY <1>4, Tells DEF Args
<1>. QED BY <1>2, <1>3, <1>5, PlainKeeps DEF Args

LEMMA ArgKeeps ==
  ASSUME Ready, Arg
  PROVE  ParseInv'
<1>1. StreamOK
  BY DEF Ready
<1>2. Moved
  BY Consumes DEF Arg
<1>3. Turns
  BY <1>1, FixedFrame, CallsOne DEF Arg, Places, Heads
<1>4. ErrorsKept
  BY Reported DEF Arg
<1>5. Told
  BY <1>4, Tells DEF Arg
<1>. QED BY <1>2, <1>3, <1>5, PlainKeeps DEF Arg

LEMMA CallEndKeeps ==
  ASSUME Ready, CallEnd
  PROVE  ParseInv'
<1>1. Moved
  BY Consumes DEF CallEnd
<1>2. Turns /\ ret' = "expr"
  BY Returns DEF CallEnd
<1>3. ErrorsKept
  BY Reported DEF CallEnd
<1>4. Told
  BY <1>2, <1>3, Tells DEF CallEnd, Answers
<1>. QED BY <1>1, <1>2, <1>4, PlainKeeps DEF CallEnd

LEMMA PrimaryKeeps ==
  ASSUME Ready, Primary
  PROVE  ParseInv'
<1>1. Moved
  BY Steps DEF Primary
<1>2. Turns /\ ret' \in {"lvar", "expr"}
  BY Returns DEF Primary
<1>3. ErrorsKept
  BY Reported DEF Primary
<1>4. Told
  BY <1>2, <1>3, Tells DEF Primary, Answers
<1>. QED BY <1>1, <1>2, <1>4, PlainKeeps DEF Primary

LEMMA GroupKeeps ==
  ASSUME Ready, Group
  PROVE  ParseInv'
<1>1. StreamOK
  BY DEF Ready
<1>2. Moved
  BY Steps DEF Group
<1>3. Turns
  BY <1>1, FixedFrame, CallsTwo DEF Group, Places, Heads
<1>4. ErrorsKept
  BY Reported DEF Group
<1>5. Told
  BY <1>4, Tells DEF Group
<1>. QED BY <1>2, <1>3, <1>5, PlainKeeps DEF Group

LEMMA GroupEndKeeps ==
  ASSUME Ready, GroupEnd
  PROVE  ParseInv'
<1>1. Moved
  BY Consumes DEF GroupEnd
<1>2. Turns /\ ret' = ret
  BY Returns DEF GroupEnd
<1>3. ErrorsKept
  BY Reported DEF GroupEnd
<1>4. Told
  BY <1>2, <1>3, Tells DEF GroupEnd
<1>. QED BY <1>1, <1>2, <1>4, PlainKeeps DEF GroupEnd

LEMMA NoExpressionKeeps ==
  ASSUME Ready, NoExpression
  PROVE  ParseInv'
<1>1. Moved
  <2>1. StreamOK /\ current \in 1..Len(tokens)
    BY DEF Ready, ParseInv
  <2>. QED BY <2>1, RecoveredIn DEF NoExpression, Moved, Go
<1>2. Turns /\ ret' = NULL
  BY Returns DEF NoExpression
<1>3. ErrorsKept
  BY Reported DEF NoExpression
<1>4. Told
  BY <1>2, <1>3, Tells DEF NoExpression, Answers
<1>. QED BY <1>1, <1>2, <1>4, PlainKeeps DEF NoExpression

\* Steps that leave the activations alone.
LEMMA StillKeeps ==
  ASSUME Ready, Moved, Told, UNCHANGED <<stack, scopes, symbols>>,
         parsing' \in {"yes", "done", "crashed"}
  PROVE  ParseInv'
<1>1. /\ stack \in Seq(FrameSet) /\ stack # <<>> /\ stack[1].at \in {"unit", "unit got"} /\ InStep
      /\ scopes \in Seq(0..Len(tokens)) /\ scopes # <<>> /\ symbols \in SUBSET Entries
      /\ tokens' = tokens
  BY DEF Ready, ParseInv
<1>2. InStep'
  <2>1. Matched(stack, scopes) => Matched(stack, scopes)'
    BY DEF Matched, Depth, Open, IsScope
  <2>. QED BY <1>1, <2>1, EndStays DEF InStep
<1>3. \A e \in symbols' : e.scope = e.home \/ EndReported'
  BY EndStays DEF Ready, ParseInv
<1>4. FrameSet' = FrameSet /\ Entries' = Entries
  BY <1>1, SetsStay
<1>. QED BY <1>1, <1>2, <1>3, <1>4 DEF ParseInv, Moved, Told, Answers, Declarations, None, NULL

LEMMA TypeStarKeeps ==
  ASSUME Ready, TypeStar
  PROVE  ParseInv'
<1>1. Moved
  BY Advances DEF TypeStar
<1>2. ErrorsKept
  BY Reported DEF TypeStar
<1>3. Told
  BY <1>2, Tells DEF TypeStar
<1>4. UNCHANGED <<stack, scopes, symbols>> /\ parsing' = "yes"
  BY DEF TypeStar, Same, Ready
<1>. QED BY <1>1, <1>3, <1>4, StillKeeps

LEMMA BeforeFirstKeeps ==
  ASSUME Ready, BeforeFirst
  PROVE  ParseInv'
<1>1. Moved
  BY Stays DEF BeforeFirst
<1>2. ErrorsKept
  BY DEF BeforeFirst, ErrorsKept
<1>3. Told
  BY <1>2, Tells DEF BeforeFirst
<1>. QED BY <1>1, <1>3, StillKeeps DEF BeforeFirst

LEMMA UnitTurnKeeps ==
  ASSUME Ready, Moved, Told, Same, At("unit") \/ At("unit got"),
         NEW f \in Seq(PlainFrames), f # <<>>, f[1].at \in {"unit", "unit got"},
         stack' = Turned(stack, f)
  PROVE  ParseInv'
<1>1. /\ stack \in Seq(FrameSet) /\ stack # <<>>
      /\ scopes \in Seq(0..Len(tokens)) /\ scopes # <<>> /\ symbols \in SUBSET Entries
  BY DEF Ready, ParseInv
<1>2. scopes' = scopes /\ symbols' = symbols /\ parsing' = "yes"
  BY DEF Same, Ready
<1>3. f \in Seq(FrameSet)
  <2>1. PlainFrames \subseteq FrameSet
    BY DEF PlainFrames
  <2>. QED BY <2>1, SeqMonotonic
<1>4. ~IsScope(Last(stack))
  BY DEF At, IsScope
<1>5. Matched(stack, scopes) => Matched(Turned(stack, f), scopes')
  BY <1>1, <1>2, <1>4, PlainTurn
<1>. QED BY <1>1, <1>2, <1>3, <1>5, TurnKeeps

LEMMA UnitKeeps ==
  ASSUME Ready, Unit
  PROVE  ParseInv'
<1>1. StreamOK /\ parsing = "yes"
  BY DEF Ready
<1>2. Moved
  BY Stays DEF Unit
<1>3. ErrorsKept
  BY Reported DEF Unit
<1>4. Told
  BY <1>3, Tells DEF Unit
<1>5. CASE parsing' = "done" /\ UNCHANGED stack
  BY <1>2, <1>4, <1>5, StillKeeps DEF Unit
<1>6. CASE Call(<<Frame("unit got", 0), Frame("decl", 0)>>) /\ UNCHANGED parsing
  <2>1. PICK x \in PlainFrames, y \in PlainFrames : x = Frame("unit got", 0) /\ y = Frame("decl", 0)
    BY <1>1, FixedFrame DEF Places, Heads
  <2>2. PICK f : f = <<x, y>>
    OBVIOUS
  <2>3. f \in Seq(PlainFrames) /\ f # <<>> /\ f[1] = x
    BY <2>2
  <2>4. stack' = Turned(stack, f)
    BY <1>6, <2>1, <2>2 DEF Call, Turned
  <2>x. x.at = "unit got"
    BY <2>1 DEF Frame
  <2>5. f[1].at = "unit got"
    BY <2>3, <2>x
  <2>6. Same /\ At("unit")
    BY <1>6 DEF Unit, Same
  <2>. QED BY <1>2, <1>4, <2>3, <2>4, <2>5, <2>6, UnitTurnKeeps
<1>. QED BY <1>5, <1>6 DEF Unit

LEMMA UnitGotKeeps ==
  ASSUME Ready, UnitGot
  PROVE  ParseInv'
<1>1. StreamOK /\ parsing = "yes"
  BY DEF Ready
<1>2. Moved
  BY Stays DEF UnitGot
<1>3. ErrorsKept
  BY Reported DEF UnitGot
<1>4. Told
  BY <1>3, Tells DEF UnitGot
<1>5. CASE parsing' = "crashed" /\ UNCHANGED stack
  BY <1>2, <1>4, <1>5, StillKeeps DEF UnitGot
<1>6. CASE Call(<<Frame("unit", 0)>>) /\ UNCHANGED parsing
  <2>1. PICK x \in PlainFrames : x = Frame("unit", 0)
    BY <1>1, FixedFrame DEF Places, Heads
  <2>2. PICK f : f = <<x>>
    OBVIOUS
  <2>3. f \in Seq(PlainFrames) /\ f # <<>> /\ f[1] = x
    BY <2>2
  <2>4. stack' = Turned(stack, f)
    BY <1>6, <2>1, <2>2 DEF Call, Turned
  <2>5. f[1].at = "unit"
    BY <2>1, <2>3 DEF Frame
  <2>6. Same /\ At("unit got")
    BY <1>6 DEF UnitGot, Same
  <2>. QED BY <1>2, <1>4, <2>3, <2>4, <2>5, <2>6, UnitTurnKeeps
<1>. QED BY <1>5, <1>6 DEF UnitGot

\* parse_scope_stmt on top of what its caller goes on with.
LEMMA ScopeOnTop ==
  ASSUME NEW before \in Seq(PlainFrames), NEW x \in FrameSet
  PROVE  \E f \in Seq(FrameSet), m \in Nat \ {0} :
            /\ f = before \o <<x>> /\ m = Len(f) /\ f[m] = x
            /\ \A i \in 1..(m - 1) : ~IsScope(f[i])
<1>1. before \in Seq(FrameSet)
  <2>1. PlainFrames \subseteq FrameSet
    BY DEF PlainFrames
  <2>. QED BY <2>1, SeqMonotonic
<1>2. PICK n \in Nat : n = Len(before)
  BY LenProperties
<1>3. \A i \in 1..n : ~IsScope(before[i])
  BY <1>2, ElementOfSeq DEF PlainFrames
<1>4. PICK u : u = <<x>>
  OBVIOUS
<1>5. u \in Seq(FrameSet) /\ Len(u) = 1 /\ u[1] = x
  BY <1>4
<1>6. PICK f : f = before \o u
  OBVIOUS
<1>7. /\ f \in Seq(FrameSet) /\ Len(f) = n + 1
      /\ \A i \in 1..(n + 1) : f[i] = IF i <= n THEN before[i] ELSE u[i - n]
  <2>1. /\ before \o u \in Seq(FrameSet) /\ Len(before \o u) = Len(before) + Len(u)
        /\ \A i \in 1..(Len(before) + Len(u)) :
              (before \o u)[i] = IF i <= Len(before) THEN before[i] ELSE u[i - Len(before)]
    BY <1>1, <1>5, ConcatProperties
  <2>. QED BY <1>2, <1>5, <1>6, <2>1
<1>8. f[n + 1] = x /\ \A i \in 1..n : f[i] = before[i]
  BY <1>5, <1>7
<1>9. PICK m \in Nat \ {0} : m = n + 1
  OBVIOUS
<1>10. \A i \in 1..(m - 1) : ~IsScope(f[i])
  BY <1>3, <1>8, <1>9
<1>. QED BY <1>4, <1>6, <1>7, <1>8, <1>9, <1>10

LEMMA OpenScopeKeeps ==
  ASSUME Ready, Moved, Told, NEW k \in 1..Len(tokens), NEW before \in Seq(PlainFrames),
         OpenScope(k, before),
         NEW place, At(place), place \notin {"unit", "unit got", "scope", "scope got"}
  PROVE  ParseInv'
<1>1. /\ stack \in Seq(FrameSet) /\ stack # <<>> /\ stack[1].at \in {"unit", "unit got"}
      /\ scopes \in Seq(0..Len(tokens)) /\ scopes # <<>> /\ symbols \in SUBSET Entries
  BY DEF Ready, ParseInv
<1>2. symbols' = symbols /\ parsing' = "yes" /\ scopes' = Append(scopes, k)
  BY DEF OpenScope, Ready
<1>3. k \in 0..Len(tokens)
  <2>1. Len(tokens) \in Nat
    BY DEF Ready, StreamOK
  <2>. QED BY <2>1, Within
<1>4. PICK x \in FrameSet : x = Frame("scope", k) /\ IsScope(x) /\ x.n = k
  <2>1. Frame("scope", k) \in [at : Places, n : 0..Len(tokens)]
    BY <1>3 DEF Frame, Places
  <2>2. Frame("scope", k).at = "scope" /\ Frame("scope", k).n = k
    BY DEF Frame
  <2>. QED BY <2>1, <2>2 DEF FrameSet, IsScope, Heads
<1>5. PICK f \in Seq(FrameSet), m \in Nat \ {0} :
            /\ f = before \o <<x>> /\ m = Len(f) /\ f[m] = x
            /\ \A i \in 1..(m - 1) : ~IsScope(f[i])
  BY ScopeOnTop
<1>6. stack' = Turned(stack, f)
  BY <1>4, <1>5 DEF OpenScope, Call, Turned
<1>7. scopes' \in Seq(0..Len(tokens)) /\ scopes' # <<>>
  <2>1. PICK S : S = 0..Len(tokens) /\ scopes \in Seq(S) /\ k \in S
    BY <1>1, <1>3
  <2>2. PICK list \in Seq(S) : list = scopes
    BY <2>1
  <2>3. list \in Seq(S) /\ k \in S
    BY <2>1, <2>2
  <2>4. Append(list, k) \in Seq(S) /\ Append(list, k) # <<>>
    BY <2>3, Appended
  <2>. QED BY <1>2, <2>1, <2>2, <2>4
<1>8. Len(stack) # 1
  BY <1>1 DEF At, Last
<1>9. ~IsScope(Last(stack))
  BY DEF At, IsScope
<1>10. Matched(stack, scopes) => Matched(Turned(stack, f), scopes')
  BY <1>1, <1>2, <1>3, <1>4, <1>5, <1>9, ScopePush
<1>. QED BY <1>1, <1>2, <1>5, <1>6, <1>7, <1>8, <1>10, TurnKeeps

LEMMA NoneBefore == <<>> \in Seq(PlainFrames)
OBVIOUS

LEMMA OneBefore ==
  ASSUME NEW x \in PlainFrames
  PROVE  <<x>> \in Seq(PlainFrames)
OBVIOUS

LEMMA FuncTypeKeeps ==
  ASSUME Ready, FuncType
  PROVE  ParseInv'
<1>1. StreamOK /\ current \in 1..Len(tokens) /\ At("func type")
  BY DEF Ready, ParseInv, FuncType
<1>2. Here("func end") \in PlainFrames
  BY HereHead DEF FuncType, Heads
<1>3. ErrorsKept
  BY Reported DEF FuncType
<1>4. Told
  BY <1>3, Tells DEF FuncType, Answers
<1>5. CASE Tok = "{" /\ OpenScope(current + 1, <<Here("func end")>>)
  <2>1. Moved
    BY <1>5, Steps DEF OpenScope
  <2>2. current + 1 \in 1..Len(tokens)
    BY <1>1, <1>5, Forward DEF Tok
  <2>3. <<Here("func end")>> \in Seq(PlainFrames)
    BY <1>2, OneBefore
  <2>. QED BY <1>1, <1>4, <1>5, <2>1, <2>2, <2>3, OpenScopeKeeps
<1>6. CASE Go(Consumed(current, ";")) /\ Call(<<Here("func end")>>) /\ Same
  <2>1. Moved
    BY <1>6, Consumes
  <2>2. Turns
    BY <1>2, <1>6, CallsOne
  <2>. QED BY <1>1, <1>4, <1>6, <2>1, <2>2, PlainKeeps
<1>. QED BY <1>5, <1>6 DEF FuncType

LEMMA StatementKeeps ==
  ASSUME Ready, Statement
  PROVE  ParseInv'
<1>1. StreamOK /\ current \in 1..Len(tokens) /\ At("stmt")
  BY DEF Ready, ParseInv, Statement
<1>2. ErrorsKept
  BY Reported DEF Statement
<1>3. Told
  BY <1>2, Tells DEF Statement
<1>4. CASE /\ Tok \in {"return", "if", "while"} /\ Go(current + 1)
           /\ Call(<<Frame(Tok, 0), Frame("expr", 0)>>) /\ Same
  <2>1. Moved
    BY <1>4, Steps
  <2>2. Turns
    BY <1>1, <1>4, FixedFrame, CallsTwo DEF Places, Heads
  <2>. QED BY <1>1, <1>3, <1>4, <2>1, <2>2, PlainKeeps
<1>5. CASE Tok = "{" /\ OpenScope(current + 1, <<>>)
  <2>1. Moved
    BY <1>5, Steps DEF OpenScope
  <2>2. current + 1 \in 1..Len(tokens)
    BY <1>1, <1>5, Forward DEF Tok
  <2>. QED BY <1>1, <1>3, <1>5, <2>1, <2>2, NoneBefore, OpenScopeKeeps
<1>6. CASE Stay /\ Call(<<Frame("expr stmt", 0), Frame("expr", 0)>>) /\ Same
  <2>1. Moved
    BY <1>6, Stays DEF Stay
  <2>2. Turns
    BY <1>1, <1>6, FixedFrame, CallsTwo DEF Places, Heads
  <2>. QED BY <1>1, <1>3, <1>6, <2>1, <2>2, PlainKeeps
<1>. QED BY <1>4, <1>5, <1>6 DEF Statement

LEMMA BodyKeeps ==
  ASSUME Ready, NEW place \in {"if", "while"}, NEW then \in {"else?", "body end"}, Body(place, then)
  PROVE  ParseInv'
<1>1. StreamOK /\ current \in 1..Len(tokens)
  BY DEF Ready, ParseInv
<1>2. ErrorsKept
  BY Reported DEF Body
<1>3. Told
  BY <1>2, Tells DEF Body
<1>4. PICK k \in 1..Len(tokens) : k = Consumed(current, "{")
  BY <1>1, ConsumedIn
<1>5. Frame(then, 0) \in PlainFrames
  BY <1>1, FixedFrame DEF Places, Heads
<1>6. <<Frame(then, 0)>> \in Seq(PlainFrames)
  BY <1>5, OneBefore
<1>7. At(place) /\ OpenScope(k, <<Frame(then, 0)>>) /\ Go(Consumed(current, "{"))
  BY <1>4 DEF Body, OpenScope
<1>8. Moved
  BY <1>7, Consumes
<1>. QED BY <1>3, <1>6, <1>7, <1>8, OpenScopeKeeps

LEMMA ElseBodyKeeps ==
  ASSUME Ready, ElseBody
  PROVE  ParseInv'
<1>1. StreamOK /\ current \in 1..Len(tokens)
  BY DEF Ready, ParseInv
<1>2. ErrorsKept
  BY Reported DEF ElseBody
<1>3. Told
  BY <1>2, Tells DEF ElseBody
<1>4. PICK k \in 1..Len(tokens) : k = Consumed(current + 1, "{")
  <2>1. current + 1 \in 1..Len(tokens)
    BY <1>1, Forward DEF ElseBody, Tok
  <2>. QED BY <1>1, <2>1, ConsumedIn
<1>5. Frame("body end", 0) \in PlainFrames
  BY <1>1, FixedFrame DEF Places, Heads
<1>6. <<Frame("body end", 0)>> \in Seq(PlainFrames)
  BY <1>5, OneBefore
<1>7. At("else?") /\ Tok = "else" /\ OpenScope(k, <<Frame("body end", 0)>>) /\ Go(Consumed(current + 1, "{"))
  BY <1>4 DEF ElseBody, OpenScope
<1>8. Moved
  BY <1>7, StepsAndConsumes
<1>. QED BY <1>3, <1>6, <1>7, <1>8, OpenScopeKeeps

\* A turn of the loop of parse_scope_stmt.
LEMMA ScopeTurnKeeps ==
  ASSUME Ready, Moved, Told, Same, At("scope") \/ At("scope got"),
         NEW f \in Seq(FrameSet), NEW m \in Nat \ {0}, m = Len(f), IsScope(f[1]),
         f[1].n = Last(stack).n, \A i \in 2..m : ~IsScope(f[i]),
         stack' = Turned(stack, f)
  PROVE  ParseInv'
<1>1. /\ stack \in Seq(FrameSet) /\ stack # <<>> /\ stack[1].at \in {"unit", "unit got"}
      /\ scopes \in Seq(0..Len(tokens)) /\ scopes # <<>> /\ symbols \in SUBSET Entries
  BY DEF Ready, ParseInv
<1>2. scopes' = scopes /\ symbols' = symbols /\ parsing' = "yes"
  BY DEF Same, Ready
<1>3. Len(stack) # 1
  BY <1>1 DEF At, Last
<1>4. IsScope(Last(stack))
  BY DEF At, IsScope
<1>5. Matched(stack, scopes) => Matched(Turned(stack, f), scopes')
  BY <1>1, <1>2, <1>4, ScopeTurn
<1>. QED BY <1>1, <1>2, <1>3, <1>5, TurnKeeps

LEMMA ScopeFrame ==
  ASSUME Ready, NEW to \in {"scope", "scope got"}
  PROVE  Here(to) \in FrameSet /\ IsScope(Here(to)) /\ Here(to).n = Last(stack).n
<1>1. PICK k \in 0..Len(tokens) : k = Last(stack).n
  BY LastFrame DEF FrameSet
<1>2. Frame(to, k) \in [at : Places, n : 0..Len(tokens)]
  BY <1>1 DEF Frame, Places
<1>3. Frame(to, k).at = to /\ Frame(to, k).n = k
  BY DEF Frame
<1>. QED BY <1>1, <1>2, <1>3 DEF FrameSet, IsScope, Here, Heads

LEMMA ScopeItemKeeps ==
  ASSUME Ready, ScopeItem
  PROVE  ParseInv'
<1>1. StreamOK
  BY DEF Ready
<1>2. Moved
  BY Stays DEF ScopeItem
<1>3. ErrorsKept
  BY Reported DEF ScopeItem
<1>4. Told
  BY <1>3, Tells DEF ScopeItem
<1>5. PICK x \in FrameSet : x = Here("scope got") /\ IsScope(x) /\ x.n = Last(stack).n
  BY ScopeFrame
<1>6. PICK y \in FrameSet : y = Frame("decl", 0) /\ ~IsScope(y)
  BY <1>1, FixedFrame DEF Places, Heads, PlainFrames
<1>7. PICK f : f = <<x, y>>
  OBVIOUS
<1>8. f \in Seq(FrameSet) /\ Len(f) = 2 /\ f[1] = x /\ f[2] = y
  BY <1>7
<1>9. \E m \in Nat \ {0} : m = Len(f) /\ \A i \in 2..m : ~IsScope(f[i])
  BY <1>6, <1>8
<1>10. stack' = Turned(stack, f)
  BY <1>5, <1>6, <1>7 DEF ScopeItem, Call, Turned
<1>11. Same /\ At("scope")
  BY DEF ScopeItem
<1>12. IsScope(f[1]) /\ f[1].n = Last(stack).n
  BY <1>5, <1>8
<1>. QED BY <1>2, <1>4, <1>8, <1>9, <1>10, <1>11, <1>12, ScopeTurnKeeps

LEMMA ScopeGotKeeps ==
  ASSUME Ready, ScopeGot
  PROVE  ParseInv'
<1>2. Moved
  BY Stays DEF ScopeGot
<1>3. ErrorsKept
  BY Reported DEF ScopeGot
<1>4. Told
  BY <1>3, Tells DEF ScopeGot
<1>5. PICK x \in FrameSet : x = Here("scope") /\ IsScope(x) /\ x.n = Last(stack).n
  BY ScopeFrame
<1>7. PICK f : f = <<x>>
  OBVIOUS
<1>8. f \in Seq(FrameSet) /\ Len(f) = 1 /\ f[1] = x
  BY <1>7
<1>9. \E m \in Nat \ {0} : m = Len(f) /\ \A i \in 2..m : ~IsScope(f[i])
  BY <1>8
<1>10. stack' = Turned(stack, f)
  BY <1>5, <1>7 DEF ScopeGot, Call, Turned
<1>11. Same /\ At("scope got")
  BY DEF ScopeGot
<1>12. IsScope(f[1]) /\ f[1].n = Last(stack).n
  BY <1>5, <1>8
<1>. QED BY <1>2, <1>4, <1>8, <1>9, <1>10, <1>11, <1>12, ScopeTurnKeeps

LEMMA ScopeCloseKeeps ==
  ASSUME Ready, ScopeClose
  PROVE  ParseInv'
<1>1. /\ stack \in Seq(FrameSet) /\ stack # <<>> /\ stack[1].at \in {"unit", "unit got"} /\ InStep
      /\ scopes \in Seq(0..Len(tokens)) /\ scopes # <<>> /\ symbols \in SUBSET Entries
  BY DEF Ready, ParseInv
<1>2. Tok = "}" /\ At("scope")
  BY DEF ScopeClose
<1>3. Moved
  BY <1>2, Steps DEF ScopeClose
<1>4. ErrorsKept
  BY Reported DEF ScopeClose
<1>5. Told
  <2>1. ret' = "scope"
    BY DEF ScopeClose, Return
  <2>. QED BY <1>4, <2>1, Tells DEF ScopeClose, Answers
<1>6. symbols' = symbols /\ parsing' = "yes" /\ scopes' = Front(scopes)
  BY DEF ScopeClose, PopScope, Ready
<1>7. Turned(stack, <<>>) = stack' /\ <<>> \in Seq(FrameSet)
  BY <1>1, TurnedToNone DEF ScopeClose, Return
<1>8. Matched(stack, scopes)
  BY <1>1, <1>2 DEF InStep, EndReported, AtEnd, Tok
<1>9. IsScope(Last(stack))
  BY <1>2 DEF At, IsScope
<1>10. Matched(Turned(stack, <<>>), scopes') /\ Len(scopes) \in Nat /\ Len(scopes) > 1
  BY <1>1, <1>6, <1>8, <1>9, ScopePop
<1>11. scopes' \in Seq(0..Len(tokens)) /\ scopes' # <<>>
  <2>1. PICK S : S = 0..Len(tokens) /\ scopes \in Seq(S)
    BY <1>1
  <2>2. Front(scopes) \in Seq(S) /\ Len(Front(scopes)) = Len(scopes) - 1
    BY <1>1, <2>1, LastAndFront
  <2>3. Len(Front(scopes)) # 0
    BY <1>10, <2>2
  <2>. QED BY <1>6, <2>1, <2>2, <2>3, EmptySeq
<1>12. Len(stack) # 1
  BY <1>1, <1>2 DEF At, Last
<1>. QED BY <1>1, <1>3, <1>5, <1>6, <1>7, <1>10, <1>11, <1>12, TurnKeeps

LEMMA ScopeCutOffKeeps ==
  ASSUME Ready, ScopeCutOff
  PROVE  ParseInv'
<1>1. /\ stack \in Seq(FrameSet) /\ stack # <<>> /\ stack[1].at \in {"unit", "unit got"}
      /\ scopes \in Seq(0..Len(tokens)) /\ scopes # <<>> /\ symbols \in SUBSET Entries
  BY DEF Ready, ParseInv
<1>2. Moved
  BY Stays DEF ScopeCutOff
<1>3. ErrorsKept
  BY Reported DEF ScopeCutOff
<1>4. Told
  <2>1. ret' = NULL
    BY DEF ScopeCutOff, Return
  <2>. QED BY <1>3, <2>1, Tells DEF ScopeCutOff, Answers
<1>5. Turned(stack, <<>>) = stack' /\ <<>> \in Seq(FrameSet)
  BY <1>1, TurnedToNone DEF ScopeCutOff, Return
<1>6. EndReported'
  <2>1. errors' /\ AtEnd(current) /\ current' = current /\ tokens' = tokens
    BY DEF ScopeCutOff, Report, Ready
  <2>. QED BY <2>1 DEF EndReported, AtEnd
<1>7. scopes' = scopes /\ symbols' = symbols /\ parsing' = "yes"
  BY DEF ScopeCutOff, Same, Ready
<1>8. Len(stack) # 1
  BY <1>1 DEF At, Last, ScopeCutOff
<1>. QED BY <1>1, <1>2, <1>4, <1>5, <1>6, <1>7, <1>8, TurnKeeps

\* The last scope is that of the innermost parse_scope_stmt.
LEMMA LastIsHome ==
  ASSUME NEW q \in Seq(FrameSet), NEW S, NEW list \in Seq(S), list # <<>>, Matched(q, list)
  PROVE  Last(list) = IF Open(q) = {} THEN 0 ELSE q[Max(Open(q))].n
<1>1. PICK N \in Nat : N = Len(q)
  BY LenProperties
<1>2. /\ IsFiniteSet(Open(q)) /\ Cardinality(Open(q)) \in Nat
      /\ Open(q) \in SUBSET (1..N)
  BY <1>1, OpenFinite
<1>3. /\ Len(list) = 1 + Cardinality(Open(q)) /\ list[1] = 0
      /\ \A i \in Open(q) : list[1 + Depth(q, i)] = q[i].n
  BY DEF Matched
<1>4. Last(list) = list[Len(list)]
  BY DEF Last
<1>5. CASE Open(q) = {}
  <2>1. Cardinality(Open(q)) = 0
    BY <1>5, FS_EmptySet
  <2>. QED BY <1>3, <1>4, <1>5, <2>1
<1>6. CASE Open(q) # {}
  <2>1. PICK x : x = Max(Open(q))
    OBVIOUS
  <2>2. x \in Open(q) /\ \A j \in Open(q) : j <= x
    BY <1>2, <1>6, <2>1, Greatest
  <2>3. {j \in Open(q) : j <= x} = Open(q)
    BY <2>2
  <2>4. Depth(q, x) = Cardinality(Open(q))
    BY <2>3 DEF Depth
  <2>5. list[1 + Cardinality(Open(q))] = q[x].n
    BY <1>3, <2>2, <2>4
  <2>. QED BY <1>3, <1>4, <1>6, <2>1, <2>5
<1>. QED BY <1>5, <1>6

LEMMA FuncEndKeeps ==
  ASSUME Ready, FuncEnd
  PROVE  ParseInv'
<1>1. /\ stack \in Seq(FrameSet) /\ stack # <<>> /\ stack[1].at \in {"unit", "unit got"} /\ InStep
      /\ scopes \in Seq(0..Len(tokens)) /\ scopes # <<>> /\ symbols \in SUBSET Entries
  BY DEF Ready, ParseInv
<1>2. At("func end")
  BY DEF FuncEnd
<1>3. Moved
  BY Stays DEF FuncEnd
<1>4. ErrorsKept
  BY Reported DEF FuncEnd
<1>5. Told
  <2>1. ret' = "function"
    BY DEF FuncEnd, Return
  <2>. QED BY <1>4, <2>1, Tells DEF FuncEnd, Answers, Declarations
<1>6. Turned(stack, <<>>) = stack' /\ <<>> \in Seq(PlainFrames) /\ <<>> \in Seq(FrameSet)
  BY <1>1, TurnedToNone, NoneBefore DEF FuncEnd, Return
<1>7. scopes' = scopes /\ parsing' = "yes"
  BY DEF FuncEnd, Ready
<1>8. PICK e : /\ e = [decl |-> Last(stack).n, scope |-> Last(scopes), home |-> Home]
               /\ symbols' = symbols \union {e}
  BY DEF FuncEnd
<1>9. e.scope = Last(scopes) /\ e.home = Home
  BY <1>8
<1>10. Matched(stack, scopes) => Last(scopes) = Home
  BY <1>1, LastIsHome DEF Home
<1>11. EndReported => EndReported'
  BY <1>3, <1>5, EndStays
<1>12. e.scope = e.home \/ EndReported'
  BY <1>1, <1>9, <1>10, <1>11 DEF InStep
<1>13. e \in Entries
  <2>1. Last(stack).n \in 1..Len(tokens)
    <3>1. Last(stack) \in FrameSet /\ Last(stack).at \in Heads
      BY <1>2, LastFrame DEF At, Heads
    <3>2. Last(stack).n \in 0..Len(tokens) /\ Last(stack).n # 0
      BY <3>1 DEF FrameSet
    <3>3. Len(tokens) \in Nat
      BY DEF Ready, StreamOK
    <3>. QED BY <3>2, <3>3
  <2>2. Last(scopes) \in 0..Len(tokens)
    <3>1. PICK S : S = 0..Len(tokens) /\ scopes \in Seq(S)
      BY <1>1
    <3>2. Last(scopes) \in S
      BY <1>1, <3>1, LastAndFront
    <3>. QED BY <3>1, <3>2
  <2>3. Home \in 0..Len(tokens)
    <3>1. PICK N \in Nat : N = Len(stack)
      BY <1>1, LenProperties
    <3>2. Open(stack) \in SUBSET (1..N)
      BY <3>1, OpenFinite
    <3>3. Open(stack) # {} => Max(Open(stack)) \in 1..N
      BY <3>2, Greatest
    <3>4. Open(stack) # {} => stack[Max(Open(stack))] \in FrameSet
      BY <1>1, <3>1, <3>3, ElementOfSeq
    <3>5. Len(tokens) \in Nat
      BY DEF Ready, StreamOK
    <3>6. 0 \in 0..Len(tokens)
      BY <3>5, ZeroIn, Zenon
    <3>. QED BY <3>4, <3>6 DEF Home, FrameSet
  <2>. QED BY <1>8, <2>1, <2>2, <2>3 DEF Entries
<1>14. /\ symbols' \in SUBSET Entries
       /\ \A d \in symbols' : d \in symbols \/ d.scope = d.home \/ EndReported'
  BY <1>1, <1>8, <1>12, <1>13
<1>15. ~IsScope(Last(stack))
  BY <1>2 DEF At, IsScope
<1>16. Matched(stack, scopes) => Matched(Turned(stack, <<>>), scopes')
  BY <1>1, <1>6, <1>7, <1>15, PlainTurn
<1>17. Len(stack) # 1
  BY <1>1, <1>2 DEF At, Last
<1>. QED BY <1>1, <1>3, <1>5, <1>6, <1>7, <1>14, <1>16, <1>17, TurnKeeps

-----------------------------------------------------------------------------
(* The front end *)

LEMMA StreamEnds ==
  ASSUME LexInv, lexing = "done"
  PROVE  StreamOK
<1>1. s # <<>> /\ Last(s).kind = "EOF" /\ s \in Seq(TokenSet)
  BY DEF LexInv
<1>2. PICK N \in Nat \ {0} : N = Len(s)
  BY <1>1, LastAndFront
<1>3. Len(tokens) = N
  BY <1>2 DEF tokens
<1>4. tokens[N] = Class(s[N].kind)
  BY <1>2 DEF tokens
<1>5. s[N].kind = "EOF"
  BY <1>1, <1>2 DEF Last
<1>6. Class("EOF") = "EOF"
  BY DEF Class
<1>. QED BY <1>3, <1>4, <1>5, <1>6 DEF StreamOK, AtEnd

LEMMA StartKeeps ==
  ASSUME ParseInit, StreamOK, tokens' = tokens, Start
  PROVE  ParseInv'
<1>1. /\ current' = 1 /\ ret' = None /\ symbols' = {} /\ errors' = FALSE /\ holes' = FALSE
      /\ parsing' = "yes" /\ scopes' = <<0>> /\ stack' = <<Frame("unit", 0)>>
  BY DEF ParseInit, Start
<1>2. FrameSet' = FrameSet /\ Entries' = Entries
  BY SetsStay
<1>3. Len(tokens) \in Nat \ {0} /\ 1 \in 1..Len(tokens)
  BY DEF StreamOK
<1>4. PICK x \in FrameSet : x = Frame("unit", 0) /\ x.at = "unit"
  <2>1. Frame("unit", 0) \in PlainFrames
    BY FixedFrame DEF Places, Heads
  <2>2. Frame("unit", 0) \in FrameSet
    BY <2>1 DEF PlainFrames
  <2>3. Frame("unit", 0).at = "unit"
    BY DEF Frame
  <2>. QED BY <2>2, <2>3
<1>5. stack' \in Seq(FrameSet) /\ stack' # <<>> /\ stack'[1] = x /\ Len(stack') = 1
  BY <1>1, <1>4
<1>6. scopes' \in Seq(0..Len(tokens)) /\ scopes' # <<>> /\ Len(scopes') = 1 /\ scopes'[1] = 0
  <2>1. 0 \in 0..Len(tokens)
    BY <1>3, ZeroIn
  <2>. QED BY <1>1, <2>1
<1>7. PICK q : q = stack' /\ Len(q) = 1 /\ ~IsScope(q[1])
  BY <1>4, <1>5 DEF IsScope
<1>8. Open(q) = {}
  BY <1>7 DEF Open
<1>9. Matched(q, scopes')
  BY <1>6, <1>8, FS_EmptySet DEF Matched
<1>10. InStep'
  <2>1. Matched(q, scopes') => Matched(stack, scopes)'
    BY <1>7 DEF Matched, Depth, Open, IsScope
  <2>. QED BY <1>9, <2>1 DEF InStep
<1>11. (stack[1].at)' = "unit"
  BY <1>4, <1>5
<1>. QED BY <1>1, <1>2, <1>3, <1>5, <1>6, <1>10, <1>11 DEF ParseInv, Answers

LEMMA ParseStep ==
  ASSUME ParseInv, StreamOK, tokens' = tokens, ParseNext, parsing # "no"
  PROVE  ParseInv'
<1>1. parsing = "yes"
  BY DEF ParseNext, Start, Unit, UnitGot, Decl, DeclGot, VarType, VarEnd, Params, ParamType, ParamEnd,
         ParamsEnd, FuncType, FuncEnd, TypeStar, TypeName, TypeNone, ScopeItem, ScopeGot, ScopeClose,
         ScopeCutOff, Statement, ExprEnd, IfBody, WhileBody, Body, ElseBody, BodyEnd, Expr, Assign,
         Assigned, Operator, Right, Unary, Cast, Prefix, Built, MaybeCall, Args, Arg, CallEnd, Primary,
         Group, GroupEnd, NoExpression, BeforeFirst, At
<1>2. Ready /\ ~Start
  BY <1>1 DEF Ready, Start
<1>3. CASE Unit \/ UnitGot \/ Decl \/ DeclGot \/ VarType \/ VarEnd
  BY <1>2, <1>3, UnitKeeps, UnitGotKeeps, DeclKeeps, DeclGotKeeps, VarTypeKeeps, VarEndKeeps
<1>4. CASE Params \/ ParamType \/ ParamEnd \/ ParamsEnd \/ FuncType \/ FuncEnd
  BY <1>2, <1>4, ParamsKeeps, ParamTypeKeeps, ParamEndKeeps, ParamsEndKeeps, FuncTypeKeeps, FuncEndKeeps
<1>5. CASE TypeStar \/ TypeName \/ TypeNone
  BY <1>2, <1>5, TypeStarKeeps, TypeNameKeeps, TypeNoneKeeps
<1>6. CASE ScopeItem \/ ScopeGot \/ ScopeClose \/ ScopeCutOff
  BY <1>2, <1>6, ScopeItemKeeps, ScopeGotKeeps, ScopeCloseKeeps, ScopeCutOffKeeps
<1>7. CASE Statement \/ ExprEnd \/ ElseBody \/ BodyEnd
  BY <1>2, <1>7, StatementKeeps, ExprEndKeeps, ElseBodyKeeps, BodyEndKeeps
<1>8. CASE IfBody \/ WhileBody
  BY <1>2, <1>8, BodyKeeps DEF IfBody, WhileBody
<1>9. CASE Expr \/ Assign \/ Operator \/ Unary \/ Cast
  BY <1>2, <1>9, ExprKeeps, AssignKeeps, OperatorKeeps, UnaryKeeps, CastKeeps
<1>10. CASE Assigned \/ Right \/ Prefix
  BY <1>2, <1>10, BuiltKeeps DEF Assigned, Right, Prefix
<1>11. CASE MaybeCall \/ Args \/ Arg \/ CallEnd
  BY <1>2, <1>11, MaybeCallKeeps, ArgsKeeps, ArgKeeps, CallEndKeeps
<1>12. CASE Primary \/ Group \/ GroupEnd \/ NoExpression \/ BeforeFirst
  BY <1>2, <1>12, PrimaryKeeps, GroupKeeps, GroupEndKeeps, NoExpressionKeeps, BeforeFirstKeeps
<1>. QED BY <1>2, <1>3, <1>4, <1>5, <1>6, <1>7, <1>8, <1>9, <1>10, <1>11, <1>12 DEF ParseNext

LEMMA ParseUnchanged ==
  ASSUME UNCHANGED parseVars, tokens' = tokens
  PROVE  ParseInit' = ParseInit /\ (ParseInv => ParseInv')
<1>1. /\ current' = current /\ stack' = stack /\ ret' = ret /\ scopes' = scopes /\ symbols' = symbols
      /\ errors' = errors /\ holes' = holes /\ parsing' = parsing
  BY DEF parseVars
<1>2. FrameSet' = FrameSet /\ Entries' = Entries
  BY SetsStay
<1>3. ParseInit' = ParseInit
  BY <1>1 DEF ParseInit, None
<1>4. EndReported' = EndReported
  BY <1>1 DEF EndReported, AtEnd
<1>5. Matched(stack, scopes)' = Matched(stack, scopes)
  BY <1>1 DEF Matched, Depth, Open, IsScope
<1>6. InStep' = InStep
  BY <1>4, <1>5 DEF InStep
<1>. QED BY <1>1, <1>2, <1>3, <1>4, <1>6 DEF ParseInv, Answers, Declarations, None, NULL

LEMMA InitEstablishes ==
  ASSUME FrontInit
  PROVE  IInv
<1>1. LexInv
  BY LexInit DEF FrontInit
<1>2. ParseInit /\ parsing = "no"
  BY DEF FrontInit, ParseInit
<1>. QED BY <1>1, <1>2 DEF IInv

LEMMA LexKeeps ==
  ASSUME IInv, Lex
  PROVE  IInv'
<1>1. LexInv /\ LexNext /\ UNCHANGED parseVars
  BY DEF IInv, Lex
<1>2. LexInv'
  BY <1>1, LexStep
<1>3. lexing = "yes"
  BY <1>1 DEF LexNext, SkipBlank, SkipComment, LexSymbol, LexString, LexNumber, LexWord, LexUnknown, LexEnd, TokenAt
<1>4. parsing = "no" /\ ParseInit
  BY <1>3 DEF IInv
<1>5. parsing' = "no" /\ ParseInit'
  BY <1>1, <1>4 DEF parseVars, ParseInit, None
<1>. QED BY <1>2, <1>5 DEF IInv

LEMMA ParseKeeps ==
  ASSUME IInv, Parse
  PROVE  IInv'
<1>1. LexInv /\ lexing = "done" /\ ParseNext /\ UNCHANGED lexVars
  BY DEF IInv, Parse
<1>2. LexInv' /\ lexing' = "done" /\ tokens' = tokens
  BY <1>1, LexUnchanged DEF lexVars, tokens
<1>3. StreamOK
  BY <1>1, StreamEnds
<1>4. CASE parsing = "no"
  <2>1. ParseInit /\ Start
    BY <1>1, <1>4 DEF IInv, ParseNext, Start, Unit, UnitGot, Decl, DeclGot, VarType, VarEnd, Params, ParamType, ParamEnd,
         ParamsEnd, FuncType, FuncEnd, TypeStar, TypeName, TypeNone, ScopeItem, ScopeGot, ScopeClose,
         ScopeCutOff, Statement, ExprEnd, IfBody, WhileBody, Body, ElseBody, BodyEnd, Expr, Assign,
         Assigned, Operator, Right, Unary, Cast, Prefix, Built, MaybeCall, Args, Arg, CallEnd, Primary,
         Group, GroupEnd, NoExpression, BeforeFirst, At
  <2>2. ParseInv' /\ parsing' = "yes"
    BY <1>2, <1>3, <2>1, StartKeeps DEF Start
  <2>. QED BY <1>2, <2>2 DEF IInv
<1>5. CASE parsing # "no"
  <2>1. ParseInv'
    BY <1>1, <1>2, <1>3, <1>5, ParseStep DEF IInv
  <2>2. parsing' # "no"
    BY <2>1 DEF ParseInv
  <2>. QED BY <1>2, <2>1, <2>2 DEF IInv
<1>. QED BY <1>4, <1>5

LEMMA StutterKeeps ==
  ASSUME IInv, UNCHANGED vars
  PROVE  IInv'
<1>1. UNCHANGED lexVars /\ UNCHANGED parseVars
  BY DEF vars
<1>2. LexInv' /\ lexing' = lexing /\ tokens' = tokens
  BY <1>1, LexUnchanged DEF IInv, lexVars, tokens
<1>3. parsing' = parsing
  BY <1>1 DEF parseVars
<1>. QED BY <1>1, <1>2, <1>3, ParseUnchanged DEF IInv

\* What is known of lexer and parser in every state, for every file.
THEOREM Invariance == Spec => []IInv
<1>1. FrontInit => IInv
  BY InitEstablishes
<1>2. IInv /\ [FrontNext]_vars => IInv'
  BY LexKeeps, ParseKeeps, StutterKeeps DEF FrontNext
<1>. QED BY <1>1, <1>2, PTL DEF Spec

\* Every variable of lexer and parser has its type, and once the parser has
\* started, its place and the places of its scopes are places of tokens.
THEOREM Types == Spec => [](TypeOK /\ (parsing # "no" => ParseTypeOK))
<1>1. ASSUME IInv
      PROVE  TypeOK
  <2>1. LexInv
    BY <1>1 DEF IInv
  <2>2. text \in STRING
    BY <2>1, TextsAssumption DEF LexInv
  <2>3. s \in Seq([kind : Kinds, from : Nat, size : Nat])
    BY <2>1 DEF LexInv, TokenSet
  <2>. QED BY <2>1, <2>2, <2>3 DEF LexInv, TypeOK
<1>2. ASSUME IInv, parsing # "no"
      PROVE  ParseTypeOK
  <2>1. ParseInv
    BY <1>2 DEF IInv
  <2>2. \A i \in 1..Len(stack) : stack[i].n \in 0..Len(tokens)
    <3>1. \A i \in 1..Len(stack) : stack[i] \in FrameSet
      BY <2>1, ElementOfSeq DEF ParseInv
    <3>. QED BY <3>1 DEF FrameSet
  <2>3. \A i \in 1..Len(scopes) : scopes[i] \in 0..Len(tokens)
    BY <2>1, ElementOfSeq DEF ParseInv
  <2>4. \A f \in symbols : f.decl \in 1..Len(tokens) /\ {f.scope, f.home} \subseteq 0..Len(tokens)
    BY <2>1 DEF ParseInv, Entries
  <2>. QED BY <2>1, <2>2, <2>3, <2>4 DEF ParseInv, ParseTypeOK, Answers
<1>. QED BY <1>1, <1>2, Invariance, PTL

\* No text is lost between the tokens: the cursor of lex_file passes blanks and
\* comments only.
THEOREM Coverage == Spec => []TextCovered
<1>1. IInv => TextCovered
  BY DEF IInv, LexInv
<1>. QED BY <1>1, Invariance, PTL

\* Each token is as long as it can be, and the hash of lex_identifier knows the
\* keywords, and nothing else, for keywords.
THEOREM Munch == Spec => []LongestMatch
<1>1. IInv => LongestMatch
  BY DEF IInv, LexInv
<1>. QED BY <1>1, Invariance, PTL

\* The lexer passes the end of the text only in a comment or a string left
\* open, and reports the end nowhere else.
THEOREM EndReached == Spec => []EndsAtEnd
<1>1. IInv => EndsAtEnd
  BY DEF IInv, LexInv
<1>. QED BY <1>1, Invariance, PTL

\* tu->scopes is the global scope and those of the activations of
\* parse_scope_stmt, whatever the tokens and the recovery from errors.
THEOREM Balance == Spec => []ScopesBalanced
<1>1. ASSUME IInv
      PROVE  ScopesBalanced
  <2>1. parsing = "yes" /\ ~AtEnd(current) => Matched(stack, scopes)
    BY <1>1 DEF IInv, ParseInv, InStep, EndReported
  <2>. QED BY <2>1 DEF ScopesBalanced, Matched
<1>. QED BY <1>1, Invariance, PTL

\* A function is entered into the scope its declaration stands in, unless the
\* file ends within its body.
THEOREM InPlace == Spec => []DeclaredInPlace
<1>1. ASSUME IInv
      PROVE  DeclaredInPlace
  <2>1. parsing = "no" => symbols = {}
    BY <1>1 DEF IInv, ParseInit
  <2>2. parsing # "no" => \A f \in symbols : f.scope = f.home \/ (errors /\ AtEnd(current))
    BY <1>1 DEF IInv, ParseInv, EndReported
  <2>. QED BY <2>1, <2>2 DEF DeclaredInPlace
<1>. QED BY <1>1, Invariance, PTL

=============================================================================

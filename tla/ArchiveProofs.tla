--------------------------- MODULE ArchiveProofs ---------------------------
(***************************************************************************)
(* Proofs about the search in import libraries (module Archive), for any   *)
(* names, libraries and number of functions: whatever the comparisons do,  *)
(* the pointer stays in the symbol that is counted and no function is      *)
(* imported twice; and a function that is sure is found if it is there.    *)
(***************************************************************************)
EXTENDS Archive, FiniteSetTheorems, SequenceTheorems, NaturalsInduction, WellFoundedInduction, TLAPS

-----------------------------------------------------------------------------
(* The inductive invariants *)

\* What makes EachOnce inductive: the functions differ, the entries are the visited
\* ones, and no function has two.
OnlyVisited == \A d \in DOMAIN entries : \A p \in 1..Len(entries[d]) :
                 \E i \in visited : entries[d][p] = functions[i]
EveryVisited == \A i \in visited :
                  \E d \in DOMAIN entries : \E p \in 1..Len(entries[d]) : entries[d][p] = functions[i]
NoneTwice == \A d, e \in DOMAIN entries :
               \A p \in 1..Len(entries[d]), q \in 1..Len(entries[e]) :
                 entries[d][p] = entries[e][q] => d = e /\ p = q
IInv ==
    /\ functions \in Seq(Symbols) /\ {fi, lib} \subseteq Nat \ {0}
    /\ \A i, j \in 1..Len(functions) : functions[i] = functions[j] => i = j
    /\ Len(libs) = Len(DllOf)
    /\ visited \subseteq 1..Len(functions)
    /\ entries \in [Range(DllOf) -> Seq(Symbols)]
    /\ \A d \in DOMAIN entries : Len(entries[d]) <= Cardinality(visited)
    /\ OnlyVisited /\ EveryVisited /\ NoneTwice

\* The symbols passed come before a function, and the pointer is at the start
\* of a symbol, or at the NUL of one that comes before the function too.
Ahead(i) ==
    /\ \A p \in 1..(idx - 1) : Less(Symbol[p], functions[i])
    /\ \/ str = Start(Symbol, idx)
       \/ /\ idx <= Len(Symbol) /\ str = Start(Symbol, idx + 1) - 1
          /\ Less(Symbol[idx], functions[i])

\* The function at hand was passed, but is not in the library.
PassedAbsent(i) == /\ i = fi /\ i \notin visited /\ functions[i] \notin Range(Symbol)
                   /\ str = Start(Symbol, idx)

AheadWhenSure ==
    \A i \in fi..Len(functions) : Sure(i) => Ahead(i) \/ PassedAbsent(i)
FoundWhenSure ==
    \A i \in 1..(fi - 1) : Sure(i) /\ functions[i] \in Range(Symbol) => i \in visited

SearchIInv ==
    /\ IInv /\ InStep /\ DOMAIN libs = 1..Len(libs) /\ idx # 0
    /\ Searching /\ FoldKeepsOrder => AheadWhenSure /\ FoundWhenSure
    /\ pc = "mismatch" => lib <= Len(libs) /\ libs[lib] # NULL /\ fi <= Len(functions)
    /\ MismatchOnlyWhenLost

-----------------------------------------------------------------------------
\* The visited functions can be counted.
LEMMA VisitedFinite ==
    ASSUME IInv
    PROVE  /\ Len(functions) \in Nat /\ IsFiniteSet(visited) /\ Cardinality(visited) \in Nat
           /\ Cardinality(visited) <= Len(functions)
  <1>1. Len(functions) \in Nat /\ visited \in SUBSET (1..Len(functions))
    BY DEF IInv
  <1>2. IsFiniteSet(1..Len(functions)) /\ Cardinality(1..Len(functions)) = Len(functions)
    BY <1>1, FS_Interval
  <1>. QED BY <1>1, <1>2, FS_Subset, FS_CardinalityType

\* The functions come in some order, each once.
LEMMA InitIInv == Init => IInv
  <1>. SUFFICES ASSUME Init PROVE IInv
    OBVIOUS
  <1>1. PICK S \in UpTo(MaxFunctions) : functions \in SetToSeqs(S)
    BY DEF Init
  <1>2. IsFiniteSet(S) /\ S \subseteq Symbols /\ Cardinality(S) \in Nat
    BY SymbolsAssumption, FS_Subset, FS_CardinalityType DEF UpTo
  <1>3. /\ functions \in [1..Cardinality(S) -> S]
        /\ \A i, j \in 1..Cardinality(S) : i # j => functions[i] # functions[j]
    BY <1>1 DEF SetToSeqs
  <1>4. functions \in Seq(Symbols) /\ Len(functions) = Cardinality(S)
    BY <1>2, <1>3
  <1>5. Len(libs) = Len(DllOf)
    <2>. DEFINE Lib == {NULL} \union Libraries
    <2>1. libs \in [DOMAIN DllOf -> Lib] /\ DllOf \in Seq(Range(DllOf))
      BY DllAssumption DEF Init
    <2>. HIDE DEF Lib
    <2>2. DOMAIN DllOf = 1..Len(DllOf) /\ Len(DllOf) \in Nat
      BY <2>1, LenProperties
    <2>. QED BY <2>1, <2>2
  <1>6. lib = 1 /\ fi = 1 /\ visited = {} /\ entries = [d \in Range(DllOf) |-> <<>>]
    BY DEF Init
  <1>7. /\ entries \in [Range(DllOf) -> Seq(Symbols)]
        /\ \A d \in DOMAIN entries : Len(entries[d]) = 0
    BY <1>6
  <1>8. Cardinality(visited) = 0
    BY <1>6, FS_EmptySet
  <1>. QED BY <1>2, <1>3, <1>4, <1>5, <1>6, <1>7, <1>8 DEF IInv, OnlyVisited, EveryVisited, NoneTwice

\* A function that is found was not visited before, so that its entry is its
\* only one (pe.c:96-111).
LEMMA FoundKeepsIInv ==
    ASSUME IInv, Found
    PROVE  IInv'
  <1>. DEFINE dll == DllOf[lib]
              n == functions[fi]
  <1>0. /\ fi \notin visited /\ fi <= Len(functions) /\ lib <= Len(libs)
        /\ entries' = [entries EXCEPT ![dll] = Append(@, n)]
        /\ visited' = visited \union {fi} /\ fi' = fi + 1
        /\ functions' = functions /\ libs' = libs /\ lib' = lib
    BY DEF Found, Comparing, Searching, Visit, NextFunction, Target
  <1>1. /\ functions \in Seq(Symbols) /\ fi \in Nat /\ fi > 0 /\ lib \in Nat \ {0}
        /\ Len(libs) = Len(DllOf) /\ visited \subseteq 1..Len(functions)
        /\ entries \in [Range(DllOf) -> Seq(Symbols)]
        /\ \A i, j \in 1..Len(functions) : functions[i] = functions[j] => i = j
        /\ \A d \in DOMAIN entries : Len(entries[d]) <= Cardinality(visited)
    BY DEF IInv
  <1>2. dll \in Range(DllOf)
    <2>1. lib \in DOMAIN DllOf
      BY <1>0, <1>1, DllAssumption
    <2>. QED BY <2>1 DEF Range
  <1>3. fi \in 1..Len(functions) /\ n \in Symbols
    BY <1>0, <1>1
  <1>. HIDE DEF dll, n
  <1>4. /\ entries' \in [Range(DllOf) -> Seq(Symbols)]
        /\ Len(entries'[dll]) = Len(entries[dll]) + 1 /\ Len(entries[dll]) \in Nat
        /\ entries'[dll][Len(entries[dll]) + 1] = n
        /\ \A p \in 1..Len(entries[dll]) : entries'[dll][p] = entries[dll][p]
        /\ \A d \in Range(DllOf) : d # dll => entries'[d] = entries[d]
    <2>1. entries[dll] \in Seq(Symbols)
      BY <1>1, <1>2
    <2>. DEFINE grown == Append(entries[dll], n)
    <2>2. /\ grown \in Seq(Symbols) /\ Len(grown) = Len(entries[dll]) + 1 /\ Len(entries[dll]) \in Nat
          /\ grown[Len(entries[dll]) + 1] = n
          /\ \A p \in 1..Len(entries[dll]) : grown[p] = entries[dll][p]
      BY <1>3, <2>1
    <2>3. entries' = [entries EXCEPT ![dll] = grown]
      BY <1>0
    <2>. HIDE DEF grown
    <2>. QED BY <1>1, <1>2, <2>2, <2>3
  <1>. DEFINE last == Len(entries[dll]) + 1
  <1>5. \A d \in Range(DllOf) : \A p \in 1..Len(entries'[d]) :
          \/ p \in 1..Len(entries[d]) /\ entries'[d][p] = entries[d][p]
          \/ d = dll /\ p = last /\ entries'[d][p] = n
    <2>. TAKE d \in Range(DllOf)
    <2>. TAKE p \in 1..Len(entries'[d])
    <2>1. CASE d = dll
      BY <1>4, <2>1
    <2>2. CASE d # dll
      BY <1>4, <2>2
    <2>. QED BY <2>1, <2>2
  <1>6. \A d \in Range(DllOf) : \A p \in 1..Len(entries[d]) :
          p \in 1..Len(entries'[d]) /\ entries'[d][p] = entries[d][p]
    <2>. TAKE d \in Range(DllOf)
    <2>. TAKE p \in 1..Len(entries[d])
    <2>1. CASE d = dll
      BY <1>4, <2>1
    <2>2. CASE d # dll
      BY <1>4, <2>2
    <2>. QED BY <2>1, <2>2
  <1>7. DOMAIN entries = Range(DllOf) /\ DOMAIN entries' = Range(DllOf)
    BY <1>1, <1>4
  <1>8. \A d \in Range(DllOf) : \A p \in 1..Len(entries[d]) : entries[d][p] # n
    <2>. TAKE d \in Range(DllOf)
    <2>. TAKE p \in 1..Len(entries[d])
    <2>1. PICK i \in visited : entries[d][p] = functions[i]
      BY <1>7 DEF IInv, OnlyVisited
    <2>. QED BY <1>0, <1>1, <1>3, <2>1 DEF n
  <1>9. Cardinality(visited') = Cardinality(visited) + 1 /\ Cardinality(visited) \in Nat
    BY <1>0, VisitedFinite, FS_AddElement
  <1>10. \A d \in DOMAIN entries' : Len(entries'[d]) <= Cardinality(visited')
    <2>. SUFFICES ASSUME NEW d \in Range(DllOf)
                  PROVE  Len(entries'[d]) <= Cardinality(visited) + 1
      BY <1>7, <1>9
    <2>1. Len(entries[d]) <= Cardinality(visited) /\ Len(entries[d]) \in Nat
      BY <1>1, <1>7
    <2>2. CASE d = dll
      BY <1>4, <1>9, <2>1, <2>2
    <2>3. CASE d # dll
      BY <1>4, <1>9, <2>1, <2>3
    <2>. QED BY <2>2, <2>3
  <1>11. OnlyVisited'
    <2>. SUFFICES ASSUME NEW d \in Range(DllOf), NEW p \in 1..Len(entries'[d])
                  PROVE  \E i \in visited' : entries'[d][p] = functions[i]
      BY <1>0, <1>7 DEF OnlyVisited
    <2>1. CASE p \in 1..Len(entries[d]) /\ entries'[d][p] = entries[d][p]
      BY <1>0, <1>7, <2>1 DEF IInv, OnlyVisited
    <2>2. CASE entries'[d][p] = n
      BY <1>0, <2>2 DEF n
    <2>. QED BY <1>5, <2>1, <2>2
  <1>12. EveryVisited'
    <2>. SUFFICES ASSUME NEW i \in visited'
                  PROVE  \E d \in Range(DllOf) : \E p \in 1..Len(entries'[d]) :
                           entries'[d][p] = functions[i]
      BY <1>0, <1>7 DEF EveryVisited
    <2>1. CASE i = fi
      <3>1. last \in 1..Len(entries'[dll]) /\ entries'[dll][last] = functions[i]
        BY <1>4, <2>1 DEF n
      <3>. QED BY <1>2, <3>1
    <2>2. CASE i \in visited
      <3>1. PICK d \in Range(DllOf) : \E p \in 1..Len(entries[d]) : entries[d][p] = functions[i]
        BY <1>7, <2>2 DEF IInv, EveryVisited
      <3>. QED BY <1>6, <3>1
    <2>. QED BY <1>0, <2>1, <2>2
  <1>13. NoneTwice'
    <2>. SUFFICES ASSUME NEW d \in Range(DllOf), NEW e \in Range(DllOf),
                         NEW p \in 1..Len(entries'[d]), NEW q \in 1..Len(entries'[e]),
                         entries'[d][p] = entries'[e][q]
                  PROVE  d = e /\ p = q
      BY <1>7 DEF NoneTwice
    <2>1. p \in 1..Len(entries[d]) /\ q \in 1..Len(entries[e]) /\ entries[d][p] = entries[e][q]
            => d = e /\ p = q
      BY <1>7 DEF IInv, NoneTwice
    <2>. QED BY <1>5, <1>8, <2>1
  <1>14. /\ functions' \in Seq(Symbols) /\ {fi', lib'} \subseteq Nat \ {0}
         /\ Len(libs') = Len(DllOf)
         /\ visited' \subseteq 1..Len(functions')
         /\ \A i, j \in 1..Len(functions') : functions'[i] = functions'[j] => i = j
    BY <1>0, <1>1, <1>3
  <1>. QED BY <1>4, <1>10, <1>11, <1>12, <1>13, <1>14 DEF IInv

\* Every step keeps the invariant.
LEMMA NextKeepsIInv ==
    ASSUME IInv, [Next]_vars
    PROVE  IInv'
  <1>1. CASE Found
    BY <1>1, FoundKeepsIInv
  <1>2. ASSUME \/ SkipVisited \/ Exhausted \/ GiveUp \/ NextSymbol \/ Mismatch \/ NextLibrary
               \/ Done \/ UNCHANGED vars
        PROVE  IInv'
    <2>1. /\ functions' = functions /\ libs' = libs /\ visited' = visited /\ entries' = entries
          /\ fi' \in {fi, fi + 1, 1} /\ lib' \in {lib, lib + 1}
      BY <1>2 DEF SkipVisited, Exhausted, GiveUp, NextSymbol, Mismatch, NextLibrary, Done,
                  NextFunction, vars
    <2>2. /\ fi' \in Nat /\ fi' > 0 /\ lib' \in Nat \ {0}
      BY <2>1 DEF IInv
    <2>. QED BY <2>1, <2>2 DEF IInv, OnlyVisited, EveryVisited, NoneTwice
  <1>. QED BY <1>1, <1>2 DEF Next

-----------------------------------------------------------------------------
(* The theorems of the imports *)

\* The inductive invariant holds in every state of every run.
THEOREM Invariance == Spec => []IInv
  BY InitIInv, NextKeepsIInv, PTL DEF Spec

\* A function is imported from one dll, once, however many libraries have it,
\* and every one that counts as visited is (pe.c:49-50, 108-109).
THEOREM ImportedOnce == Spec => []EachOnce
  <1>1. ASSUME IInv PROVE EachOnce
    <2>0. /\ DOMAIN functions = 1..Len(functions) /\ visited \subseteq 1..Len(functions)
          /\ \A d \in DOMAIN entries : Len(entries[d]) \in Nat
      BY <1>1 DEF IInv
    <2>1. ASSUME NEW i \in 1..Len(functions), i \in visited
          PROVE  Cardinality(Places(functions[i])) = 1
      <3>1. PICK d \in DOMAIN entries : \E p \in 1..Len(entries[d]) : entries[d][p] = functions[i]
        BY <1>1, <2>1 DEF IInv, EveryVisited
      <3>2. PICK p \in 1..Len(entries[d]) : entries[d][p] = functions[i]
        BY <3>1
      <3>3. p \in 1..Len(functions) /\ p <= Len(entries[d])
        BY <1>1, <2>0, VisitedFinite DEF IInv
      <3>4. \A e \in DOMAIN entries, q \in 1..Len(functions) :
              q <= Len(entries[e]) /\ entries[e][q] = functions[i] => e = d /\ q = p
        <4>. TAKE e \in DOMAIN entries, q \in 1..Len(functions)
        <4>1. q <= Len(entries[e]) => q \in 1..Len(entries[e])
          BY <2>0
        <4>. QED BY <1>1, <3>2, <4>1 DEF IInv, NoneTwice
      <3>5. Places(functions[i]) = {<<d, p>>}
        BY <3>2, <3>3, <3>4 DEF Places
      <3>. QED BY <3>5, FS_Singleton
    <2>2. ASSUME NEW i \in 1..Len(functions), i \notin visited
          PROVE  Cardinality(Places(functions[i])) = 0
      <3>1. ASSUME NEW e \in DOMAIN entries, NEW q \in 1..Len(functions), q <= Len(entries[e])
            PROVE  entries[e][q] # functions[i]
        <4>1. q \in 1..Len(entries[e])
          BY <2>0, <3>1
        <4>2. PICK j \in visited : entries[e][q] = functions[j]
          BY <1>1, <4>1 DEF IInv, OnlyVisited
        <4>. QED BY <1>1, <2>0, <2>2, <4>2 DEF IInv
      <3>2. Places(functions[i]) = {}
        BY <3>1 DEF Places
      <3>. QED BY <3>2, FS_EmptySet
    <2>. QED BY <1>1, <2>0, <2>1, <2>2 DEF EachOnce, IInv
  <1>. QED BY <1>1, Invariance, PTL

-----------------------------------------------------------------------------
(* Least and greatest numbers *)

LEMMA Least ==
    ASSUME NEW S \in SUBSET Nat, S # {}
    PROVE  Min(S) \in S /\ \A j \in S : Min(S) <= j
  <1>. DEFINE R == OpToRel(<, Nat)
  <1>1. \A x, y \in Nat : <<x, y>> \in R <=> x < y
    BY DEF OpToRel
  <1>2. IsWellFoundedOn(R, Nat)
    BY NatLessThanWellFounded, Zenon
  <1>. HIDE DEF R
  <1>3. PICK m \in S : \A n \in S : ~(<<n, m>> \in R)
    BY <1>2, WFMin
  <1>4. \A n \in S : m <= n
    <2>1. \A n \in S : n \in Nat /\ m \in Nat
      OBVIOUS
    <2>2. \A n \in S : ~(n < m)
      BY <1>1, <1>3, <2>1
    <2>. QED BY <2>1, <2>2
  <1>5. \E x \in S : \A y \in S : x =< y
    BY <1>4
  <1>. QED BY <1>5 DEF Min

LEMMA Greatest ==
    ASSUME NEW N \in Nat, NEW S \in SUBSET (0..N), S # {}
    PROVE  Max(S) \in S /\ \A j \in S : j <= Max(S)
  <1>. DEFINE T == {N - x : x \in S}
  <1>1. T \in SUBSET Nat /\ T # {}
    <2>1. \A x \in S : x \in 0..N
      OBVIOUS
    <2>2. \A x \in 0..N : N - x \in Nat
      OBVIOUS
    <2>. QED BY <2>1, <2>2
  <1>2. Min(T) \in T /\ \A j \in T : Min(T) <= j
    <2>. HIDE DEF T
    <2>. QED BY <1>1, Least
  <1>3. PICK x \in S : Min(T) = N - x
    BY <1>2
  <1>4. \A y \in S : N - x <= N - y
    BY <1>2, <1>3
  <1>5. \A y \in S : x >= y /\ y <= x
    BY <1>4
  <1>6. Max(S) \in S /\ \A y \in S : Max(S) >= y
    BY <1>5 DEF Max
  <1>. QED BY <1>6

-----------------------------------------------------------------------------
(* The order of strcmp *)

\* No character is NUL.
LEMMA CharacterType == \A c \in Characters : c \in Nat \ {0}
  BY DEF Characters

\* A character is one of the name, or the NUL after it.
LEMMA CharTypes ==
    ASSUME NEW a \in Names
    PROVE  /\ Len(a) \in Nat \ {0}
           /\ \A k \in 1..Len(a) : CharAt(a, k) = a[k] /\ a[k] \in Nat \ {0}
           /\ \A k \in Nat \ {0} : CharAt(a, k) \in Nat /\ (CharAt(a, k) = 0 <=> k > Len(a))
  <1>1. Len(a) \in Nat \ {0} /\ \A k \in 1..Len(a) : a[k] \in Nat \ {0}
    <2>1. a \in Seq(Characters) /\ a # <<>>
      BY DEF Names
    <2>2. Len(a) \in Nat \ {0}
      BY <2>1, EmptySeq, LenProperties
    <2>3. \A k \in 1..Len(a) : a[k] \in Characters
      BY <2>1
    <2>. QED BY <2>2, <2>3, CharacterType
  <1>2. \A k \in 1..Len(a) : CharAt(a, k) = a[k]
    BY <1>1 DEF CharAt
  <1>3. \A k \in Nat \ {0} : k <= Len(a) <=> k \in 1..Len(a)
    BY <1>1
  <1>4. \A k \in Nat \ {0} : CharAt(a, k) = IF k <= Len(a) THEN a[k] ELSE 0
    BY DEF CharAt
  <1>5. \A k \in Nat \ {0} : CharAt(a, k) \in Nat /\ (CharAt(a, k) = 0 <=> k > Len(a))
    <2>. SUFFICES ASSUME NEW k \in Nat \ {0}
                  PROVE  CharAt(a, k) \in Nat /\ (CharAt(a, k) = 0 <=> k > Len(a))
      OBVIOUS
    <2>1. CASE k <= Len(a)
      <3>1. CharAt(a, k) = a[k] /\ a[k] \in Nat \ {0}
        BY <1>1, <1>3, <1>4, <2>1
      <3>. QED BY <1>1, <2>1, <3>1
    <2>2. CASE ~(k <= Len(a))
      <3>1. CharAt(a, k) = 0
        BY <1>4, <2>2
      <3>. QED BY <1>1, <2>2, <3>1
    <2>. QED BY <2>1, <2>2
  <1>. QED BY <1>1, <1>2, <1>5

LEMMA LessTransitive ==
    ASSUME NEW a \in Names, NEW b \in Names, NEW c \in Names, Less(a, b), Less(b, c)
    PROVE  Less(a, c)
  <1>1. /\ Len(a) \in Nat /\ Len(b) \in Nat /\ Len(c) \in Nat
        /\ \A k \in Nat \ {0} : CharAt(a, k) \in Nat /\ CharAt(b, k) \in Nat
        /\ \A k \in 1..Len(b) : CharAt(b, k) = b[k] /\ b[k] \in Nat \ {0}
        /\ \A k \in 1..Len(c) : c[k] \in Nat \ {0}
    BY CharTypes
  <1>2. PICK k \in 1..Len(b) : (\A j \in 1..(k - 1) : CharAt(a, j) = b[j]) /\ CharAt(a, k) < b[k]
    BY DEF Less
  <1>3. PICK m \in 1..Len(c) : (\A j \in 1..(m - 1) : CharAt(b, j) = c[j]) /\ CharAt(b, m) < c[m]
    BY DEF Less
  <1>4. CASE k < m
    <2>1. k \in 1..Len(c) /\ CharAt(b, k) = b[k] /\ CharAt(b, k) = c[k]
      BY <1>1, <1>2, <1>3, <1>4
    <2>2. ASSUME NEW j \in 1..(k - 1) PROVE CharAt(a, j) = c[j]
      <3>1. j \in 1..(m - 1) /\ j \in 1..Len(b)
        BY <1>1, <1>2, <1>3, <1>4
      <3>. QED BY <1>1, <1>2, <1>3, <3>1
    <2>. QED BY <1>2, <2>1, <2>2 DEF Less
  <1>5. CASE ~(k < m)
    <2>1. m \in 1..Len(b) /\ m \in Nat \ {0} /\ CharAt(b, m) = b[m] /\ CharAt(a, m) <= b[m]
      <3>1. m \in 1..Len(b) /\ m \in Nat \ {0} /\ (m = k \/ m \in 1..(k - 1))
        <4>1. k \in Nat /\ m \in Nat \ {0} /\ k <= Len(b)
          BY <1>1, <1>2, <1>3
        <4>2. m <= k
          BY <1>5, <4>1
        <4>. QED BY <1>1, <4>1, <4>2
      <3>2. CharAt(b, m) = b[m] /\ b[m] \in Nat \ {0}
        BY <1>1, <3>1
      <3>3. CASE m = k
        <4>1. CharAt(a, m) < b[m] /\ CharAt(a, m) \in Nat
          BY <1>1, <1>2, <3>1, <3>3
        <4>. QED BY <3>1, <3>2, <4>1
      <3>4. CASE m \in 1..(k - 1)
        <4>1. CharAt(a, m) = b[m]
          BY <1>2, <3>4
        <4>. QED BY <3>1, <3>2, <4>1
      <3>. QED BY <3>1, <3>3, <3>4
    <2>2. CharAt(a, m) < c[m]
      <3>1. CharAt(a, m) \in Nat /\ CharAt(b, m) \in Nat /\ c[m] \in Nat \ {0}
        BY <1>1, <1>3, <2>1
      <3>. QED BY <1>3, <2>1, <3>1
    <2>3. ASSUME NEW j \in 1..(m - 1) PROVE CharAt(a, j) = c[j]
      <3>1. j \in 1..(k - 1) /\ j \in 1..Len(b)
        BY <1>1, <1>2, <1>3, <1>5
      <3>. QED BY <1>1, <1>2, <1>3, <3>1
    <2>. QED BY <2>2, <2>3, <1>3 DEF Less
  <1>. QED BY <1>4, <1>5

LEMMA LessIrreflexive ==
    ASSUME NEW a \in Names PROVE ~Less(a, a)
  <1>1. \A k \in 1..Len(a) : CharAt(a, k) = a[k] /\ a[k] \in Nat \ {0}
    BY CharTypes
  <1>2. ASSUME NEW k \in 1..Len(a), CharAt(a, k) < a[k] PROVE FALSE
    BY <1>1, <1>2
  <1>. QED BY <1>2 DEF Less

\* What ascends step by step ascends.
LEMMA AscendingPairs ==
    ASSUME NEW Y \in Seq(Names), Ascending(Y), NEW i \in 1..Len(Y), NEW j \in 1..Len(Y), i < j
    PROVE  Less(Y[i], Y[j])
  <1>. DEFINE Bad == {m \in Nat : i < m /\ m <= Len(Y) /\ ~Less(Y[i], Y[m])}
  <1>1. SUFFICES ASSUME Bad # {} PROVE FALSE
    BY DEF Bad
  <1>2. PICK m \in Bad : \A n \in Bad : m <= n
    <2>1. Bad \in SUBSET Nat
      OBVIOUS
    <2>. HIDE DEF Bad
    <2>. QED BY <1>1, <2>1, Least
  <1>3. m \in Nat /\ i < m /\ m <= Len(Y) /\ ~Less(Y[i], Y[m]) /\ m - 1 \in Nat
    BY <1>2
  <1>4. Less(Y[m - 1], Y[m])
    <2>1. m - 1 \in 1..(Len(Y) - 1) /\ (m - 1) + 1 = m
      BY <1>3
    <2>. QED BY <2>1 DEF Ascending
  <1>5. i < m - 1
    BY <1>3, <1>4
  <1>6. Less(Y[i], Y[m - 1])
    <2>1. m - 1 \notin Bad
      BY <1>2, <1>3
    <2>. QED BY <1>3, <1>5, <2>1
  <1>7. Y[i] \in Names /\ Y[m - 1] \in Names /\ Y[m] \in Names
    BY <1>3, <1>5
  <1>. QED BY <1>3, <1>4, <1>6, <1>7, LessTransitive

-----------------------------------------------------------------------------
(* The string table *)

\* How FlattenSeq puts the sequences one after the other.
Joined(g, s, n) == g = [i \in 1..n |-> IF i = 1 THEN s[i] ELSE g[i - 1] \o s[i]]

LEMMA JoinedExists ==
    ASSUME NEW s, NEW n \in Nat
    PROVE  \E g : Joined(g, s, n)
  <1>. DEFINE Bad == {m \in Nat : ~\E g : Joined(g, s, m)}
  <1>1. SUFFICES ASSUME Bad # {} PROVE FALSE
    OBVIOUS
  <1>2. PICK m \in Bad : \A k \in Bad : m <= k
    <2>1. Bad \in SUBSET Nat
      OBVIOUS
    <2>. HIDE DEF Bad
    <2>. QED BY <1>1, <2>1, Least
  <1>3. m \in Nat /\ ~\E g : Joined(g, s, m)
    BY <1>2
  <1>4. m # 0
    <2>1. SUFFICES ASSUME m = 0 PROVE FALSE
      OBVIOUS
    <2>. DEFINE g == [i \in 1..0 |-> s[i]]
    <2>2. Joined(g, s, 0)
      <3>1. 1..0 = {}
        OBVIOUS
      <3>. QED BY <3>1 DEF Joined
    <2>. QED BY <1>3, <2>1, <2>2
  <1>5. PICK f : Joined(f, s, m - 1)
    <2>1. m - 1 \in Nat /\ m - 1 \notin Bad
      BY <1>2, <1>3, <1>4
    <2>. QED BY <2>1
  <1>. DEFINE g == [i \in 1..m |-> IF i = m THEN (IF i = 1 THEN s[i] ELSE f[i - 1] \o s[i]) ELSE f[i]]
  <1>6. Joined(g, s, m)
    <2>1. ASSUME NEW i \in 1..m
          PROVE  g[i] = IF i = 1 THEN s[i] ELSE g[i - 1] \o s[i]
      <3>1. i # 1 => i - 1 \in 1..m /\ i - 1 # m
        BY <1>3
      <3>2. i # 1 => g[i - 1] = f[i - 1]
        BY <3>1
      <3>3. CASE i = m
        BY <3>2, <3>3
      <3>4. CASE i # m
        <4>1. i \in 1..(m - 1)
          BY <1>3, <3>4
        <4>2. f[i] = IF i = 1 THEN s[i] ELSE f[i - 1] \o s[i]
          BY <1>5, <4>1, Zenon DEF Joined
        <4>3. g[i] = f[i]
          BY <3>4
        <4>. QED BY <3>2, <4>2, <4>3
      <3>. QED BY <3>3, <3>4
    <2>2. g = [i \in 1..m |-> g[i]]
      OBVIOUS
    <2>. HIDE DEF g
    <2>. QED BY <2>1, <2>2, Zenon DEF Joined
  <1>. QED BY <1>3, <1>6

\* A longer list begins as a shorter one does.
LEMMA JoinedAgree ==
    ASSUME NEW s, NEW t, NEW n \in Nat, NEW m \in 0..n, NEW g, NEW h,
           Joined(g, s, n), Joined(h, t, m), \A i \in 1..m : s[i] = t[i]
    PROVE  \A i \in 1..m : g[i] = h[i]
  <1>. DEFINE Bad == {i \in Nat : i \in 1..m /\ g[i] # h[i]}
  <1>1. SUFFICES ASSUME Bad # {} PROVE FALSE
    OBVIOUS
  <1>2. PICK i \in Bad : \A k \in Bad : i <= k
    <2>1. Bad \in SUBSET Nat
      OBVIOUS
    <2>. HIDE DEF Bad
    <2>. QED BY <1>1, <2>1, Least
  <1>3. i \in 1..m /\ i \in 1..n /\ g[i] # h[i]
    BY <1>2
  <1>4. i # 1 => i - 1 \in 1..m /\ g[i - 1] = h[i - 1]
    <2>1. SUFFICES ASSUME i # 1 PROVE i - 1 \in 1..m /\ g[i - 1] = h[i - 1]
      OBVIOUS
    <2>2. i - 1 \in 1..m /\ i - 1 \in Nat /\ ~(i <= i - 1)
      BY <1>3, <2>1
    <2>. QED BY <1>2, <2>2
  <1>5. g[i] = (IF i = 1 THEN s[i] ELSE g[i - 1] \o s[i]) /\ h[i] = IF i = 1 THEN t[i] ELSE h[i - 1] \o t[i]
    BY <1>3, Zenon DEF Joined
  <1>. QED BY <1>3, <1>4, <1>5

\* The symbols of a table, each with its NUL
Pieces(Y) == [i \in DOMAIN Y |-> Append(Y[i], 0)]

\* The beginning of a table is the table of its first symbols.
LEMMA TableOfFirst ==
    ASSUME NEW Y \in Seq(Names), NEW g, Joined(g, Pieces(Y), Len(Y)), NEW m \in 1..Len(Y)
    PROVE  Table(SubSeq(Y, 1, m)) = g[m]
  <1>. DEFINE Z == SubSeq(Y, 1, m)
  <1>1. /\ Z \in Seq(Names) /\ Len(Z) = m /\ DOMAIN Z = 1..m /\ m \in Nat \ {0}
        /\ \A i \in 1..m : Z[i] = Y[i]
    <2>1. PICK n \in Nat : n = Len(Y) /\ m \in 1..n
      BY LenProperties
    <2>. QED BY <2>1, SubSeqProperties
  <1>. HIDE DEF Z
  <1>2. Len(Pieces(Z)) = m
    BY <1>1 DEF Pieces
  <1>3. \A i \in 1..m : Pieces(Y)[i] = Pieces(Z)[i]
    <2>1. DOMAIN Y = 1..Len(Y) /\ \A i \in 1..m : i \in 1..Len(Y)
      BY <1>1, LenProperties
    <2>. QED BY <1>1, <2>1 DEF Pieces
  <1>. DEFINE h == CHOOSE f : f = [i \in 1..Len(Pieces(Z)) |->
                                    IF i = 1 THEN Pieces(Z)[i] ELSE f[i - 1] \o Pieces(Z)[i]]
  <1>4. Joined(h, Pieces(Z), m)
    <2>1. \E f : Joined(f, Pieces(Z), m)
      BY <1>1, JoinedExists
    <2>. QED BY <1>2, <2>1, Zenon DEF Joined
  <1>5. FlattenSeq(Pieces(Z)) = h[m]
    BY <1>1, <1>2 DEF FlattenSeq
  <1>. HIDE DEF h
  <1>6. g[m] = h[m]
    <2>1. Len(Y) \in Nat /\ m \in 0..Len(Y) /\ m \in 1..m
      BY <1>1, LenProperties
    <2>. QED BY <1>3, <1>4, <2>1, JoinedAgree
  <1>7. Table(Z) = FlattenSeq(Pieces(Z))
    BY DEF Table, Pieces
  <1>. QED BY <1>5, <1>6, <1>7 DEF Z

\* Each symbol is put behind the ones before it.
Behind(g, Y, i) ==
  /\ Len(g[i]) = Len(g[i - 1]) + Len(Y[i]) + 1
  /\ \A j \in 1..(Len(Y[i]) + 1) : g[i][Len(g[i - 1]) + j] = CharAt(Y[i], j)
  /\ \A q \in 1..Len(g[i - 1]) : g[i][q] = g[i - 1][q]

LEMMA JoinedPieces ==
    ASSUME NEW Y \in Seq(Names), NEW g, Joined(g, Pieces(Y), Len(Y))
    PROVE  \A i \in 1..Len(Y) :
             /\ g[i] \in Seq(Nat)
             /\ i = 1 => /\ Len(g[i]) = Len(Y[i]) + 1
                         /\ \A j \in 1..(Len(Y[i]) + 1) : g[i][j] = CharAt(Y[i], j)
             /\ i # 1 => Behind(g, Y, i)
  <1>1. PICK n \in Nat : n = Len(Y)
    BY LenProperties
  <1>2. \A i \in 1..n : Y[i] \in Names
    BY <1>1
  <1>3. ASSUME NEW i \in 1..n
        PROVE  /\ Pieces(Y)[i] \in Seq(Nat) /\ Len(Pieces(Y)[i]) = Len(Y[i]) + 1 /\ Len(Y[i]) \in Nat
               /\ \A j \in 1..(Len(Y[i]) + 1) : Pieces(Y)[i][j] = CharAt(Y[i], j)
    <2>1. Pieces(Y)[i] = Append(Y[i], 0)
      BY <1>1, <1>3, LenProperties DEF Pieces
    <2>2. PICK y \in Names : y = Y[i]
      BY <1>2
    <2>3. y \in Seq(Nat)
      <3>1. y \in Seq(Characters)
        BY DEF Names
      <3>2. Len(y) \in Nat /\ \A k \in 1..Len(y) : y[k] \in Nat
        BY CharTypes
      <3>3. y = [k \in 1..Len(y) |-> y[k]]
        BY <3>1, LenProperties
      <3>. QED BY <3>2, <3>3
    <2>4. /\ Append(y, 0) \in Seq(Nat) /\ Len(Append(y, 0)) = Len(y) + 1 /\ Len(y) \in Nat
          /\ \A j \in 1..Len(y) : Append(y, 0)[j] = y[j]
          /\ Append(y, 0)[Len(y) + 1] = 0
      BY <2>3, AppendProperties
    <2>5. ASSUME NEW j \in 1..(Len(y) + 1)
          PROVE  Append(y, 0)[j] = CharAt(y, j)
      <3>1. CASE j \in 1..Len(y)
        BY <2>4, <3>1, CharTypes
      <3>2. CASE j = Len(y) + 1
        <4>1. j \in Nat \ {0} /\ j > Len(y)
          BY <2>4, <3>2
        <4>. QED BY <2>4, <3>2, <4>1, CharTypes
      <3>. QED BY <2>4, <3>1, <3>2
    <2>. QED BY <2>1, <2>2, <2>4, <2>5
  <1>4. \A i \in 1..n : g[i] = IF i = 1 THEN Pieces(Y)[i] ELSE g[i - 1] \o Pieces(Y)[i]
    BY <1>1, Zenon DEF Joined
  <1>5. \A i \in 1..n : g[i] \in Seq(Nat)
    <2>. DEFINE Bad == {i \in Nat : i \in 1..n /\ g[i] \notin Seq(Nat)}
    <2>1. SUFFICES ASSUME Bad # {} PROVE FALSE
      OBVIOUS
    <2>2. PICK i \in Bad : \A k \in Bad : i <= k
      <3>1. Bad \in SUBSET Nat
        OBVIOUS
      <3>. HIDE DEF Bad
      <3>. QED BY <2>1, <3>1, Least
    <2>3. i \in 1..n /\ g[i] \notin Seq(Nat)
      BY <2>2
    <2>4. CASE i = 1
      BY <1>3, <1>4, <2>3, <2>4
    <2>5. CASE i # 1
      <3>1. i - 1 \in 1..n /\ i - 1 \in Nat /\ ~(i <= i - 1)
        BY <2>3, <2>5
      <3>2. g[i - 1] \in Seq(Nat)
        BY <2>2, <3>1
      <3>3. g[i] = g[i - 1] \o Pieces(Y)[i] /\ Pieces(Y)[i] \in Seq(Nat)
        BY <1>3, <1>4, <2>3, <2>5
      <3>4. PICK a \in Seq(Nat), b \in Seq(Nat) : a = g[i - 1] /\ b = Pieces(Y)[i]
        BY <3>2, <3>3
      <3>5. a \o b \in Seq(Nat)
        BY ConcatProperties
      <3>. QED BY <2>3, <3>3, <3>4, <3>5
    <2>. QED BY <2>4, <2>5
  <1>6. ASSUME NEW i \in 1..n, i # 1
        PROVE  Behind(g, Y, i)
    <2>1. PICK a \in Seq(Nat) : a = g[i - 1]
      <3>1. i - 1 \in 1..n
        BY <1>6
      <3>. QED BY <1>5, <3>1
    <2>2. PICK b \in Seq(Nat) : b = Pieces(Y)[i]
      BY <1>3
    <2>3. g[i] = a \o b
      BY <1>4, <1>6, <2>1, <2>2
    <2>4. /\ Len(a \o b) = Len(a) + Len(b)
          /\ \A k \in 1..(Len(a) + Len(b)) : (a \o b)[k] = IF k <= Len(a) THEN a[k] ELSE b[k - Len(a)]
      BY ConcatProperties
    <2>5. PICK m \in Nat, k \in Nat : m = Len(a) /\ k = Len(b)
      BY LenProperties
    <2>6. /\ Len(g[i]) = m + k
          /\ \A q \in 1..(m + k) : g[i][q] = IF q <= m THEN a[q] ELSE b[q - m]
      BY <2>3, <2>4, <2>5
    <2>7. k = Len(Y[i]) + 1 /\ Len(Y[i]) \in Nat /\ \A j \in 1..k : b[j] = CharAt(Y[i], j)
      BY <1>3, <2>2, <2>5
    <2>8. ASSUME NEW j \in 1..k PROVE g[i][m + j] = CharAt(Y[i], j)
      <3>1. m + j \in 1..(m + k) /\ ~(m + j <= m) /\ (m + j) - m = j
        OBVIOUS
      <3>2. g[i][m + j] = b[(m + j) - m]
        BY <2>6, <3>1
      <3>. QED BY <2>7, <3>1, <3>2
    <2>9. ASSUME NEW q \in 1..m PROVE g[i][q] = a[q]
      <3>1. q \in 1..(m + k) /\ q <= m
        OBVIOUS
      <3>. QED BY <2>6, <3>1
    <2>10. Len(g[i]) = m + Len(Y[i]) + 1
      BY <2>6, <2>7
    <2>. QED BY <2>1, <2>5, <2>7, <2>8, <2>9, <2>10 DEF Behind
  <1>7. ASSUME NEW i \in 1..n, i = 1
        PROVE  /\ Len(g[i]) = Len(Y[i]) + 1
               /\ \A j \in 1..(Len(Y[i]) + 1) : g[i][j] = CharAt(Y[i], j)
    BY <1>3, <1>4, <1>7
  <1>. QED BY <1>1, <1>5, <1>6, <1>7

\* and stays there.
LEMMA JoinedStays ==
    ASSUME NEW Y \in Seq(Names), NEW g, Joined(g, Pieces(Y), Len(Y)),
           NEW i \in 1..Len(Y), NEW k \in i..Len(Y)
    PROVE  Len(g[i]) <= Len(g[k]) /\ \A q \in 1..Len(g[i]) : g[k][q] = g[i][q]
  <1>. DEFINE Good(m) == Len(g[i]) <= Len(g[m]) /\ \A q \in 1..Len(g[i]) : g[m][q] = g[i][q]
              Bad == {m \in Nat : m \in i..Len(Y) /\ ~Good(m)}
  <1>0. PICK n \in Nat : n = Len(Y)
    BY LenProperties
  <1>1. SUFFICES ASSUME Bad # {} PROVE FALSE
    BY <1>0
  <1>2. PICK m \in Bad : \A j \in Bad : m <= j
    <2>1. Bad \in SUBSET Nat
      OBVIOUS
    <2>. HIDE DEF Bad
    <2>. QED BY <1>1, <2>1, Least
  <1>3. m \in Nat /\ m \in i..n /\ ~Good(m)
    BY <1>0, <1>2
  <1>4. \A j \in 1..n : Len(g[j]) \in Nat
    BY <1>0, JoinedPieces, LenProperties
  <1>5. m # i
    <2>1. Good(i)
      BY <1>0, <1>4
    <2>. QED BY <1>3, <2>1
  <1>6. m - 1 \in i..n /\ m - 1 \in 1..n /\ m \in 1..n /\ m # 1 /\ m - 1 \in Nat /\ ~(m <= m - 1)
    BY <1>0, <1>3, <1>5
  <1>7. Good(m - 1)
    BY <1>0, <1>2, <1>6
  <1>8. /\ Len(g[m]) = Len(g[m - 1]) + Len(Y[m]) + 1
        /\ \A q \in 1..Len(g[m - 1]) : g[m][q] = g[m - 1][q]
    <2>1. m \in 1..Len(Y) /\ m # 1
      BY <1>0, <1>6
    <2>2. Behind(g, Y, m)
      <3>. HIDE DEF Bad
      <3>. QED BY <2>1, JoinedPieces
    <2>. QED BY <2>2 DEF Behind
  <1>9. Len(Y[m]) \in Nat
    <2>1. Y[m] \in Names
      BY <1>0, <1>6
    <2>. QED BY <2>1, CharTypes
  <1>10. PICK x \in Nat, y \in Nat, z \in Nat : x = Len(g[i]) /\ y = Len(g[m - 1]) /\ z = Len(g[m])
    BY <1>0, <1>4, <1>6
  <1>11. x <= y /\ y <= z
    <2>1. PICK l0 \in Nat : l0 = Len(Y[m])
      BY <1>9
    <2>2. z = y + l0 + 1
      BY <1>8, <1>10, <2>1
    <2>. QED BY <1>7, <1>10, <2>2
  <1>12. ASSUME NEW q \in 1..x PROVE g[m][q] = g[i][q]
    <2>1. q \in 1..y
      BY <1>11
    <2>. QED BY <1>7, <1>8, <1>10, <2>1
  <1>13. Good(m)
    <2>1. Len(g[i]) <= Len(g[m])
      BY <1>10, <1>11
    <2>. QED BY <1>10, <1>12, <2>1
  <1>. QED BY <1>3, <1>13

\* The table is a sequence.
LEMMA TableLength ==
    ASSUME NEW Y \in Seq(Names)
    PROVE  Len(Table(Y)) \in Nat
  <1>0. PICK n \in Nat : n = Len(Y)
    BY LenProperties
  <1>1. PICK g : Joined(g, Pieces(Y), Len(Y))
    BY <1>0, JoinedExists
  <1>2. CASE n = 0
    <2>1. Y = <<>>
      BY <1>0, <1>2, EmptySeq
    <2>2. Pieces(Y) = <<>>
      BY <2>1 DEF Pieces
    <2>3. Table(Y) = Pieces(Y)
      BY <2>2 DEF Table, Pieces, FlattenSeq
    <2>. QED BY <2>2, <2>3
  <1>3. CASE n # 0
    <2>1. n \in 1..Len(Y)
      BY <1>0, <1>3
    <2>2. Table(SubSeq(Y, 1, n)) = g[n]
      BY <1>1, <2>1, TableOfFirst
    <2>3. SubSeq(Y, 1, n) = Y
      BY <1>0, SubSeqFull
    <2>4. g[n] \in Seq(Nat)
      BY <1>1, <2>1, JoinedPieces
    <2>. QED BY <2>2, <2>3, <2>4, LenProperties
  <1>. QED BY <1>2, <1>3

\* A symbol is in the table from its start to its NUL, before the next one.
TableFacts(Y) ==
  /\ Start(Y, 1) = 1
  /\ \A i \in 1..(Len(Y) + 1) : Start(Y, i) \in Nat \ {0}
  /\ \A i \in 1..Len(Y) :
       /\ Start(Y, i + 1) = Start(Y, i) + Len(Y[i]) + 1
       /\ Start(Y, i + 1) <= Len(Table(Y)) + 1
       /\ \A j \in 1..(Len(Y[i]) + 1) : Table(Y)[Start(Y, i) + j - 1] = CharAt(Y[i], j)
  /\ Start(Y, Len(Y) + 1) = Len(Table(Y)) + 1

LEMMA SymbolsInTable ==
    ASSUME NEW Y \in Seq(Names)
    PROVE  TableFacts(Y)
  <1>0. PICK n \in Nat : n = Len(Y)
    BY LenProperties
  <1>1. PICK g : Joined(g, Pieces(Y), Len(Y))
    BY <1>0, JoinedExists
  <1>2. \A i \in 1..n : g[i] \in Seq(Nat) /\ Len(g[i]) \in Nat
    BY <1>0, <1>1, JoinedPieces, LenProperties
  <1>3. \A i \in 1..n : Table(SubSeq(Y, 1, i)) = g[i]
    BY <1>0, <1>1, TableOfFirst
  <1>4. Start(Y, 1) = 1
    <2>1. Len(SubSeq(Y, 1, 0)) = 0 /\ DOMAIN SubSeq(Y, 1, 0) = {}
      OBVIOUS
    <2>2. PICK e : e = SubSeq(Y, 1, 0)
      OBVIOUS
    <2>3. Pieces(e) = [i \in {} |-> Append(e[i], 0)]
      BY <2>1, <2>2 DEF Pieces
    <2>4. Len(Pieces(e)) = 0
      <3>1. Pieces(e) = <<>>
        BY <2>3
      <3>. QED BY <3>1, EmptySeq
    <2>5. Table(e) = Pieces(e)
      BY <2>4 DEF Table, Pieces, FlattenSeq
    <2>6. Start(Y, 1) = Len(Table(SubSeq(Y, 1, 1 - 1))) + 1
      BY DEF Start
    <2>. QED BY <2>2, <2>4, <2>5, <2>6
  <1>5. \A i \in 1..n : Start(Y, i + 1) = Len(g[i]) + 1
    <2>. TAKE i \in 1..n
    <2>1. (i + 1) - 1 = i
      OBVIOUS
    <2>. QED BY <1>3, <2>1 DEF Start
  <1>6. n # 0 => Table(Y) = g[n]
    <2>1. SubSeq(Y, 1, Len(Y)) = Y
      BY <1>0, SubSeqFull
    <2>2. n # 0 => n \in 1..n
      OBVIOUS
    <2>. QED BY <1>0, <1>3, <2>1, <2>2, Zenon
  <1>7. \A i \in 1..(n + 1) : Start(Y, i) \in Nat \ {0}
    <2>. SUFFICES ASSUME NEW i \in 1..(n + 1), i # 1 PROVE Start(Y, i) \in Nat \ {0}
      BY <1>4
    <2>1. i - 1 \in 1..n /\ (i - 1) + 1 = i
      OBVIOUS
    <2>2. Start(Y, i) = Len(g[i - 1]) + 1 /\ Len(g[i - 1]) \in Nat
      BY <1>2, <1>5, <2>1
    <2>. QED BY <2>2
  <1>8. Start(Y, n + 1) = Len(Table(Y)) + 1
    <2>1. CASE n = 0
      <3>1. SubSeq(Y, 1, 0) = Y
        BY <1>0, <2>1, SubSeqFull
      <3>2. Start(Y, n + 1) = Len(Table(SubSeq(Y, 1, (n + 1) - 1))) + 1 /\ (n + 1) - 1 = 0
        BY <2>1 DEF Start
      <3>. QED BY <3>1, <3>2, Zenon
    <2>2. CASE n # 0
      <3>1. n \in 1..n
        BY <2>2
      <3>. QED BY <1>5, <1>6, <2>2, <3>1
    <2>. QED BY <2>1, <2>2
  <1>9. ASSUME NEW i \in 1..n
        PROVE  /\ Start(Y, i + 1) = Start(Y, i) + Len(Y[i]) + 1
               /\ Start(Y, i + 1) <= Len(Table(Y)) + 1
               /\ \A j \in 1..(Len(Y[i]) + 1) : Table(Y)[Start(Y, i) + j - 1] = CharAt(Y[i], j)
    <2>1. /\ i = 1 => /\ Len(g[i]) = Len(Y[i]) + 1
                      /\ \A j \in 1..(Len(Y[i]) + 1) : g[i][j] = CharAt(Y[i], j)
          /\ i # 1 => /\ Len(g[i]) = Len(g[i - 1]) + Len(Y[i]) + 1
                      /\ \A j \in 1..(Len(Y[i]) + 1) : g[i][Len(g[i - 1]) + j] = CharAt(Y[i], j)
      BY <1>0, <1>1, JoinedPieces DEF Behind
    <2>2. Len(g[i]) <= Len(g[n]) /\ \A q \in 1..Len(g[i]) : g[n][q] = g[i][q]
      <3>1. i \in 1..Len(Y) /\ n \in i..Len(Y)
        BY <1>0
      <3>. QED BY <1>1, <3>1, JoinedStays
    <2>3. PICK len \in Nat : len = Len(Y[i])
      <3>1. Y[i] \in Names
        BY <1>0
      <3>. QED BY <3>1, CharTypes
    <2>4. PICK end \in Nat : end = Len(g[i])
      BY <1>2
    <2>5. Table(Y) = g[n]
      BY <1>6
    <2>6. PICK at \in Nat : /\ Start(Y, i) = at + 1 /\ end = at + len + 1
                            /\ \A j \in 1..(len + 1) : g[i][at + j] = CharAt(Y[i], j)
      <3>1. CASE i = 1
        <4>1. /\ Start(Y, i) = 0 + 1 /\ end = 0 + len + 1
              /\ \A j \in 1..(len + 1) : 0 + j = j
          BY <1>4, <2>1, <2>3, <2>4, <3>1
        <4>2. \A j \in 1..(len + 1) : g[i][j] = CharAt(Y[i], j)
          BY <2>1, <2>3, <3>1, Zenon
        <4>3. \A j \in 1..(len + 1) : g[i][0 + j] = CharAt(Y[i], j)
          BY <4>1, <4>2, Zenon
        <4>4. 0 \in Nat
          OBVIOUS
        <4>. QED BY <4>1, <4>3, <4>4, Zenon
      <3>2. CASE i # 1
        <4>1. i - 1 \in 1..n /\ (i - 1) + 1 = i
          BY <3>2
        <4>2. PICK at \in Nat : at = Len(g[i - 1])
          BY <1>2, <4>1
        <4>3. Start(Y, i) = at + 1 /\ end = at + len + 1
          BY <1>5, <2>1, <2>3, <2>4, <3>2, <4>1, <4>2
        <4>4. \A j \in 1..(len + 1) : g[i][at + j] = CharAt(Y[i], j)
          BY <2>1, <2>3, <3>2, <4>2
        <4>. QED BY <4>3, <4>4
      <3>. QED BY <3>1, <3>2
    <2>7. Start(Y, i + 1) = end + 1
      BY <1>5, <2>4
    <2>8. ASSUME NEW j \in 1..(len + 1) PROVE Table(Y)[Start(Y, i) + j - 1] = CharAt(Y[i], j)
      <3>1. at + j \in 1..end /\ (at + 1) + j - 1 = at + j
        BY <2>6
      <3>2. g[n][at + j] = g[i][at + j]
        BY <2>2, <2>4, <3>1
      <3>. QED BY <2>5, <2>6, <3>1, <3>2
    <2>9. end <= Len(Table(Y)) /\ Len(Table(Y)) \in Nat
      <3>1. n \in 1..n
        OBVIOUS
      <3>. QED BY <1>2, <2>2, <2>4, <2>5, <3>1
    <2>10. Start(Y, i + 1) = Start(Y, i) + len + 1 /\ Start(Y, i + 1) <= Len(Table(Y)) + 1
      BY <2>6, <2>7, <2>9
    <2>. QED BY <2>3, <2>8, <2>10
  <1>. QED BY <1>0, <1>4, <1>7, <1>8, <1>9 DEF TableFacts

-----------------------------------------------------------------------------
(* A comparison *)

\* The names at hand.
AtHand == /\ Symbol \in Seq(Names) /\ Ascending(Symbol) /\ Len(Symbol) \in Nat
          /\ functions \in Seq(Names) /\ \A i \in 1..Len(functions) : functions[i] \in Names
          /\ TableFacts(Symbol) /\ idx \in Nat \ {0} /\ str \in Nat
          /\ lib \in 1..Len(libs) /\ fi \in Nat \ {0} /\ Len(functions) \in Nat

Types == IInv /\ TypeOK /\ DOMAIN libs = 1..Len(libs) /\ idx # 0

LEMMA NamesAtHand == Types /\ Searching => AtHand
  <1>. SUFFICES ASSUME Types, Searching PROVE AtHand
    OBVIOUS
  <1>1. lib \in 1..Len(libs) /\ lib \in DOMAIN libs
    <2>1. lib \in 1..(Len(libs) + 1) /\ lib <= Len(libs) /\ DOMAIN libs = 1..Len(libs) /\ lib \in Nat \ {0}
      BY DEF Types, TypeOK, IInv, Searching
    <2>2. Len(libs) \in Nat
      <3>1. Len(DllOf) \in Nat
        BY DllAssumption, LenProperties
      <3>. QED BY <3>1 DEF Types, IInv
    <2>. QED BY <2>1, <2>2
  <1>2. Symbol \in Seq(Symbols) /\ Ascending(Symbol)
    BY <1>1 DEF Types, TypeOK, Searching, Symbol
  <1>3. Symbol \in Seq(Names)
    <2>1. Symbols \subseteq Names
      BY SymbolsAssumption
    <2>2. Len(Symbol) \in Nat /\ \A i \in 1..Len(Symbol) : Symbol[i] \in Names
      BY <1>2, <2>1
    <2>3. Symbol = [i \in 1..Len(Symbol) |-> Symbol[i]]
      BY <1>2
    <2>4. PICK Y : Y = Symbol
      OBVIOUS
    <2>5. Len(Y) \in Nat /\ (\A i \in 1..Len(Y) : Y[i] \in Names) /\ Y = [i \in 1..Len(Y) |-> Y[i]]
      BY <2>2, <2>3, <2>4, Zenon
    <2>6. Y \in Seq(Names)
      BY <2>5
    <2>. QED BY <2>4, <2>6
  <1>4. TableFacts(Symbol)
    BY <1>3, SymbolsInTable
  <1>5. \A i \in 1..Len(functions) : functions[i] \in Names
    <2>1. functions \in Seq(Symbols) /\ Symbols \subseteq Names
      BY SymbolsAssumption DEF Types, IInv
    <2>. QED BY <2>1
  <1>8. functions \in Seq(Names)
    <2>1. functions \in Seq(Symbols)
      BY DEF Types, IInv
    <2>2. Len(functions) \in Nat /\ functions = [i \in 1..Len(functions) |-> functions[i]]
      BY <2>1
    <2>3. PICK f : f = functions
      OBVIOUS
    <2>4. Len(f) \in Nat /\ (\A i \in 1..Len(f) : f[i] \in Names) /\ f = [i \in 1..Len(f) |-> f[i]]
      BY <1>5, <2>2, <2>3, Zenon
    <2>5. f \in Seq(Names)
      BY <2>4
    <2>. QED BY <2>3, <2>5
  <1>6. Len(Symbol) \in Nat
    BY <1>3, LenProperties
  <1>7. fi \in Nat \ {0} /\ Len(functions) \in Nat /\ idx \in Nat \ {0} /\ str \in Nat
    BY LenProperties DEF Types, IInv, TypeOK
  <1>. QED BY <1>1, <1>2, <1>3, <1>4, <1>5, <1>6, <1>7, <1>8 DEF AtHand

\* The symbol at hand: its name, where it is, and where its NUL is
Holds(s, from, nul) ==
  /\ s \in Names /\ s = Symbol[idx] /\ from \in Nat \ {0} /\ nul \in Nat
  /\ from = Start(Symbol, idx) /\ nul = from + Len(s) /\ Start(Symbol, idx + 1) = nul + 1
  /\ nul <= Len(Table(Symbol))
  /\ \A p \in from..nul : Table(Symbol)[p] = CharAt(s, p - from + 1)
  /\ \A p \in from..(nul - 1) : Table(Symbol)[p] \in Nat \ {0}
  /\ Table(Symbol)[nul] = 0

LEMMA SymbolAtHand ==
    ASSUME AtHand, idx <= Len(Symbol)
    PROVE  \E s, from, nul : Holds(s, from, nul)
  <1>1. PICK s \in Names : s = Symbol[idx]
    BY DEF AtHand
  <1>2. PICK n \in Nat : n = Len(s)
    BY CharTypes
  <1>3. idx \in 1..Len(Symbol) /\ idx \in 1..(Len(Symbol) + 1)
    BY DEF AtHand
  <1>4. PICK from \in Nat : from # 0 /\ from = Start(Symbol, idx)
    BY <1>3 DEF AtHand, TableFacts
  <1>5. /\ Start(Symbol, idx + 1) = from + n + 1
        /\ Start(Symbol, idx + 1) <= Len(Table(Symbol)) + 1
        /\ \A j \in 1..(n + 1) : Table(Symbol)[from + j - 1] = CharAt(s, j)
    <2>1. TableFacts(Symbol)
      BY DEF AtHand
    <2>. QED BY <1>1, <1>2, <1>3, <1>4, <2>1 DEF TableFacts
  <1>6. PICK t : t = Table(Symbol)
    OBVIOUS
  <1>7. ASSUME NEW p \in from..(from + n)
        PROVE  t[p] = CharAt(s, p - from + 1)
    <2>1. p - from + 1 \in 1..(n + 1) /\ from + (p - from + 1) - 1 = p
      OBVIOUS
    <2>. QED BY <1>5, <1>6, <2>1
  <1>8. ASSUME NEW p \in from..(from + n - 1)
        PROVE  t[p] \in Nat \ {0}
    <2>1. p \in from..(from + n) /\ p - from + 1 \in Nat \ {0} /\ ~(p - from + 1 > n)
      OBVIOUS
    <2>2. CharAt(s, p - from + 1) \in Nat \ {0}
      BY <1>2, <2>1, CharTypes
    <2>. QED BY <1>7, <2>1, <2>2
  <1>9. t[from + n] = 0
    <2>1. from + n \in from..(from + n) /\ (from + n) - from + 1 = n + 1 /\ n + 1 \in Nat \ {0} /\ n + 1 > n
      OBVIOUS
    <2>2. CharAt(s, n + 1) = 0
      BY <1>2, <2>1, CharTypes
    <2>3. t[from + n] = CharAt(s, (from + n) - from + 1)
      BY <1>7, <2>1
    <2>. QED BY <2>1, <2>2, <2>3
  <1>10. PICK nul \in Nat : nul = from + n
    OBVIOUS
  <1>11. nul <= Len(t)
    <2>1. Start(Symbol, Len(Symbol) + 1) = Len(t) + 1 /\ Start(Symbol, Len(Symbol) + 1) \in Nat
      <3>1. Len(Symbol) + 1 \in 1..(Len(Symbol) + 1)
        BY DEF AtHand
      <3>. QED BY <1>6, <3>1 DEF AtHand, TableFacts
    <2>2. PICK e \in Nat : e = Start(Symbol, Len(Symbol) + 1)
      BY <2>1
    <2>3. nul + 1 <= e
      BY <1>5, <1>6, <1>10, <2>1, <2>2
    <2>. QED BY <1>10, <2>1, <2>2, <2>3
  <1>12. Holds(s, from, nul)
    <2>1. Start(Symbol, idx + 1) = nul + 1 /\ nul = from + Len(s) /\ from \in Nat \ {0}
      BY <1>2, <1>4, <1>5, <1>10
    <2>. QED BY <1>1, <1>4, <1>6, <1>7, <1>8, <1>9, <1>10, <1>11, <2>1 DEF Holds
  <1>. QED BY <1>12

\* A comparison stays in the symbol it begins in, up to its NUL.
LEMMA RunStays ==
    ASSUME AtHand, Comparing, NEW s, NEW from, NEW nul, Holds(s, from, nul), str \in from..nul
    PROVE  /\ Run \in Nat /\ Run <= Len(Target) /\ Stop \in str..nul
           /\ Target \in Names
           /\ \A j \in 1..Run : CharAt(Target, j) = Table(Symbol)[str + j - 1]
           /\ Run < Len(Target) => ~Equal(Run + 1)
           /\ AfterNul(Stop) = nul + 1
  <1>. DEFINE K == {k \in 0..Len(Target) : \A j \in 1..k : Equal(j)}
  <1>1. Target \in Names /\ Len(Target) \in Nat
    <2>1. fi \in 1..Len(functions)
      BY DEF AtHand, Comparing
    <2>. QED BY <2>1, CharTypes DEF AtHand, Target
  <1>2. K \in SUBSET (0..Len(Target)) /\ 0 \in K
    BY <1>1
  <1>3. Run \in K /\ \A k \in K : k <= Run
    <2>1. Run = Max(K)
      BY DEF Run
    <2>. HIDE DEF K
    <2>2. K # {}
      BY <1>2
    <2>. QED BY <1>1, <1>2, <2>1, <2>2, Greatest
  <1>4. PICK R \in Nat : R = Run
    BY <1>3
  <1>5. R \in 0..Len(Target) /\ \A j \in 1..R : Equal(j)
    BY <1>3, <1>4
  <1>6. ASSUME R < Len(Target), Equal(R + 1)
        PROVE  FALSE
    <2>1. R + 1 \in 0..Len(Target)
      BY <1>1, <1>6
    <2>2. \A j \in 1..(R + 1) : Equal(j)
      <3>. TAKE j \in 1..(R + 1)
      <3>1. j = R + 1 \/ j \in 1..R
        OBVIOUS
      <3>. QED BY <1>5, <1>6, <3>1
    <2>3. R + 1 \in K
      BY <2>1, <2>2
    <2>4. R + 1 <= R
      BY <1>3, <1>4, <2>3
    <2>. QED BY <2>4
  <1>7. /\ nul \in Nat /\ from \in Nat \ {0} /\ Table(Symbol)[nul] = 0
        /\ \A p \in from..(nul - 1) : Table(Symbol)[p] \in Nat \ {0}
        /\ nul <= Len(Table(Symbol))
    BY DEF Holds
  <1>8. str \in Nat
    BY <1>7
  <1>9. str + R <= nul
    <2>1. SUFFICES ASSUME ~(str + R <= nul) PROVE FALSE
      OBVIOUS
    <2>2. nul - str + 1 \in 1..R /\ str + (nul - str + 1) - 1 = nul
      BY <1>7, <1>8, <2>1
    <2>3. Equal(nul - str + 1)
      BY <1>5, <2>2
    <2>. QED BY <1>7, <2>2, <2>3 DEF Equal
  <1>10. Stop = str + R
    BY <1>4 DEF Stop
  <1>11. AfterNul(Stop) = nul + 1
    <2>. DEFINE Q == {q \in (str + R)..Len(Table(Symbol)) : Table(Symbol)[q] = 0}
    <2>1. nul \in Q
      <3>1. PICK t : t = Table(Symbol)
        OBVIOUS
      <3>2. Len(t) \in Int => nul \in (str + R)..Len(t)
        BY <1>7, <1>9, <3>1
      <3>3. Len(t) \in Int
        <4>1. Symbol \in Seq(Names)
          BY DEF AtHand
        <4>. QED BY <3>1, <4>1, TableLength
      <3>. QED BY <1>7, <3>1, <3>2, <3>3
    <2>2. Q \in SUBSET Nat
      BY <1>4, <1>8
    <2>3. Min(Q) \in Q /\ \A q \in Q : Min(Q) <= q
      <3>. HIDE DEF Q
      <3>. QED BY <2>1, <2>2, Least
    <2>4. PICK m \in Nat : m = Min(Q)
      BY <2>2, <2>3
    <2>5. m <= nul /\ str + R <= m /\ Table(Symbol)[m] = 0
      BY <1>4, <1>8, <2>1, <2>3, <2>4
    <2>6. m = nul
      <3>1. SUFFICES ASSUME m # nul PROVE FALSE
        OBVIOUS
      <3>2. m \in from..(nul - 1)
        BY <1>7, <1>8, <2>5, <3>1
      <3>. QED BY <1>7, <2>5, <3>2
    <2>7. AfterNul(Stop) = 1 + Min(Q)
      BY <1>10 DEF AfterNul
    <2>. HIDE DEF Q
    <2>8. AfterNul(Stop) = 1 + nul
      BY <2>4, <2>6, <2>7, Zenon
    <2>9. 1 + nul = nul + 1
      BY <1>7
    <2>. QED BY <2>8, <2>9, Zenon
  <1>12. \A j \in 1..R : CharAt(Target, j) = Table(Symbol)[str + j - 1]
    BY <1>5 DEF Equal
  <1>13. Stop \in str..nul
    BY <1>7, <1>8, <1>9, <1>10
  <1>. QED BY <1>1, <1>4, <1>5, <1>6, <1>11, <1>12, <1>13

LEMMA FoldTypes == \A c \in Nat : Fold(c) \in Nat
  BY DEF Fold

LEMMA PastLess == \A x, y \in Nat : Past(x, y) => x < y
  BY DEF Past

\* A symbol that is not passed starts with no letter from b to y.
LEMMA PassedLess == \A x, y \in Nat : x < y /\ ~Past(x, y) => y \notin 98..121
  BY DEF Past

LEMMA NulStays == \A x \in Nat : ~Past(x, Fold(0))
  BY DEF Past, Fold

\* The characters that are compared are those that are folded in order.
LEMMA CharsCompared ==
    ASSUME AtHand, Comparing, FoldKeepsOrder, NEW s, NEW from, NEW nul, Holds(s, from, nul)
    PROVE  /\ \A k \in Nat \ {0} : CharAt(Target, k) \in Chars /\ CharAt(s, k) \in Chars
           /\ \A c, d \in Chars : c \in Nat /\ d \in Nat =>
                /\ Fold(c) = Fold(d) => c = d
                /\ Fold(c) < Fold(d) => c < d
           /\ 0 \in Chars
  <1>0. /\ fi \in 1..Len(functions) /\ Target = functions[fi] /\ Target \in Names
        /\ idx \in 1..Len(Symbol) /\ s = Symbol[idx] /\ s \in Names
    BY DEF AtHand, Comparing, Holds, Target
  <1>1. DOMAIN functions = 1..Len(functions) /\ DOMAIN Symbol = 1..Len(Symbol)
    <2>1. Symbol \in Seq(Names) /\ functions \in Seq(Names)
      BY DEF AtHand
    <2>. QED BY <2>1, LenProperties
  <1>2. Target \in Range(functions) /\ s \in Range(Symbol)
    BY <1>0, <1>1 DEF Range
  <1>3. ASSUME NEW a \in Range(functions) \union Range(Symbol), a \in Names, NEW k \in Nat \ {0}
        PROVE  CharAt(a, k) \in Chars
    <2>1. CASE k > Len(a)
      <3>1. CharAt(a, k) = 0
        BY <1>3, <2>1, CharTypes
      <3>. QED BY <3>1 DEF Chars
    <2>2. CASE ~(k > Len(a))
      <3>1. Len(a) \in Nat /\ a \in Seq(Characters)
        BY <1>3, CharTypes DEF Names
      <3>2. k \in 1..Len(a) /\ DOMAIN a = 1..Len(a)
        BY <2>2, <3>1, LenProperties
      <3>3. CharAt(a, k) = a[k]
        BY <1>3, <3>2, CharTypes
      <3>4. CharAt(a, k) \in Range(a)
        BY <3>2, <3>3 DEF Range
      <3>. QED BY <3>4 DEF Chars
    <2>. QED BY <2>1, <2>2
  <1>4. \A k \in Nat \ {0} : CharAt(Target, k) \in Chars /\ CharAt(s, k) \in Chars
    BY <1>0, <1>2, <1>3
  <1>5. ASSUME NEW c \in Chars, NEW d \in Chars, c \in Nat, d \in Nat
        PROVE  /\ Fold(c) = Fold(d) => c = d
               /\ Fold(c) < Fold(d) => c < d
    <2>1. (c < d => Fold(c) < Fold(d)) /\ (d < c => Fold(d) < Fold(c))
      BY DEF FoldKeepsOrder
    <2>2. PICK x \in Nat, y \in Nat : x = Fold(c) /\ y = Fold(d)
      BY <1>5, FoldTypes
    <2>. QED BY <1>5, <2>1, <2>2
  <1>6. 0 \in Chars
    BY DEF Chars
  <1>. QED BY <1>4, <1>5, <1>6

\* A function compared from the start of a symbol is found if it is the symbol;
\* otherwise the comparison tells which of the two comes first.
LEMMA FromStart ==
    ASSUME AtHand, Comparing, FoldKeepsOrder, NEW s, NEW from, NEW nul, Holds(s, from, nul), str = from
    PROVE  /\ l = r => Target = s /\ Stop = nul
           /\ l # r => (Less(s, Target) /\ ~Past(l, r)) \/ Less(Target, s)
           /\ Less(Target, s) => (Stop = str \/ Target[1] = s[1])
           /\ Less(Target, s) /\ l # r /\ ~Past(l, r) => Target[1] = s[1] \/ Fold(s[1]) \notin 98..121
  <1>1. /\ s \in Names /\ Target \in Names /\ from \in Nat \ {0} /\ nul \in Nat /\ nul = from + Len(s)
        /\ Len(s) \in Nat \ {0} /\ Len(Target) \in Nat \ {0} /\ str \in from..nul
    <2>1. /\ s \in Names /\ from \in Nat \ {0} /\ nul = from + Len(s) /\ nul \in Nat
      BY DEF Holds
    <2>2. Len(s) \in Nat \ {0}
      BY <2>1, CharTypes
    <2>3. Target \in Names
      <3>1. fi \in 1..Len(functions)
        BY DEF AtHand, Comparing
      <3>. QED BY <3>1 DEF AtHand, Target
    <2>4. Len(Target) \in Nat \ {0}
      BY <2>3, CharTypes
    <2>5. str \in from..nul
      BY <2>1, <2>2
    <2>. QED BY <2>1, <2>2, <2>3, <2>4, <2>5
  <1>2. PICK R \in Nat : R = Run
    BY <1>1, RunStays
  <1>3. /\ R <= Len(Target) /\ Stop = from + R /\ R <= Len(s)
        /\ \A j \in 1..R : CharAt(Target, j) = Table(Symbol)[str + j - 1]
        /\ R < Len(Target) => ~Equal(R + 1)
    <2>1. Stop = str + Run
      BY DEF Stop
    <2>2. Stop \in str..nul /\ Run <= Len(Target)
      BY <1>1, RunStays
    <2>3. R <= Len(s)
      BY <1>1, <1>2, <2>1, <2>2
    <2>. QED BY <1>1, <1>2, <2>1, <2>2, <2>3, RunStays
  <1>4. \A j \in 1..(Len(s) + 1) : Table(Symbol)[str + j - 1] = CharAt(s, j)
    <2>. TAKE j \in 1..(Len(s) + 1)
    <2>1. from + j - 1 \in from..nul /\ (from + j - 1) - from + 1 = j
      BY <1>1
    <2>2. Table(Symbol)[from + j - 1] = CharAt(s, (from + j - 1) - from + 1)
      BY <2>1 DEF Holds
    <2>. QED BY <2>1, <2>2
  <1>5. \A j \in 1..R : CharAt(Target, j) = s[j] /\ Target[j] = s[j] /\ CharAt(s, j) = Target[j]
    <2>. TAKE j \in 1..R
    <2>1. j \in 1..Len(s) /\ j \in 1..Len(Target) /\ j \in 1..(Len(s) + 1)
      BY <1>1, <1>3
    <2>2. CharAt(Target, j) = CharAt(s, j)
      BY <1>3, <1>4, <2>1
    <2>. QED BY <1>1, <2>1, <2>2, CharTypes
  <1>6. PICK c \in Nat, d \in Nat : c = CharAt(Target, R + 1) /\ d = CharAt(s, R + 1)
    <2>1. R + 1 \in Nat \ {0}
      OBVIOUS
    <2>. QED BY <1>1, <2>1, CharTypes
  <1>7. c \in Chars /\ d \in Chars
    <2>1. R + 1 \in Nat \ {0}
      OBVIOUS
    <2>. QED BY <1>6, <2>1, CharsCompared
  <1>8. l = Fold(c) /\ r = Fold(d) /\ Table(Symbol)[Stop] = d
    <2>1. R + 1 \in 1..(Len(s) + 1) /\ str + (R + 1) - 1 = Stop
      BY <1>1, <1>3
    <2>2. Table(Symbol)[Stop] = d
      BY <1>4, <1>6, <2>1
    <2>. QED BY <1>2, <1>6, <2>2 DEF l, r
  <1>9. (l = r => c = d) /\ (l < r => c < d) /\ (r < l => d < c) /\ l \in Nat /\ r \in Nat
    BY <1>6, <1>7, <1>8, CharsCompared, FoldTypes
  <1>10. ASSUME l = r
         PROVE  Target = s /\ Stop = nul
    <2>1. c = d
      BY <1>9, <1>10
    <2>2. R = Len(Target)
      <3>1. SUFFICES ASSUME R # Len(Target) PROVE FALSE
        OBVIOUS
      <3>2. R < Len(Target) /\ R + 1 \in 1..Len(Target)
        BY <1>1, <1>3, <3>1
      <3>3. c # 0
        BY <1>1, <1>6, <3>2, CharTypes
      <3>4. Equal(R + 1)
        <4>1. str + (R + 1) - 1 = Stop
          BY <1>1, <1>3
        <4>. QED BY <1>6, <1>8, <2>1, <3>3, <4>1 DEF Equal
      <3>. QED BY <1>3, <3>2, <3>4
    <2>3. c = 0
      <3>1. R + 1 \in Nat \ {0} /\ R + 1 > Len(Target)
        BY <1>1, <2>2
      <3>. QED BY <1>1, <1>6, <3>1, CharTypes
    <2>4. R = Len(s)
      <3>1. R + 1 \in Nat \ {0}
        OBVIOUS
      <3>2. R + 1 > Len(s)
        BY <1>1, <1>6, <2>1, <2>3, <3>1, CharTypes
      <3>. QED BY <1>1, <1>3, <3>2
    <2>5. Target = s
      <3>1. PICK t \in Names : t = Target
        BY <1>1
      <3>2. t \in Seq(Characters) /\ s \in Seq(Characters) /\ Len(t) = R /\ Len(s) = R
        BY <1>1, <2>2, <2>4, <3>1 DEF Names
      <3>3. \A j \in 1..R : t[j] = s[j]
        BY <1>5, <3>1
      <3>. QED BY <3>1, <3>2, <3>3, SeqEqual
    <2>. QED BY <1>1, <1>3, <2>4, <2>5
  <1>11. ASSUME l < r
         PROVE  Less(Target, s)
    <2>1. c < d /\ d # 0
      BY <1>6, <1>9, <1>11
    <2>2. R + 1 \in 1..Len(s) /\ d = s[R + 1]
      <3>1. R + 1 \in Nat \ {0}
        OBVIOUS
      <3>2. ~(R + 1 > Len(s))
        BY <1>1, <1>6, <2>1, <3>1, CharTypes
      <3>3. R + 1 \in 1..Len(s)
        BY <1>1, <3>2
      <3>. QED BY <1>1, <1>6, <3>3, CharTypes
    <2>3. \A j \in 1..((R + 1) - 1) : CharAt(Target, j) = s[j]
      <3>1. (R + 1) - 1 = R
        OBVIOUS
      <3>. QED BY <1>5, <3>1
    <2>. QED BY <1>6, <2>1, <2>2, <2>3 DEF Less
  <1>12. ASSUME r < l
         PROVE  Less(s, Target)
    <2>1. d < c /\ c # 0
      BY <1>6, <1>9, <1>12
    <2>2. R + 1 \in 1..Len(Target) /\ c = Target[R + 1]
      <3>1. R + 1 \in Nat \ {0}
        OBVIOUS
      <3>2. ~(R + 1 > Len(Target))
        BY <1>1, <1>6, <2>1, <3>1, CharTypes
      <3>3. R + 1 \in 1..Len(Target)
        BY <1>1, <3>2
      <3>. QED BY <1>1, <1>6, <3>3, CharTypes
    <2>3. \A j \in 1..((R + 1) - 1) : CharAt(s, j) = Target[j]
      <3>1. (R + 1) - 1 = R
        OBVIOUS
      <3>. QED BY <1>5, <3>1
    <2>. QED BY <1>6, <2>1, <2>2, <2>3 DEF Less
  <1>13. R # 0 => Target[1] = s[1]
    <2>1. R # 0 => 1 \in 1..R
      OBVIOUS
    <2>. QED BY <1>5, <2>1
  <1>14. R = 0 => Stop = str /\ r = Fold(s[1])
    <2>1. CharAt(s, 1) = s[1]
      <3>1. 1 \in 1..Len(s)
        BY <1>1
      <3>. QED BY <1>1, <3>1, CharTypes
    <2>2. R = 0 => R + 1 = 1 /\ from + R = from
      BY <1>1
    <2>. QED BY <1>3, <1>6, <1>8, <2>1, <2>2, Zenon
  <1>15. l # r => l < r \/ r < l
    BY <1>9
  <1>16. r < l => ~Past(l, r)
    BY <1>9, PastLess
  <1>17. ASSUME Less(Target, s), l # r, ~Past(l, r)
         PROVE  Target[1] = s[1] \/ Fold(s[1]) \notin 98..121
    <2>1. ~(r < l)
      <3>1. ~Less(Target, Target)
        BY <1>1, LessIrreflexive
      <3>. QED BY <1>1, <1>12, <1>17, <3>1, LessTransitive
    <2>2. r \notin 98..121
      BY <1>9, <1>15, <1>17, <2>1, PassedLess
    <2>. QED BY <1>13, <1>14, <2>2
  <1>. QED BY <1>10, <1>11, <1>12, <1>13, <1>14, <1>15, <1>16, <1>17

\* At the NUL of a symbol nothing is found or given up.
LEMMA FromNul ==
    ASSUME AtHand, Comparing, FoldKeepsOrder, NEW s, NEW from, NEW nul, Holds(s, from, nul), str = nul
    PROVE  l # r /\ ~Past(l, r) /\ Stop = nul
  <1>1. /\ s \in Names /\ Target \in Names /\ nul \in Nat /\ Table(Symbol)[nul] = 0
        /\ Len(Target) \in Nat \ {0} /\ str \in from..nul
    <2>1. /\ s \in Names /\ from \in Nat \ {0} /\ nul = from + Len(s) /\ nul \in Nat
          /\ Table(Symbol)[nul] = 0
      BY DEF Holds
    <2>2. Len(s) \in Nat \ {0}
      BY <2>1, CharTypes
    <2>3. Target \in Names
      <3>1. fi \in 1..Len(functions)
        BY DEF AtHand, Comparing
      <3>. QED BY <3>1 DEF AtHand, Target
    <2>4. Len(Target) \in Nat \ {0}
      BY <2>3, CharTypes
    <2>5. str \in from..nul
      BY <2>1, <2>2
    <2>. QED BY <2>1, <2>3, <2>4, <2>5
  <1>2. Stop = nul /\ Run \in Nat
    <2>1. Stop \in str..nul /\ Run \in Nat
      BY <1>1, RunStays
    <2>. QED BY <1>1, <2>1
  <1>3. Run = 0
    <2>1. Stop = str + Run
      BY DEF Stop
    <2>. QED BY <1>1, <1>2, <2>1
  <1>4. r = Fold(0)
    BY <1>1, <1>2 DEF r
  <1>5. PICK c \in Nat : c = CharAt(Target, 1) /\ c # 0 /\ c \in Chars
    <2>1. 1 \in Nat \ {0} /\ ~(1 > Len(Target))
      BY <1>1
    <2>2. CharAt(Target, 1) \in Nat /\ CharAt(Target, 1) # 0
      BY <1>1, <2>1, CharTypes
    <2>. QED BY <2>1, <2>2, CharsCompared
  <1>6. l = Fold(c)
    <2>1. Run + 1 = 1
      BY <1>3
    <2>. QED BY <1>5, <2>1 DEF l
  <1>7. Fold(c) # Fold(0)
    <2>1. 0 \in Chars /\ 0 \in Nat
      BY CharsCompared
    <2>. QED BY <1>5, <2>1, CharsCompared
  <1>8. ~Past(l, r)
    BY <1>4, <1>5, <1>6, FoldTypes, NulStays
  <1>. QED BY <1>2, <1>4, <1>6, <1>7, <1>8

-----------------------------------------------------------------------------
(* The functions that are sure *)

\* The beginning of what ascends ascends, and each function before is smaller.
LEMMA AscendingFirst ==
    ASSUME AtHand, NEW i \in 1..Len(functions), NEW j \in 1..Len(functions), j < i,
           Ascending(SubSeq(functions, 1, i))
    PROVE  Ascending(SubSeq(functions, 1, j)) /\ Less(functions[j], functions[i])
  <1>1. PICK n \in Nat : n = Len(functions)
    BY DEF AtHand
  <1>2. functions \in Seq(Names)
    BY DEF AtHand
  <1>3. ASSUME NEW k \in 1..n
        PROVE  /\ SubSeq(functions, 1, k) \in Seq(Names) /\ Len(SubSeq(functions, 1, k)) = k
               /\ \A p \in 1..k : SubSeq(functions, 1, k)[p] = functions[p]
    <2>1. k \in 1..Len(functions)
      BY <1>1
    <2>. QED BY <1>2, <2>1, SubSeqProperties
  <1>4. PICK f \in Seq(Names) : /\ f = SubSeq(functions, 1, i) /\ Len(f) = i
                                /\ \A p \in 1..i : f[p] = functions[p]
    BY <1>1, <1>3
  <1>5. PICK g \in Seq(Names) : /\ g = SubSeq(functions, 1, j) /\ Len(g) = j
                                /\ \A p \in 1..j : g[p] = functions[p]
    BY <1>1, <1>3
  <1>6. Ascending(f) /\ i \in Nat /\ j \in Nat
    BY <1>1, <1>4
  <1>7. Ascending(g)
    <2>1. ASSUME NEW p \in 1..(j - 1)
          PROVE  Less(g[p], g[p + 1])
      <3>1. p \in 1..(i - 1) /\ p \in 1..j /\ p + 1 \in 1..j /\ p \in 1..i /\ p + 1 \in 1..i
        BY <1>6
      <3>2. Less(f[p], f[p + 1])
        BY <1>4, <1>6, <3>1 DEF Ascending
      <3>. QED BY <1>4, <1>5, <3>1, <3>2
    <2>. QED BY <1>5, <2>1 DEF Ascending
  <1>8. Less(f[j], f[i])
    <2>1. i \in 1..Len(f) /\ j \in 1..Len(f)
      BY <1>4, <1>6
    <2>. QED BY <1>6, <2>1, AscendingPairs
  <1>9. f[j] = functions[j] /\ f[i] = functions[i]
    BY <1>4, <1>6
  <1>. QED BY <1>5, <1>7, <1>8, <1>9

\* A function is sure only if those before it are.
LEMMA SureBefore ==
    ASSUME AtHand, NEW i \in 1..Len(functions), Sure(i), NEW j \in 1..Len(functions), j < i
    PROVE  Sure(j) /\ Less(functions[j], functions[i])
  <1>1. Ascending(SubSeq(functions, 1, j)) /\ Less(functions[j], functions[i])
    BY AscendingFirst DEF Sure
  <1>2. ~LostBefore(j)
    <2>1. SUFFICES ASSUME LostBefore(j) PROVE LostBefore(i)
      BY DEF Sure
    <2>2. \A k \in 1..(j - 1) : k \in 1..(i - 1)
      BY DEF AtHand
    <2>. QED BY <2>1, <2>2 DEF LostBefore
  <1>. QED BY <1>1, <1>2 DEF Sure

\* None is after a function that is given up inside a symbol, or passed by one.
LEMMA NotSureAfter ==
    ASSUME AtHand, NEW i \in 1..Len(functions), Sure(i), NEW s, s \in Range(Symbol),
           fi < i, fi \notin visited, Target \notin Range(Symbol), Less(Target, s),
           Target[1] = s[1] \/ Fold(s[1]) \notin 98..121
    PROVE  FALSE
  <1>1. fi \in 1..(i - 1)
    BY DEF AtHand
  <1>2. LostBefore(i)
    BY <1>1 DEF LostBefore, Target
  <1>. QED BY <1>2 DEF Sure

\* A function between two symbols is not in the library.
LEMMA Between ==
    ASSUME AtHand, fi \in 1..Len(functions), NEW s, idx <= Len(Symbol), s = Symbol[idx],
           \A p \in 1..(idx - 1) : Less(Symbol[p], Target), Less(Target, s)
    PROVE  Target \notin Range(Symbol)
  <1>1. SUFFICES ASSUME Target \in Range(Symbol) PROVE FALSE
    OBVIOUS
  <1>2. Symbol \in Seq(Names) /\ Ascending(Symbol) /\ idx \in 1..Len(Symbol) /\ Len(Symbol) \in Nat
    BY DEF AtHand
  <1>3. PICK p \in 1..Len(Symbol) : Symbol[p] = Target
    <2>1. DOMAIN Symbol = 1..Len(Symbol)
      BY <1>2, LenProperties
    <2>. QED BY <1>1, <2>1 DEF Range
  <1>4. Target \in Names /\ s \in Names
    BY <1>2, <1>3
  <1>5. ~Less(Target, Target)
    BY <1>4, LessIrreflexive
  <1>6. ~(p < idx)
    <2>1. p < idx => p \in 1..(idx - 1)
      BY <1>2
    <2>. QED BY <1>3, <1>5, <2>1
  <1>7. p # idx
    BY <1>3, <1>5
  <1>8. idx < p
    BY <1>2, <1>6, <1>7
  <1>9. Less(s, Target)
    BY <1>2, <1>3, <1>8, AscendingPairs
  <1>. QED BY <1>4, <1>5, <1>9, LessTransitive

LEMMA NamesAtHandNext == Types' /\ Searching' => AtHand'
  <1>1. Types /\ Searching => AtHand
    BY NamesAtHand
  <1>. QED BY <1>1, PTL

-----------------------------------------------------------------------------
(* The steps *)

\* In step, a comparison is of the symbol at hand.
LEMMA CountedPlace ==
    ASSUME AtHand, Comparing, Counted
    PROVE  \E s, from, nul : Holds(s, from, nul) /\ str \in from..nul
  <1>1. idx <= Len(Symbol)
    BY DEF Comparing
  <1>2. PICK s, from, nul : Holds(s, from, nul)
    BY <1>1, SymbolAtHand
  <1>3. from <= str /\ str < nul + 1 /\ from \in Nat /\ nul \in Nat
    BY <1>1, <1>2 DEF Counted, Holds
  <1>4. str \in Int
    BY DEF AtHand
  <1>. QED BY <1>2, <1>3, <1>4

LEMMA TypesKept ==
    ASSUME SearchIInv, [Next]_vars
    PROVE  Types'
  <1>1. IInv'
    BY NextKeepsIInv DEF SearchIInv
  <1>2. IInv /\ TypeOK /\ DOMAIN libs = 1..Len(libs) /\ idx # 0 /\ Len(functions) \in Nat /\ Len(libs) \in Nat
    <2>1. Len(DllOf) \in Nat
      BY DllAssumption, LenProperties
    <2>. QED BY <2>1, LenProperties DEF SearchIInv, InStep, IInv
  <1>3. functions' = functions /\ libs' = libs
    BY DEF Next, vars, SkipVisited, Exhausted, GiveUp, NextSymbol, Mismatch, Found, NextLibrary, Done
  <1>4. fi' \in 1..(Len(functions) + 1) /\ lib' \in 1..(Len(libs) + 1)
    <2>1. fi \in 1..(Len(functions) + 1) /\ lib \in 1..(Len(libs) + 1)
      BY <1>2 DEF TypeOK
    <2>2. \/ fi' = fi \/ (fi' = fi + 1 /\ fi <= Len(functions)) \/ fi' = 1
      BY DEF Next, vars, SkipVisited, Exhausted, GiveUp, NextSymbol, Mismatch, Found, NextLibrary, Done,
             NextFunction, Comparing
    <2>3. \/ lib' = lib \/ (lib' = lib + 1 /\ lib <= Len(libs))
      BY DEF Next, vars, SkipVisited, Exhausted, GiveUp, NextSymbol, Mismatch, Found, NextLibrary, Done
    <2>. QED BY <1>2, <2>1, <2>2, <2>3
  <1>5. idx' \in Nat /\ idx' # 0
    <2>1. idx \in Nat /\ idx # 0
      BY <1>2 DEF TypeOK
    <2>2. idx' = idx \/ idx' = idx + 1 \/ idx' = 1
      BY DEF Next, vars, SkipVisited, Exhausted, GiveUp, NextSymbol, Mismatch, Found, NextLibrary, Done
    <2>. QED BY <2>1, <2>2
  <1>6. str' \in Nat
    <2>1. CASE str' = str \/ str' = 1
      BY <1>2, <2>1 DEF TypeOK
    <2>2. CASE Comparing /\ (str' = Stop \/ str' = AfterNul(Stop))
      <3>1. Searching /\ Counted
        BY <2>2 DEF Comparing, SearchIInv, InStep
      <3>2. AtHand
        BY <3>1, NamesAtHand DEF SearchIInv, InStep, Types
      <3>3. PICK s, from, nul : Holds(s, from, nul) /\ str \in from..nul
        BY <2>2, <3>1, <3>2, CountedPlace
      <3>4. from \in Nat /\ nul \in Nat
        BY <3>3 DEF Holds
      <3>5. Stop \in str..nul /\ AfterNul(Stop) = nul + 1
        BY <2>2, <3>2, <3>3, RunStays
      <3>6. str \in Nat
        BY <3>3, <3>4
      <3>. QED BY <2>2, <3>4, <3>5, <3>6
    <2>. QED BY <2>1, <2>2
         DEF Next, vars, SkipVisited, Exhausted, GiveUp, NextSymbol, Mismatch, Found, NextLibrary, Done
  <1>7. visited' \subseteq DOMAIN functions
    <2>1. visited' \subseteq 1..Len(functions')
      BY <1>1 DEF IInv
    <2>2. DOMAIN functions = 1..Len(functions)
      BY <1>2, LenProperties DEF TypeOK
    <2>. QED BY <1>3, <2>1, <2>2
  <1>8. \A d \in DOMAIN entries' : entries'[d] \in Seq(Symbols)
    BY <1>1 DEF IInv
  <1>9. pc' \in {"search", "mismatch", "done"}
    <2>1. pc \in {"search", "mismatch", "done"}
      BY <1>2 DEF TypeOK
    <2>2. pc' = pc \/ pc' = "mismatch" \/ pc' = "done"
      BY DEF Next, vars, SkipVisited, Exhausted, GiveUp, NextSymbol, Mismatch, Found, NextLibrary, Done
    <2>. QED BY <2>1, <2>2
  <1>10. TypeOK'
    BY <1>2, <1>3, <1>4, <1>5, <1>6, <1>7, <1>8, <1>9 DEF TypeOK
  <1>. QED BY <1>1, <1>2, <1>3, <1>5, <1>10 DEF Types

\* The first symbol starts where the search of a library does.
LEMMA FirstCounted ==
    ASSUME NEW Y \in Seq(Names)
    PROVE  IF 1 <= Len(Y) THEN Start(Y, 1) <= 1 /\ 1 < Start(Y, 1 + 1)
                          ELSE 1 = Len(Y) + 1 /\ 1 = Len(Table(Y)) + 1
  <1>1. TableFacts(Y) /\ Len(Y) \in Nat
    BY SymbolsInTable, LenProperties
  <1>2. Start(Y, 1) = 1 /\ Start(Y, Len(Y) + 1) = Len(Table(Y)) + 1
    BY <1>1 DEF TableFacts
  <1>3. CASE 1 <= Len(Y)
    <2>1. 1 \in 1..Len(Y)
      BY <1>1, <1>3
    <2>2. Start(Y, 1 + 1) = Start(Y, 1) + Len(Y[1]) + 1
      BY <1>1, <2>1 DEF TableFacts
    <2>3. Len(Y[1]) \in Nat
      <3>1. Y[1] \in Names
        BY <2>1
      <3>. QED BY <3>1, CharTypes
    <2>. QED BY <1>2, <1>3, <2>2, <2>3
  <1>4. CASE ~(1 <= Len(Y))
    <2>1. Len(Y) = 0
      BY <1>1, <1>4
    <2>2. Start(Y, 0 + 1) = Len(Table(Y)) + 1 /\ 0 + 1 = 1
      BY <1>2, <2>1
    <2>. QED BY <1>2, <1>4, <2>1, <2>2
  <1>. QED BY <1>3, <1>4

\* string_table stays in the symbol that string_table_idx counts.
LEMMA CountedKept ==
    ASSUME SearchIInv, [Next]_vars
    PROVE  (Searching => Counted)'
  <1>. SUFFICES ASSUME Searching' PROVE Counted'
    OBVIOUS
  <1>0. AtHand'
    BY TypesKept, NamesAtHandNext
  <1>1. CASE NextLibrary
    <2>1. TableFacts(Symbol') /\ Len(Symbol') \in Nat /\ idx' = 1 /\ str' = 1
      BY <1>0, <1>1 DEF AtHand, NextLibrary
    <2>2. Symbol' \in Seq(Names)
      BY <1>0 DEF AtHand
    <2>. QED BY <2>1, <2>2, FirstCounted DEF Counted
  <1>2. ASSUME ~NextLibrary
        PROVE  Counted'
    <2>1. pc' # "mismatch" /\ pc' # "done" /\ pc' = "search"
      BY DEF Searching
    <2>2. lib' = lib /\ libs' = libs /\ Symbol' = Symbol
      BY <1>2, <2>1 DEF Next, vars, SkipVisited, Exhausted, GiveUp, NextSymbol, Mismatch, Found, NextLibrary,
                 Done, Symbol
    <2>3. CASE idx' = idx /\ str' = str /\ pc' = pc
      <3>1. Searching
        BY <2>2, <2>3 DEF Searching
      <3>. QED BY <2>2, <2>3, <3>1 DEF Counted, SearchIInv, InStep
    <2>4. CASE Comparing /\ ((idx' = idx /\ str' = Stop) \/ (idx' = idx + 1 /\ str' = AfterNul(Stop)))
      <3>1. Searching /\ Counted /\ idx <= Len(Symbol)
        BY <2>4 DEF Comparing, SearchIInv, InStep
      <3>2. AtHand
        BY <3>1, NamesAtHand DEF SearchIInv, InStep, Types
      <3>3. PICK s, from, nul : Holds(s, from, nul) /\ str \in from..nul
        BY <2>4, <3>1, <3>2, CountedPlace
      <3>4. from \in Nat /\ nul \in Nat /\ from = Start(Symbol, idx) /\ Start(Symbol, idx + 1) = nul + 1
        BY <3>3 DEF Holds
      <3>5. Stop \in str..nul /\ AfterNul(Stop) = nul + 1
        BY <2>4, <3>2, <3>3, RunStays
      <3>6. CASE idx' = idx /\ str' = Stop
        <4>1. from <= str' /\ str' < nul + 1
          BY <3>3, <3>4, <3>5, <3>6
        <4>. QED BY <2>2, <3>1, <3>4, <3>6, <4>1 DEF Counted
      <3>7. CASE idx' = idx + 1 /\ str' = AfterNul(Stop)
        <4>1. str' = Start(Symbol, idx')
          BY <3>4, <3>5, <3>7
        <4>2. idx \in Nat /\ Len(Symbol) \in Nat /\ TableFacts(Symbol)
          BY <3>2 DEF AtHand
        <4>3. CASE idx + 1 <= Len(Symbol)
          <5>1. idx + 1 \in 1..Len(Symbol)
            BY <4>2, <4>3
          <5>2. Start(Symbol, (idx + 1) + 1) = Start(Symbol, idx + 1) + Len(Symbol[idx + 1]) + 1
            BY <4>2, <5>1 DEF TableFacts
          <5>3. Len(Symbol[idx + 1]) \in Nat
            <6>1. Symbol[idx + 1] \in Names
              BY <3>2, <5>1 DEF AtHand
            <6>. QED BY <6>1, CharTypes
          <5>4. Start(Symbol, idx + 1) <= str' /\ str' < Start(Symbol, (idx + 1) + 1)
            BY <3>4, <3>7, <4>1, <5>2, <5>3
          <5>. QED BY <2>2, <3>7, <4>3, <5>4 DEF Counted
        <4>4. CASE ~(idx + 1 <= Len(Symbol))
          <5>1. idx + 1 = Len(Symbol) + 1
            BY <3>1, <4>2, <4>4
          <5>2. Start(Symbol, Len(Symbol) + 1) = Len(Table(Symbol)) + 1
            BY <4>2 DEF TableFacts
          <5>. QED BY <2>2, <3>7, <4>1, <4>4, <5>1, <5>2 DEF Counted
        <4>. QED BY <4>3, <4>4
      <3>. QED BY <2>4, <3>6, <3>7
    <2>5. CASE SkipVisited \/ Exhausted \/ UNCHANGED vars
      <3>1. idx' = idx /\ str' = str /\ pc' = pc
        BY <2>5 DEF SkipVisited, Exhausted, vars
      <3>. QED BY <2>3, <3>1
    <2>6. CASE GiveUp \/ Found
      <3>1. Comparing /\ idx' = idx /\ str' = Stop
        BY <2>6 DEF GiveUp, Found
      <3>. QED BY <2>4, <3>1
    <2>7. CASE NextSymbol
      <3>1. Comparing /\ idx' = idx + 1 /\ str' = AfterNul(Stop)
        BY <2>7 DEF NextSymbol
      <3>. QED BY <2>4, <3>1
    <2>8. CASE Mismatch \/ Done
      BY <2>1, <2>8 DEF Mismatch, Done
    <2>. QED BY <1>2, <2>5, <2>6, <2>7, <2>8 DEF Next
  <1>. QED BY <1>1, <1>2

WellSearched == Searching /\ FoldKeepsOrder => AheadWhenSure /\ FoundWhenSure

\* A function that is sure and not yet searched for: where the pointer is, and
\* that it is not in the library if it comes before the symbol at hand.
LEMMA WhereSure ==
    ASSUME AtHand, Comparing, AheadWhenSure, NEW i \in fi..Len(functions), Sure(i),
           NEW s, NEW from, NEW nul, Holds(s, from, nul)
    PROVE  /\ Sure(fi) /\ i \in 1..Len(functions) /\ fi \in 1..Len(functions)
           /\ i # fi => fi < i /\ Less(Target, functions[i]) /\ Ahead(i)
           /\ str = from \/ (str = nul /\ Less(s, functions[i]))
           /\ Less(Target, s) => Target \notin Range(Symbol)
  <1>1. fi \in 1..Len(functions) /\ i \in 1..Len(functions) /\ fi \in fi..Len(functions)
    BY DEF AtHand, Comparing
  <1>2. s = Symbol[idx] /\ idx <= Len(Symbol) /\ Start(Symbol, idx) = from
        /\ Start(Symbol, idx + 1) - 1 = nul
    BY DEF Comparing, Holds
  <1>3. i # fi => fi < i
    BY <1>1 DEF AtHand
  <1>4. Sure(fi)
    BY <1>1, <1>3, SureBefore
  <1>5. i # fi => Less(Target, functions[i])
    BY <1>1, <1>3, SureBefore DEF Target
  <1>6. Ahead(i) \/ PassedAbsent(i)
    BY DEF AheadWhenSure
  <1>7. i # fi => Ahead(i)
    BY <1>6 DEF PassedAbsent
  <1>8. str = from \/ (str = nul /\ Less(s, functions[i]))
    BY <1>2, <1>6 DEF Ahead, PassedAbsent
  <1>9. Less(Target, s) => Target \notin Range(Symbol)
    <2>1. CASE Ahead(fi)
      <3>1. \A p \in 1..(idx - 1) : Less(Symbol[p], Target)
        BY <2>1 DEF Ahead, Target
      <3>. QED BY <1>1, <1>2, <3>1, Between
    <2>2. CASE PassedAbsent(fi)
      BY <2>2 DEF PassedAbsent, Target
    <2>. QED BY <1>1, <1>4, <2>1, <2>2 DEF AheadWhenSure
  <1>. QED BY <1>1, <1>3, <1>4, <1>5, <1>7, <1>8, <1>9

\* The library and what is sure of the functions stay, while nothing is found.
Same == /\ functions' = functions /\ libs' = libs /\ lib' = lib /\ visited' = visited

LEMMA SameSure ==
    ASSUME Same
    PROVE  /\ Symbol' = Symbol /\ (FoldKeepsOrder' <=> FoldKeepsOrder)
           /\ \A i : Sure(i)' <=> Sure(i)
  <1>1. Symbol' = Symbol
    BY DEF Same, Symbol
  <1>2. FoldKeepsOrder' <=> FoldKeepsOrder
    BY <1>1 DEF Same, FoldKeepsOrder, Chars
  <1>3. \A i : Sure(i)' <=> Sure(i)
    BY <1>1 DEF Same, Sure, LostBefore
  <1>. QED BY <1>1, <1>2, <1>3

\* The functions up to the next one have been searched for, if this one was.
LEMMA FoundNext ==
    ASSUME AtHand, fi' = fi + 1, Symbol' = Symbol, functions' = functions,
           visited \subseteq visited', \A i \in 1..Len(functions) : Sure(i)' => Sure(i),
           fi \in 1..Len(functions), FoundWhenSure,
           Sure(fi) /\ functions[fi] \in Range(Symbol) => fi \in visited'
    PROVE  FoundWhenSure'
  <1>1. ASSUME NEW i \in 1..(fi' - 1), Sure(i)', functions[i] \in Range(Symbol)
        PROVE  i \in visited'
    <2>1. i = fi \/ i \in 1..(fi - 1)
      BY <1>1 DEF AtHand
    <2>2. i \in 1..Len(functions)
      BY <2>1 DEF AtHand
    <2>3. Sure(i)
      BY <1>1, <2>2
    <2>. QED BY <1>1, <2>1, <2>3 DEF FoundWhenSure
  <1>. QED BY <1>1 DEF FoundWhenSure

LEMMA GiveUpKeeps ==
    ASSUME AtHand, Counted, GiveUp, FoldKeepsOrder, AheadWhenSure, FoundWhenSure
    PROVE  AheadWhenSure' /\ FoundWhenSure'
  <1>0. /\ Comparing /\ l # r /\ Past(l, r) /\ str' = Stop /\ fi' = fi + 1 /\ idx' = idx
        /\ fi \notin visited /\ fi \in 1..Len(functions)
    BY DEF GiveUp, NextFunction, AtHand, Comparing
  <1>1. Same
    BY DEF GiveUp, Same
  <1>2. PICK s, from, nul : Holds(s, from, nul) /\ str \in from..nul
    BY <1>0, CountedPlace
  <1>3. s \in Range(Symbol)
    <2>1. idx \in 1..Len(Symbol) /\ s = Symbol[idx] /\ DOMAIN Symbol = 1..Len(Symbol)
      BY <1>0, <1>2, LenProperties DEF AtHand, Comparing, Holds
    <2>. QED BY <2>1 DEF Range
  <1>4. str # nul
    BY <1>0, <1>2, FromNul
  <1>5. str = from => Less(Target, s) /\ (Stop = str \/ Target[1] = s[1])
    BY <1>0, <1>2, FromStart
  <1>6. ASSUME NEW i \in fi'..Len(functions), Sure(i)
        PROVE  Ahead(i)'
    <2>1. i \in fi..Len(functions) /\ i # fi
      BY <1>0, <1>6
    <2>2. /\ i \in 1..Len(functions) /\ fi < i /\ Ahead(i) /\ str = from
          /\ Less(Target, s) => Target \notin Range(Symbol)
      BY <1>0, <1>2, <1>4, <1>6, <2>1, WhereSure
    <2>3. Stop = str
      <3>1. SUFFICES ASSUME Stop # str PROVE FALSE
        OBVIOUS
      <3>2. Less(Target, s) /\ Target[1] = s[1] /\ Target \notin Range(Symbol)
        BY <1>5, <2>2, <3>1
      <3>. QED BY <1>0, <1>3, <1>6, <2>2, <3>2, NotSureAfter
    <2>. QED BY <1>0, <1>1, <2>2, <2>3, SameSure DEF Ahead, Same
  <1>7. AheadWhenSure'
    BY <1>1, <1>6, SameSure DEF AheadWhenSure, Same
  <1>8. ASSUME Sure(fi) PROVE functions[fi] \notin Range(Symbol)
    <2>1. fi \in fi..Len(functions)
      BY <1>0
    <2>2. /\ str = from
          /\ Less(Target, s) => Target \notin Range(Symbol)
      BY <1>0, <1>2, <1>4, <1>8, <2>1, WhereSure
    <2>. QED BY <1>5, <2>2 DEF Target
  <1>9. FoundWhenSure'
    BY <1>0, <1>1, <1>8, SameSure, FoundNext DEF Same
  <1>. QED BY <1>7, <1>9

LEMMA NextSymbolKeeps ==
    ASSUME AtHand, Counted, NextSymbol, FoldKeepsOrder, AheadWhenSure, FoundWhenSure
    PROVE  AheadWhenSure' /\ FoundWhenSure'
  <1>0. /\ Comparing /\ l # r /\ ~Past(l, r) /\ str' = AfterNul(Stop) /\ fi' = fi /\ idx' = idx + 1
        /\ fi \notin visited /\ fi \in 1..Len(functions)
    BY DEF NextSymbol, AtHand, Comparing
  <1>1. Same
    BY DEF NextSymbol, Same
  <1>2. PICK s, from, nul : Holds(s, from, nul) /\ str \in from..nul
    BY <1>0, CountedPlace
  <1>3. s \in Range(Symbol) /\ s = Symbol[idx] /\ s \in Names /\ idx \in Nat /\ Target \in Names
    <2>1. idx \in 1..Len(Symbol) /\ s = Symbol[idx] /\ DOMAIN Symbol = 1..Len(Symbol) /\ s \in Names
      BY <1>0, <1>2, LenProperties DEF AtHand, Comparing, Holds
    <2>2. Target \in Names
      BY <1>0 DEF AtHand, Target
    <2>. QED BY <2>1, <2>2 DEF Range, AtHand
  <1>4. str' = Start(Symbol, idx + 1)
    <2>1. AfterNul(Stop) = nul + 1
      BY <1>0, <1>2, RunStays
    <2>. QED BY <1>0, <1>2, <2>1 DEF Holds
  <1>5. str = from => \/ Less(s, Target)
                      \/ Less(Target, s) /\ (Target[1] = s[1] \/ Fold(s[1]) \notin 98..121)
    BY <1>0, <1>2, FromStart
  <1>6. ASSUME NEW i \in fi..Len(functions), Sure(i)
        PROVE  Ahead(i)' \/ PassedAbsent(i)'
    <2>1. /\ i \in 1..Len(functions)
          /\ i # fi => fi < i /\ Less(Target, functions[i]) /\ Ahead(i)
          /\ str = from \/ (str = nul /\ Less(s, functions[i]))
          /\ Less(Target, s) => Target \notin Range(Symbol)
      BY <1>0, <1>2, <1>6, WhereSure
    <2>2. CASE PassedAbsent(i) \/ (i = fi /\ Less(Target, s))
      <3>1. i = fi /\ functions[i] \notin Range(Symbol)
        BY <2>1, <2>2 DEF PassedAbsent, Target
      <3>2. PassedAbsent(i)'
        BY <1>0, <1>1, <1>4, <3>1, SameSure DEF PassedAbsent, Same
      <3>. QED BY <3>2
    <2>3. CASE ~PassedAbsent(i) /\ ~(i = fi /\ Less(Target, s))
      <3>1. Ahead(i)
        BY <1>6, <2>3 DEF AheadWhenSure
      <3>2. Less(s, functions[i])
        <4>1. CASE str = from /\ Less(s, Target)
          <5>1. i # fi => functions[i] \in Names
            BY <2>1 DEF AtHand
          <5>2. i = fi => functions[i] = Target
            BY DEF Target
          <5>. QED BY <1>3, <2>1, <4>1, <5>1, <5>2, LessTransitive
        <4>2. CASE str = from /\ Less(Target, s) /\ (Target[1] = s[1] \/ Fold(s[1]) \notin 98..121)
          <5>1. fi < i /\ Target \notin Range(Symbol)
            BY <2>1, <2>3, <4>2
          <5>. QED BY <1>0, <1>3, <1>6, <2>1, <4>2, <5>1, NotSureAfter
        <4>. QED BY <1>5, <2>1, <4>1, <4>2
      <3>3. \A p \in 1..((idx + 1) - 1) : Less(Symbol[p], functions[i])
        <4>. TAKE p \in 1..((idx + 1) - 1)
        <4>1. p = idx \/ p \in 1..(idx - 1)
          BY <1>3
        <4>. QED BY <1>3, <3>1, <3>2, <4>1 DEF Ahead
      <3>4. Symbol' = Symbol /\ functions' = functions
        BY <1>1, SameSure DEF Same
      <3>5. Ahead(i)'
        BY <1>0, <1>4, <3>3, <3>4 DEF Ahead
      <3>. QED BY <3>5
    <2>. QED BY <2>2, <2>3
  <1>7. AheadWhenSure'
    BY <1>0, <1>1, <1>6, SameSure DEF AheadWhenSure, Same
  <1>8. FoundWhenSure'
    BY <1>0, <1>1, SameSure DEF FoundWhenSure, Same
  <1>. QED BY <1>7, <1>8

LEMMA FoundKeeps ==
    ASSUME AtHand, Counted, Found, FoldKeepsOrder, AheadWhenSure, FoundWhenSure
    PROVE  AheadWhenSure' /\ FoundWhenSure'
  <1>0. /\ Comparing /\ l = r /\ Member = Target /\ str' = Stop /\ fi' = fi + 1 /\ idx' = idx
        /\ visited' = visited \union {fi} /\ fi \in 1..Len(functions)
        /\ functions' = functions /\ libs' = libs /\ lib' = lib
    BY DEF Found, NextFunction, AtHand, Comparing, Visit
  <1>1. Symbol' = Symbol
    BY <1>0 DEF Symbol
  <1>2. PICK s, from, nul : Holds(s, from, nul) /\ str \in from..nul
    BY <1>0, CountedPlace
  <1>3. Target \in Range(Symbol) /\ s = Target /\ s = Symbol[idx] /\ nul = Start(Symbol, idx + 1) - 1
    <2>1. idx \in 1..Len(Symbol) /\ s = Symbol[idx] /\ DOMAIN Symbol = 1..Len(Symbol)
      BY <1>0, <1>2, LenProperties DEF AtHand, Comparing, Holds
    <2>2. s = Target
      BY <1>0, <2>1 DEF Member
    <2>3. nul \in Nat /\ Start(Symbol, idx + 1) = nul + 1
      BY <1>2 DEF Holds
    <2>4. nul = (nul + 1) - 1
      BY <2>3
    <2>. QED BY <2>1, <2>2, <2>3, <2>4 DEF Range
  <1>4. str # nul
    BY <1>0, <1>2, FromNul
  <1>5. str = from => Stop = nul
    BY <1>0, <1>2, FromStart
  <1>6. ASSUME NEW i \in 1..Len(functions), Sure(i)' PROVE Sure(i)
    <2>1. SUFFICES ASSUME LostBefore(i) PROVE LostBefore(i)'
      BY <1>0, <1>6 DEF Sure
    <2>2. PICK j \in 1..(i - 1) : /\ functions[j] \notin Range(Symbol) /\ j \notin visited
                                  /\ \E t \in Range(Symbol) :
                                       /\ Less(functions[j], t)
                                       /\ functions[j][1] = t[1] \/ Fold(t[1]) \notin 98..121
      BY <2>1 DEF LostBefore
    <2>3. j # fi
      BY <1>3, <2>2 DEF Target
    <2>. QED BY <1>0, <1>1, <2>2, <2>3 DEF LostBefore
  <1>7. ASSUME NEW i \in fi'..Len(functions), Sure(i)
        PROVE  Ahead(i)'
    <2>1. i \in fi..Len(functions) /\ i # fi
      BY <1>0, <1>7
    <2>2. /\ Less(Target, functions[i]) /\ Ahead(i) /\ str = from
      BY <1>0, <1>2, <1>4, <1>7, <2>1, WhereSure
    <2>3. str' = nul /\ idx <= Len(Symbol)
      BY <1>0, <1>5, <2>2 DEF Comparing
    <2>. QED BY <1>0, <1>1, <1>3, <2>2, <2>3 DEF Ahead
  <1>8. AheadWhenSure'
    <2>1. ASSUME NEW i \in fi'..Len(functions), Sure(i)'
          PROVE  Ahead(i)'
      <3>1. i \in 1..Len(functions)
        BY <1>0
      <3>. QED BY <1>6, <1>7, <2>1, <3>1
    <2>. QED BY <1>0, <2>1 DEF AheadWhenSure
  <1>9. FoundWhenSure'
    BY <1>0, <1>1, <1>6, FoundNext
  <1>. QED BY <1>8, <1>9

\* A function that is visited or has no symbol left is not missed.
LEMMA SkipKeeps ==
    ASSUME AtHand, Counted, SkipVisited \/ Exhausted, FoldKeepsOrder, AheadWhenSure, FoundWhenSure
    PROVE  AheadWhenSure' /\ FoundWhenSure'
  <1>0. /\ str' = str /\ fi' = fi + 1 /\ idx' = idx /\ fi \in 1..Len(functions)
        /\ fi \notin visited => idx > Len(Symbol)
    BY DEF SkipVisited, Exhausted, NextFunction, AtHand
  <1>1. Same
    BY DEF SkipVisited, Exhausted, Same
  <1>2. ASSUME NEW i \in fi'..Len(functions), Sure(i)
        PROVE  Ahead(i)'
    <2>1. i \in fi..Len(functions) /\ i # fi
      BY <1>0, <1>2
    <2>2. Ahead(i)
      BY <1>2, <2>1 DEF AheadWhenSure, PassedAbsent
    <2>. QED BY <1>0, <1>1, <2>2, SameSure DEF Ahead, Same
  <1>3. AheadWhenSure'
    BY <1>1, <1>2, SameSure DEF AheadWhenSure, Same
  <1>4. ASSUME Sure(fi), functions[fi] \in Range(Symbol) PROVE fi \in visited
    <2>1. SUFFICES ASSUME fi \notin visited PROVE FALSE
      OBVIOUS
    <2>2. Symbol \in Seq(Names) /\ idx \in Nat /\ Len(Symbol) \in Nat
      BY DEF AtHand
    <2>3. PICK p \in 1..Len(Symbol) : Symbol[p] = functions[fi]
      <3>1. DOMAIN Symbol = 1..Len(Symbol)
        BY <2>2, LenProperties
      <3>. QED BY <1>4, <3>1 DEF Range
    <2>4. p \in 1..(idx - 1)
      BY <1>0, <2>1, <2>2
    <2>5. Ahead(fi)
      <3>1. fi \in fi..Len(functions)
        BY <1>0
      <3>. QED BY <1>4, <3>1 DEF AheadWhenSure, PassedAbsent
    <2>6. Less(functions[fi], functions[fi])
      BY <2>3, <2>4, <2>5 DEF Ahead
    <2>7. functions[fi] \in Names
      BY <1>0 DEF AtHand
    <2>. QED BY <2>6, <2>7, LessIrreflexive
  <1>5. FoundWhenSure'
    BY <1>0, <1>1, <1>4, SameSure, FoundNext DEF Same
  <1>. QED BY <1>3, <1>5

\* A name that is found is looked up under its own index.
LEMMA MismatchLost ==
    ASSUME AtHand, Counted, Mismatch, FoldKeepsOrder, AheadWhenSure
    PROVE  ~Sure(fi)
  <1>1. SUFFICES ASSUME Sure(fi) PROVE FALSE
    OBVIOUS
  <1>2. /\ Comparing /\ l = r /\ Member # Target /\ fi \in fi..Len(functions)
    BY DEF Mismatch, AtHand, Comparing
  <1>3. PICK s, from, nul : Holds(s, from, nul) /\ str \in from..nul
    BY <1>2, CountedPlace
  <1>4. s = Member
    BY <1>3 DEF Holds, Member
  <1>5. str = from \/ str = nul
    BY <1>1, <1>2, <1>3, WhereSure
  <1>6. str # nul
    BY <1>2, <1>3, FromNul
  <1>7. Target = s
    BY <1>2, <1>3, <1>5, <1>6, FromStart
  <1>. QED BY <1>2, <1>4, <1>7

LEMMA SearchKeeps ==
    ASSUME SearchIInv, [Next]_vars
    PROVE  SearchIInv'
  <1>1. Types' /\ (Searching => Counted)'
    BY TypesKept, CountedKept
  <1>2. ASSUME Searching', FoldKeepsOrder'
        PROVE  AheadWhenSure' /\ FoundWhenSure'
    <2>0. pc' = "search"
      BY <1>2 DEF Searching
    <2>1. CASE NextLibrary
      <3>1. AtHand' /\ Counted'
        BY <1>1, <1>2, NamesAtHandNext
      <3>2. idx' = 1 /\ str' = 1 /\ fi' = 1
        BY <2>1 DEF NextLibrary
      <3>3. Start(Symbol', 1) = 1
        BY <3>1 DEF AtHand, TableFacts
      <3>4. \A i : Ahead(i)'
        BY <3>2, <3>3 DEF Ahead
      <3>. QED BY <3>2, <3>4 DEF AheadWhenSure, FoundWhenSure
    <2>2. ASSUME ~NextLibrary
          PROVE  AheadWhenSure' /\ FoundWhenSure'
      <3>0. CASE UNCHANGED vars
        <4>1. Same /\ fi' = fi /\ idx' = idx /\ str' = str /\ Searching
          BY <1>2, <3>0 DEF vars, Same, Searching
        <4>2. FoldKeepsOrder /\ AheadWhenSure /\ FoundWhenSure
          BY <1>2, <4>1, SameSure DEF SearchIInv
        <4>. QED BY <3>0, <4>1, <4>2, SameSure
             DEF AheadWhenSure, FoundWhenSure, Ahead, PassedAbsent, Same
      <3>1. CASE Next
        <4>1. SkipVisited \/ Exhausted \/ GiveUp \/ NextSymbol \/ Found
          BY <2>0, <2>2, <3>1 DEF Next, Mismatch, Done
        <4>2. Searching /\ libs' = libs /\ lib' = lib /\ functions' = functions
          BY <4>1 DEF SkipVisited, Exhausted, GiveUp, NextSymbol, Found, Comparing
        <4>3. FoldKeepsOrder
          BY <1>2, <4>2 DEF FoldKeepsOrder, Chars, Symbol
        <4>4. AtHand /\ Counted /\ AheadWhenSure /\ FoundWhenSure
          BY <4>2, <4>3, NamesAtHand DEF SearchIInv, InStep, Types
        <4>. QED BY <4>1, <4>3, <4>4, SkipKeeps, GiveUpKeeps, NextSymbolKeeps, FoundKeeps
      <3>. QED BY <3>0, <3>1
    <2>. QED BY <2>1, <2>2
  <1>3. ASSUME pc' = "mismatch"
        PROVE  /\ lib' <= Len(libs') /\ libs'[lib'] # NULL /\ fi' <= Len(functions')
               /\ MismatchOnlyWhenLost'
    <2>1. CASE Mismatch
      <3>1. Comparing /\ Searching /\ Same /\ fi' = fi
        BY <2>1 DEF Mismatch, Comparing, Same
      <3>2. lib' <= Len(libs') /\ libs'[lib'] # NULL /\ fi' <= Len(functions')
        BY <3>1 DEF Comparing, Searching, Same
      <3>3. ASSUME FoldKeepsOrder PROVE ~Sure(fi)
        <4>1. AtHand /\ Counted /\ AheadWhenSure
          BY <3>1, <3>3, NamesAtHand DEF SearchIInv, InStep, Types
        <4>. QED BY <2>1, <3>3, <4>1, MismatchLost
      <3>4. FoldKeepsOrder' => ~Sure(fi)'
        BY <3>1, <3>3, SameSure
      <3>. QED BY <3>2, <3>4 DEF MismatchOnlyWhenLost
    <2>2. CASE UNCHANGED vars
      <3>1. Same /\ fi' = fi /\ pc = "mismatch"
        BY <1>3, <2>2 DEF vars, Same
      <3>2. FoldKeepsOrder => ~Sure(fi)
        BY <3>1 DEF SearchIInv, MismatchOnlyWhenLost
      <3>3. FoldKeepsOrder' => ~Sure(fi)'
        BY <3>1, <3>2, SameSure
      <3>4. lib' <= Len(libs') /\ libs'[lib'] # NULL /\ fi' <= Len(functions')
        BY <3>1 DEF SearchIInv, Same
      <3>. QED BY <3>3, <3>4 DEF MismatchOnlyWhenLost
    <2>. QED BY <1>3, <2>1, <2>2
         DEF Next, SkipVisited, Exhausted, GiveUp, NextSymbol, Found, NextLibrary, Done,
             Comparing, Searching
  <1>4. MismatchOnlyWhenLost'
    <2>1. CASE pc' = "mismatch"
      BY <1>3, <2>1
    <2>2. CASE pc' # "mismatch"
      BY <2>2 DEF MismatchOnlyWhenLost
    <2>. QED BY <2>1, <2>2
  <1>. QED BY <1>1, <1>2, <1>3, <1>4 DEF SearchIInv, InStep, Types

LEMMA InitSearch == Init => SearchIInv
  <1>. SUFFICES ASSUME Init PROVE SearchIInv
    OBVIOUS
  <1>1. IInv
    BY InitIInv
  <1>2. /\ lib = 1 /\ fi = 1 /\ idx = 1 /\ str = 1 /\ visited = {} /\ pc = "search"
        /\ entries = [d \in Range(DllOf) |-> <<>>]
        /\ libs \in [DOMAIN DllOf -> {NULL} \union Libraries]
    BY DEF Init
  <1>3. DOMAIN DllOf = 1..Len(DllOf) /\ Len(DllOf) \in Nat
    <2>1. PICK S : S = Range(DllOf)
      OBVIOUS
    <2>2. DllOf \in Seq(S)
      BY <2>1, DllAssumption
    <2>. QED BY <2>2, LenProperties
  <1>4. DOMAIN libs = 1..Len(libs) /\ Len(libs) \in Nat
    <2>1. Len(libs) = Len(DllOf)
      BY <1>1 DEF IInv
    <2>. QED BY <1>2, <1>3, <2>1
  <1>5. \A s \in Libraries : s \in Seq(Symbols) /\ Ascending(s)
    <2>1. \A s \in Libraries : s \in SeqOf(Symbols, MaxSymbols) /\ Ascending(s)
      BY DEF Libraries
    <2>2. ASSUME NEW s \in SeqOf(Symbols, MaxSymbols) PROVE s \in Seq(Symbols)
      <3>1. PICK m \in 0..MaxSymbols : s \in [1..m -> Symbols]
        BY DEF SeqOf
      <3>2. m \in Nat
        BY BoundsAssumption
      <3>. QED BY <3>1, <3>2
    <2>. QED BY <2>1, <2>2
  <1>6. \A i \in DOMAIN libs : libs[i] # NULL => libs[i] \in Seq(Symbols) /\ Ascending(libs[i])
    BY <1>2, <1>5
  <1>7. lib \in 1..(Len(libs) + 1)
    BY <1>2, <1>4
  <1>8. fi \in 1..(Len(functions) + 1) /\ functions \in Seq(Symbols)
    <2>1. functions \in Seq(Symbols)
      BY <1>1 DEF IInv
    <2>2. Len(functions) \in Nat
      BY <2>1, LenProperties
    <2>. QED BY <1>2, <2>1, <2>2
  <1>9. \A d \in DOMAIN entries : entries[d] \in Seq(Symbols)
    BY <1>1 DEF IInv
  <1>10. TypeOK
    BY <1>2, <1>6, <1>7, <1>8, <1>9 DEF TypeOK
  <1>11. idx # 0
    BY <1>2
  <1>12. Types
    BY <1>1, <1>4, <1>10, <1>11 DEF Types
  <1>13. ASSUME Searching PROVE Counted /\ AheadWhenSure /\ FoundWhenSure
    <2>1. AtHand
      BY <1>12, <1>13, NamesAtHand
    <2>2. PICK Y : Y = Symbol
      OBVIOUS
    <2>3. Start(Y, 1) = 1 /\ Start(Y, Len(Y) + 1) = Len(Table(Y)) + 1 /\ Len(Y) \in Nat
      BY <2>1, <2>2 DEF AtHand, TableFacts
    <2>4. Counted
      <3>1. Symbol \in Seq(Names)
        BY <2>1 DEF AtHand
      <3>. QED BY <1>2, <3>1, FirstCounted DEF Counted
    <2>5. \A i : Ahead(i)
      BY <1>2, <2>2, <2>3 DEF Ahead
    <2>6. FoundWhenSure
      BY <1>2 DEF FoundWhenSure
    <2>. QED BY <2>4, <2>5, <2>6 DEF AheadWhenSure
  <1>14. pc # "mismatch" /\ MismatchOnlyWhenLost
    BY <1>2 DEF MismatchOnlyWhenLost
  <1>. QED BY <1>12, <1>13, <1>14 DEF SearchIInv, InStep, Types

-----------------------------------------------------------------------------
(* The theorems of the search *)

\* The inductive invariant of the search holds in every state of every run.
THEOREM SearchInvariance == Spec => []SearchIInv
  <1>1. SearchIInv /\ [Next]_vars => SearchIInv'
    BY SearchKeeps
  <1>. QED BY <1>1, InitSearch, PTL DEF Spec

\* string_table is in the symbol that string_table_idx counts, whatever the
\* outcomes of the comparisons before (pe.c:52-69).
THEOREM StaysInStep == Spec => []InStep
  <1>1. SearchIInv => InStep
    BY DEF SearchIInv
  <1>. QED BY <1>1, SearchInvariance, PTL

\* A library that has been searched has no function that was sure and is not
\* imported (pe.c:47-114).
THEOREM NoneMissed == Spec => []MissedOnlyWhenLost
  <1>1. ASSUME SearchIInv PROVE MissedOnlyWhenLost
    <2>. SUFFICES ASSUME Searching, fi > Len(functions), FoldKeepsOrder,
                         NEW i \in DOMAIN functions, functions[i] \in Range(Symbol), Sure(i)
                  PROVE  i \in visited
      BY DEF MissedOnlyWhenLost
    <2>1. AtHand /\ FoundWhenSure
      BY <1>1, NamesAtHand DEF SearchIInv, InStep, Types
    <2>2. i \in 1..Len(functions)
      <3>1. functions \in Seq(Names)
        BY <2>1 DEF AtHand
      <3>. QED BY <3>1, LenProperties
    <2>3. i \in 1..(fi - 1)
      BY <2>1, <2>2 DEF AtHand
    <2>. QED BY <2>1, <2>3 DEF FoundWhenSure
  <1>. QED BY <1>1, SearchInvariance, PTL

\* The Assert at pe.c:91 fails for no function that was sure.
THEOREM NoneMismatched == Spec => []MismatchOnlyWhenLost
  <1>1. SearchIInv => MismatchOnlyWhenLost
    BY DEF SearchIInv
  <1>. QED BY <1>1, SearchInvariance, PTL

=============================================================================

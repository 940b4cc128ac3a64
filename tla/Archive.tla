------------------------------ MODULE Archive ------------------------------
(***************************************************************************)
(* The search for external functions in import libraries:                  *)
(* parse_archive_library in src/src/pe.c, called by write_pe_exe once for  *)
(* each library.                                                           *)
(*                                                                         *)
(* A library has a table of its symbols, in ascending order, one string    *)
(* after the other.  The search walks it once for all functions: a         *)
(* function that comes before the symbol at hand is given up, and the next *)
(* one is compared from where the pointer is, which may be the middle of a *)
(* symbol.  The functions are in the order qsort leaves them in, and       *)
(* compare is given pointers to the names and not the names, so that the   *)
(* order is that of addresses: any.                                        *)
(*                                                                         *)
(* A name is the sequence of its ASCII codes, because the property is      *)
(* about prefixes and case.  A symbol's member names the symbol itself.    *)
(* This is the debug build.                                                *)
(*                                                                         *)
(* A definition that is only a faulty variant of the next one is named for *)
(* its fault; it shows that a property notices that fault.                 *)
(***************************************************************************)
EXTENDS Integers, Sequences, SequencesExt, FiniteSets, FiniteSetsExt, Functions

CONSTANTS Symbols,       \* the names
          DllOf,         \* the dll each library imports from
          NULL,
          MaxFunctions,  \* bound: external functions of the program
          MaxSymbols     \* bound: symbols of a library

Characters == 1..127
Names == Seq(Characters) \ {<<>>}

ASSUME SymbolsAssumption == /\ IsFiniteSet(Symbols) /\ Symbols \subseteq Names
                            /\ NULL \notin Symbols
ASSUME DllAssumption == DllOf \in Seq(Range(DllOf)) /\ DllOf # <<>>
ASSUME BoundsAssumption == MaxFunctions \in Nat /\ MaxSymbols \in Nat

VARIABLES functions,  \* external_function_names
          libs,       \* the symbols of each library; NULL is no archive
          lib,        \* the library at hand
          fi,         \* function_idx
          idx,        \* string_table_idx
          str,        \* string_table, a place in the table
          visited,    \* visited_functions
          entries,    \* import_entries: the functions found, by dll
          hints,
          pc

vars == <<functions, libs, lib, fi, idx, str, visited, entries, hints, pc>>

\* The character, or the NUL after the last one
CharAt(name, k) == IF k <= Len(name) THEN name[k] ELSE 0

\* The order of strcmp
Less(a, b) == \E k \in 1..Len(b) : /\ \A j \in 1..(k - 1) : CharAt(a, j) = b[j]
                                   /\ CharAt(a, k) < b[k]

Ascending(s) == \A i \in 1..(Len(s) - 1) : Less(s[i], s[i + 1])

\* The symbols one after the other, each with its NUL; where the i-th starts
Table(symbols) == FlattenSeq([i \in DOMAIN symbols |-> Append(symbols[i], 0)])
Start(symbols, i) == Len(Table(SubSeq(symbols, 1, i - 1))) + 1

UpTo(n) == {S \in SUBSET Symbols : Cardinality(S) <= n}

Libraries == {s \in SeqOf(Symbols, MaxSymbols) : Ascending(s)}

Init == /\ functions \in UNION {SetToSeqs(S) : S \in UpTo(MaxFunctions)}
        /\ libs \in [DOMAIN DllOf -> {NULL} \union Libraries]
        /\ lib = 1
        /\ fi = 1
        /\ idx = 1
        /\ str = 1
        /\ visited = {}
        /\ entries = [d \in Range(DllOf) |-> <<>>]
        /\ hints = [i \in DOMAIN functions |-> NULL]
        /\ pc = "search"

-----------------------------------------------------------------------------
(* parse_archive_library *)

Symbol == libs[lib]
Target == functions[fi]

\* c|0x60
Fold(c) == 96 + (c % 32)

\* The place where the function and the table differ, or the symbol ends
Equal(k) == /\ CharAt(Target, k) = Table(Symbol)[str + k - 1]
            /\ Table(Symbol)[str + k - 1] # 0
Run == Max({k \in 0..Len(Target) : \A j \in 1..k : Equal(j)})
Stop == str + Run
l == Fold(CharAt(Target, Run + 1))
r == Fold(Table(Symbol)[Stop])

Searching == /\ pc = "search"
             /\ lib <= Len(libs)
             /\ libs[lib] # NULL
Comparing == /\ Searching
             /\ fi <= Len(functions)
             /\ fi \notin visited
             /\ idx <= Len(Symbol)

NextFunction == fi' = fi + 1

SkipVisited == /\ Searching
               /\ fi <= Len(functions)
               /\ fi \in visited
               /\ NextFunction
               /\ UNCHANGED <<functions, libs, lib, idx, str, visited, entries, hints, pc>>

Exhausted == /\ Searching
             /\ fi <= Len(functions)
             /\ fi \notin visited
             /\ idx > Len(Symbol)
             /\ NextFunction
             /\ UNCHANGED <<functions, libs, lib, idx, str, visited, entries, hints, pc>>

\* The function would have come before this symbol: it is given up, and the
\* table is left where the comparison ended.
PastSwapped(left, right) == left > right /\ 97 < right /\ right < 122

Past(left, right) == left < right /\ 97 < right /\ right < 122

GiveUp == /\ Comparing
          /\ l # r /\ Past(l, r)
          /\ str' = Stop
          /\ NextFunction
          /\ UNCHANGED <<functions, libs, lib, idx, visited, entries, hints, pc>>

\* The start of the next symbol
AfterNulShort(p) == Min({q \in p..Len(Table(Symbol)) : Table(Symbol)[q] = 0})

AfterNul(p) == 1 + Min({q \in p..Len(Table(Symbol)) : Table(Symbol)[q] = 0})

NextSymbol == /\ Comparing
              /\ l # r /\ ~Past(l, r)
              /\ str' = AfterNul(Stop)
              /\ idx' = idx + 1
              /\ UNCHANGED <<functions, libs, lib, fi, visited, entries, hints, pc>>

\* The name in the symbol's member of the library
MemberBefore == Symbol[IF idx > 1 THEN idx - 1 ELSE idx]

Member == Symbol[idx]

\* The symbol's member names another function: the Assert fails.
Mismatch == /\ Comparing
            /\ l = r
            /\ Member # Target
            /\ pc' = "mismatch"
            /\ UNCHANGED <<functions, libs, lib, fi, idx, str, visited, entries, hints>>

VisitNext(i) == visited' = visited \union {i + 1}

Visit(i) == visited' = visited \union {i}

Found == /\ Comparing
         /\ l = r
         /\ Member = Target
         /\ entries' = [entries EXCEPT ![DllOf[lib]] = Append(@, Target)]
         /\ Visit(fi)
         /\ hints' = [hints EXCEPT ![fi] = <<lib, idx>>]
         /\ str' = Stop
         /\ NextFunction
         /\ UNCHANGED <<functions, libs, lib, idx, pc>>

\* The next library; a file that is no archive is passed over.
NextLibrary == /\ pc = "search"
               /\ lib <= Len(libs)
               /\ libs[lib] = NULL \/ fi > Len(functions)
               /\ lib' = lib + 1
               /\ fi' = 1
               /\ idx' = 1
               /\ str' = 1
               /\ UNCHANGED <<functions, libs, visited, entries, hints, pc>>

Done == /\ pc = "search"
        /\ lib > Len(libs)
        /\ pc' = "done"
        /\ UNCHANGED <<functions, libs, lib, fi, idx, str, visited, entries, hints>>

Next == SkipVisited \/ Exhausted \/ GiveUp \/ NextSymbol \/ Mismatch \/ Found \/ NextLibrary \/ Done

Spec == Init /\ [][Next]_vars

-----------------------------------------------------------------------------
(* Properties *)

TypeOK ==
    /\ functions \in Seq(Symbols)
    /\ \A i \in DOMAIN libs : libs[i] # NULL => libs[i] \in Seq(Symbols) /\ Ascending(libs[i])
    /\ lib \in 1..(Len(libs) + 1)
    /\ fi \in 1..(Len(functions) + 1)
    /\ idx \in Nat /\ str \in Nat
    /\ visited \subseteq DOMAIN functions
    /\ \A d \in DOMAIN entries : entries[d] \in Seq(Symbols)
    /\ pc \in {"search", "mismatch", "done"}

\* string_table is in the symbol that string_table_idx counts, whatever the
\* outcomes of the comparisons before: a name is only ever compared with the
\* table, and a match is looked up under its own index (pe.c:52-69).  The
\* variables keep their types.
Counted ==
    IF idx <= Len(Symbol)
      THEN Start(Symbol, idx) <= str /\ str < Start(Symbol, idx + 1)
      ELSE idx = Len(Symbol) + 1 /\ str = Len(Table(Symbol)) + 1
InStep == TypeOK /\ (Searching => Counted)

\* A function is imported from one dll, once, however many libraries have it,
\* and every one that counts as visited is (pe.c:49-50, 108-109).
Places(n) == {p \in (DOMAIN entries) \X (1..Len(functions)) :
                p[2] <= Len(entries[p[1]]) /\ entries[p[1]][p[2]] = n}
EachOnce ==
    /\ \A i \in DOMAIN functions : Cardinality(Places(functions[i])) = IF i \in visited THEN 1 ELSE 0
    /\ \A d \in DOMAIN entries : Len(entries[d]) <= Cardinality(visited)

\* Folding keeps the order of the characters, and the NUL apart.
Chars == {0} \union UNION {Range(s) : s \in Range(functions) \union Range(Symbol)}
FoldKeepsOrder == \A c, d \in Chars : c < d => Fold(c) < Fold(d)

\* An earlier function, absent here, was given up inside a symbol, or was not
\* given up at a symbol after it, because that starts with no letter from b to y.
LostBefore(i) ==
    \E j \in 1..(i - 1) : /\ functions[j] \notin Range(Symbol) /\ j \notin visited
                          /\ \E s \in Range(Symbol) :
                               /\ Less(functions[j], s)
                               /\ functions[j][1] = s[1] \/ Fold(s[1]) \notin 98..121

\* Whether the functions up to this one were in order, and none of them lost
Sure(i) == Ascending(SubSeq(functions, 1, i)) /\ ~LostBefore(i)

\* When a library has been searched, it has been searched well for every
\* function whose earlier ones come before it and did not leave the table
\* inside a symbol, if case does not mix: a function it has is imported
\* (pe.c:47-114).
MissedOnlyWhenLost ==
    Searching /\ fi > Len(functions) /\ FoldKeepsOrder =>
      \A i \in DOMAIN functions :
        functions[i] \in Range(Symbol) /\ i \notin visited => ~Sure(i)

\* Nor is there a mismatch then: "shouldn't really be in here I think"
\* (pe.c:91) is true as long as no function was given up inside a symbol.
MismatchOnlyWhenLost ==
    pc = "mismatch" /\ FoldKeepsOrder => ~Sure(fi)
=============================================================================

------------------------------ MODULE PEImage ------------------------------
(***************************************************************************)
(* The executable that write_pe_exe of src/src/pe.c lays out: its sections *)
(* (pe_add_section), the import tables in .idata, the addresses patched    *)
(* into the code, and the file they are written to.                        *)
(*                                                                         *)
(* It starts from what the search of the libraries leaves (see Archive):   *)
(* the functions of the program, in some order, and the dlls with the      *)
(* functions found in them, each function once, in the order in which the  *)
(* hash table yields the dlls.  Two libraries may import from one dll, so  *)
(* that its functions are in any order.                                    *)
(*                                                                         *)
(* The tables are walked as the code does, with pointers into the file and *)
(* offsets that go into addresses side by side; ImportsRead reads them     *)
(* back as the loader of the operating system would.                       *)
(*                                                                         *)
(* A definition that is only a faulty variant of the next one is named for *)
(* its fault; it shows that a property notices that fault.                 *)
(***************************************************************************)
EXTENDS Integers, Sequences, SequencesExt, FiniteSets, FiniteSetsExt, Functions

CONSTANTS Externals, Dlls,      \* names of functions and of dlls
          NameSize, DllSize,    \* how long they are
          TextSizes, DataSizes, \* sizes of .text and .data
          FileAlign, SecAlign,
          HeadersFixed,         \* the stub and the NT headers
          SectionHeader, Descriptor, SlotSize, \* sizes of structures
          ImageBase,
          DataBase,             \* where main.c expects .data
          NULL

ASSUME NamesAssumption == /\ IsFiniteSet(Externals) /\ NULL \notin Externals
                          /\ NameSize \in [Externals -> Nat \ {0}]
                          /\ DllSize \in [Dlls -> Nat \ {0}]
ASSUME AlignAssumption == /\ FileAlign \in Nat \ {0} /\ SecAlign \in Nat \ {0}
                          /\ SecAlign % FileAlign = 0
\* main.c has a buffer of a page for the code.
ASSUME SectionSizesAssumption == TextSizes \subseteq 1..SecAlign /\ DataSizes \subseteq Nat
ASSUME StructuresAssumption ==
    /\ {HeadersFixed, SectionHeader, Descriptor, SlotSize} \subseteq Nat \ {0}
    /\ ImageBase \in Nat /\ DataBase = 3 * SecAlign
\* The headers of up to three sections take as many blocks of the file as one.
ASSUME HeadersAssumption ==
    /\ HeadersFixed + 3 * SectionHeader <= SecAlign
    /\ (HeadersFixed + 3 * SectionHeader - 1) \div FileAlign =
         (HeadersFixed + SectionHeader - 1) \div FileAlign

VARIABLES text, data,   \* bytes_count, current_data_variable_location
          functions,    \* extern_functions
          entries,      \* import_entries: the dlls with their functions
          sections,     \* the section headers
          walk,         \* the pointers and offsets of the walk through entries
          tables,       \* what it has written to .idata
          addr,         \* cfunction_addresses
          code,         \* the addresses in the code; 0 is not patched
          writes,       \* what has been written to the file, by place and size
          stage

imageVars == <<text, data, functions, entries, sections, walk, tables, addr, code, writes, stage>>

\* The functions found, dll by dll
Import(d, fs) == [dll |-> d, fs |-> fs]
Imports(S, home) ==
    {es \in UNION {[1..n -> [dll : Dlls, fs : UNION {SetToSeqs(T) : T \in SUBSET S \ {{}}}]] :
                     n \in 0..Cardinality(Dlls)} :
       /\ \A i, j \in DOMAIN es : i # j => es[i].dll # es[j].dll
       /\ \A i \in DOMAIN es : \A f \in S : f \in Range(es[i].fs) <=> home[f] = es[i].dll
       /\ \A f \in S : home[f] # NULL => \E i \in DOMAIN es : es[i].dll = home[f]}

NoTables == [descriptors |-> <<>>, int |-> <<>>, iat |-> <<>>, names |-> <<>>, modules |-> <<>>]

WalkStart == [dll |-> 1, f |-> 0, slot |-> 0, table |-> 0, name |-> 0, module |-> 0, hint |-> 1]

ImageInit ==
    /\ text \in TextSizes
    /\ data \in DataSizes
    /\ \E S \in SUBSET Externals, home \in [Externals -> Dlls \union {NULL}] :
         /\ functions \in SetToSeqs(S)
         /\ entries \in Imports(S, home)
    /\ sections = <<>>
    /\ walk = WalkStart
    /\ tables = NoTables
    /\ addr = [f \in {} |-> 0]
    /\ code = [f \in Range(functions) |-> 0]
    /\ writes = {}
    /\ stage = "text"

-----------------------------------------------------------------------------
(* pe_add_section *)

AlignDown(x, a) == (x \div a) * a

AlignAlways(x, a) == ((x \div a) + 1) * a

Align(x, a) == ((x + a - 1) \div a) * a

\* The headers are measured with one section.
HeadersSize == Align(HeadersFixed + SectionHeader, FileAlign)

AddSection(name, size) ==
    LET lastOne == sections[Len(sections)]
    IN  sections' = Append(sections,
          [name |-> name,
           size |-> size,
           raw  |-> Align(size, FileAlign),
           va   |-> IF sections = <<>> THEN SecAlign ELSE Align(lastOne.va + lastOne.raw, SecAlign),
           ptr  |-> IF sections = <<>> THEN HeadersSize ELSE lastOne.ptr + lastOne.raw])

Found == UNION {Range(entries[i].fs) : i \in DOMAIN entries}

NameRoomNoNul(f) == 2 + NameSize[f]

NameRoom(f) == 2 + NameSize[f] + 1

TableRoom(i) == SlotSize * (Len(entries[i].fs) + 1)

DescriptorsSize == IF entries = <<>> THEN 0 ELSE Descriptor * (Len(entries) + 1)

ModuleRoom(i) == DllSize[entries[i].dll] + 1

TablesSize == SumFunctionOnSet([i \in DOMAIN entries |-> TableRoom(i)], DOMAIN entries)
NamesSize == SumFunctionOnSet([f \in Found |-> NameRoom(f)], Found)
ModulesSize == SumFunctionOnSet([i \in DOMAIN entries |-> ModuleRoom(i)], DOMAIN entries)
IdataSize == DescriptorsSize + TablesSize * 2 + NamesSize + ModulesSize

HasIdata == IdataSize > 0 /\ functions # <<>>

AddText == /\ stage = "text"
           /\ AddSection("text", text)
           /\ stage' = IF HasIdata THEN "idata" ELSE "data"
           /\ UNCHANGED <<text, data, functions, entries, walk, tables, addr, code, writes>>

AddIdata == /\ stage = "idata"
            /\ AddSection("idata", IdataSize)
            /\ stage' = "data"
            /\ UNCHANGED <<text, data, functions, entries, walk, tables, addr, code, writes>>

AddData == /\ stage = "data"
           /\ IF data > 0 THEN AddSection("data", data) ELSE UNCHANGED sections
           /\ stage' = "headers"
           /\ UNCHANGED <<text, data, functions, entries, walk, tables, addr, code, writes>>

ImageSize == sections[Len(sections)].va + SecAlign
FileSize == HeadersSize + SumFunctionOnSet([i \in DOMAIN sections |-> sections[i].raw],
                                           DOMAIN sections)

-----------------------------------------------------------------------------
(* The file *)

Write(at, size, what) == writes' = writes \union {[at |-> at, size |-> size, what |-> what]}

\* The data's place is taken from the first two headers.  If there is only
\* one, the second is whatever malloc returned.
WriteHeaders ==
    /\ stage = "headers"
    /\ Write(0, HeadersFixed + Len(sections) * SectionHeader, "headers")
    /\ \/ stage' = IF HasIdata THEN "fill" ELSE "patch"
       \/ Len(sections) = 1 /\ stage' = "crash"
    /\ UNCHANGED <<text, data, functions, entries, sections, walk, tables, addr, code>>

\* Places in the file, and addresses in the image
Idata == HeadersSize + sections[1].raw
DataPlace == HeadersSize + sections[1].raw + sections[2].raw
IntAt == DescriptorsSize
NamesAt == IntAt + TablesSize
IatAt == NamesAt + NamesSize
ModulesAt == IatAt + TablesSize
VA(offset) == sections[2].va + offset

Here == entries[walk.dll]
Filling == stage = "fill" /\ walk.dll <= Len(entries)

Describe ==
    /\ Filling /\ walk.f = 0
    /\ tables' = [tables EXCEPT !.descriptors = Append(@, [int    |-> VA(IntAt + walk.table),
                                                           iat    |-> VA(IatAt + walk.table),
                                                           module |-> VA(ModulesAt + walk.module)])]
    /\ Write(Idata + (walk.dll - 1) * Descriptor, Descriptor, "descriptor")
    /\ walk' = [walk EXCEPT !.f = 1]
    /\ UNCHANGED <<text, data, functions, entries, sections, addr, code, stage>>

\* T with y stored at x
Put(T, x, y) == [z \in DOMAIN T \union {x} |-> IF z = x THEN y ELSE T[z]]

\* The hint is the one of the function at that place in the sorted list.
HintOf(k) == IF functions[k] \in Found THEN functions[k] ELSE NULL

NextHint(k) == k + 1

ImportFunction ==
    /\ Filling /\ walk.f \in 1..Len(Here.fs)
    /\ LET f == Here.fs[walk.f]
       IN  /\ tables' = [tables EXCEPT
                !.names = Put(@, NamesAt + walk.name, [hint |-> HintOf(walk.hint), f |-> f]),
                !.int = Put(@, IntAt + walk.slot, VA(NamesAt + walk.name)),
                !.iat = Put(@, IatAt + walk.slot, VA(NamesAt + walk.name))]
           /\ addr' = Put(addr, f, VA(IatAt + walk.table + (walk.f - 1) * SlotSize))
           /\ writes' = writes \union
                {[at |-> Idata + NamesAt + walk.name, size |-> NameSize[f] + 3, what |-> "name"],
                 [at |-> Idata + IntAt + walk.slot, size |-> SlotSize, what |-> "int"],
                 [at |-> Idata + IatAt + walk.slot, size |-> SlotSize, what |-> "iat"]}
           /\ walk' = [walk EXCEPT !.f = @ + 1, !.slot = @ + SlotSize,
                                   !.name = @ + NameSize[f] + 3, !.hint = NextHint(@)]
    /\ UNCHANGED <<text, data, functions, entries, sections, code, stage>>

\* A slot is left zero after each table.
EndSlotMissing(s) == s

EndSlot(s) == s + SlotSize

NameModule ==
    /\ Filling /\ walk.f > Len(Here.fs)
    /\ tables' = [tables EXCEPT !.modules = Put(@, ModulesAt + walk.module, Here.dll)]
    /\ Write(Idata + ModulesAt + walk.module, DllSize[Here.dll] + 1, "module")
    /\ walk' = [walk EXCEPT !.dll = @ + 1, !.f = 0, !.slot = EndSlot(@),
                            !.table = @ + TableRoom(walk.dll),
                            !.module = @ + DllSize[Here.dll] + 1]
    /\ UNCHANGED <<text, data, functions, entries, sections, addr, code, stage>>

FillDone == /\ stage = "fill" /\ walk.dll > Len(entries)
            /\ stage' = "patch"
            /\ UNCHANGED <<text, data, functions, entries, sections, walk, tables, addr, code, writes>>

\* The instructions that call a function get the address of its slot.
Patch == /\ stage = "patch"
         /\ code' = [f \in DOMAIN code |-> IF f \in Found THEN addr[f] + ImageBase ELSE code[f]]
         /\ stage' = "copytext"
         /\ UNCHANGED <<text, data, functions, entries, sections, walk, tables, addr, writes>>

CopyText == /\ stage = "copytext"
            /\ Write(HeadersSize, text, "text")
            /\ stage' = IF data > 0 THEN "copydata" ELSE "done"
            /\ UNCHANGED <<text, data, functions, entries, sections, walk, tables, addr, code>>

CopyData == /\ stage = "copydata"
            /\ Write(DataPlace, data, "data")
            /\ stage' = "done"
            /\ UNCHANGED <<text, data, functions, entries, sections, walk, tables, addr, code>>

ImageNext == \/ AddText \/ AddIdata \/ AddData \/ WriteHeaders
             \/ Describe \/ ImportFunction \/ NameModule \/ FillDone
             \/ Patch \/ CopyText \/ CopyData

ImageSpec == ImageInit /\ [][ImageNext]_imageVars

-----------------------------------------------------------------------------
(* Properties *)

ImageTypeOK ==
    /\ text \in TextSizes /\ data \in DataSizes
    /\ \A i \in DOMAIN sections : sections[i] \in
         [name : {"text", "idata", "data"}, size : Nat \ {0}, raw : Nat, va : Nat, ptr : Nat]
    /\ walk.dll \in 1..(Len(entries) + 1)
    /\ walk.hint \in 1..(Len(functions) + 1)
    /\ {walk.f, walk.slot, walk.table, walk.name, walk.module} \subseteq Nat
    /\ DOMAIN addr \subseteq Range(functions)
    /\ code \in [Range(functions) -> Nat]
    /\ \A w \in writes : w.at \in Nat /\ w.size \in Nat
    /\ stage \in {"text", "idata", "data", "headers", "fill", "patch", "copytext", "copydata",
                  "crash", "done"}

Apart(a, m, b, n) == a + m <= b \/ b + n <= a

\* Sections are apart in memory and in the file, aligned, after the headers,
\* and in the image, whose size leaves room for one alignment in the last
\* (pe.c:142-165, 323).
SectionsApart ==
    LET n == Len(sections)
    IN  /\ \A i, j \in 1..n : i # j =>
             /\ Apart(sections[i].va, sections[i].size, sections[j].va, sections[j].size)
             /\ Apart(sections[i].ptr, sections[i].raw, sections[j].ptr, sections[j].raw)
        /\ \A i \in 1..n : /\ sections[i].va % SecAlign = 0 /\ sections[i].ptr % FileAlign = 0
                           /\ sections[i].size <= sections[i].raw
                           /\ sections[i].va >= HeadersSize
        /\ n > 0 /\ sections[n].size <= SecAlign =>
             \A i \in 1..n : sections[i].va + sections[i].size <= ImageSize

\* What is written does not overlap and stays in the file, in the section it
\* is meant for; without imports, though, the data goes behind the file
\* (pe.c:343-353, 376-426, 461-465).  The variables keep their types.
SectionOf(what) == CASE what = "text" -> "text"
                     [] what = "data" -> "data"
                     [] OTHER -> "idata"
WritesInPlace ==
    /\ ImageTypeOK
    /\ \A v, w \in writes : v # w => Apart(v.at, v.size, w.at, w.size)
    /\ \A w \in writes :
         IF w.what = "headers" THEN w.at + w.size <= HeadersSize
         ELSE IF w.what = "data" /\ ~HasIdata THEN w.at = FileSize
         ELSE \E i \in DOMAIN sections : /\ sections[i].name = SectionOf(w.what)
                                         /\ sections[i].ptr <= w.at
                                         /\ w.at + w.size <= sections[i].ptr + sections[i].size

\* The tables as the loader reads them: the functions that a table's slots
\* name, up to the first zero
Offset(va) == va - sections[2].va
TableFrom(table, offset) ==
    LET used == {k \in 0..Len(functions) :
                   \A j \in 0..k : offset + j * SlotSize \in DOMAIN table}
    IN  [k \in 1..Cardinality(used) |->
           tables.names[Offset(table[offset + (k - 1) * SlotSize])].f]
ImportsRead ==
    [i \in DOMAIN tables.descriptors |->
       LET d == tables.descriptors[i]
       IN  [dll |-> tables.modules[Offset(d.module)],
            int |-> TableFrom(tables.int, Offset(d.int)),
            iat |-> TableFrom(tables.iat, Offset(d.iat))]]
SlotAddress(i, k) == tables.descriptors[i].iat + (k - 1) * SlotSize

\* The loader finds the dlls and in each the functions found there, from both
\* tables; a zero descriptor follows the last; and each call of such a function
\* goes to the slot the loader fills with that function.  The other calls are
\* left without an address (pe.c:276-305, 367-458).
LoaderFindsImports ==
    stage \in {"copytext", "copydata", "done"} =>
      /\ HasIdata =>
           /\ ImportsRead = [i \in DOMAIN entries |->
                               [dll |-> entries[i].dll, int |-> entries[i].fs, iat |-> entries[i].fs]]
           /\ \A w \in writes : w.what # "descriptor" =>
                Apart(w.at, w.size, Idata + Len(entries) * Descriptor, Descriptor)
      /\ \A i \in DOMAIN entries : \A k \in DOMAIN entries[i].fs :
           code[entries[i].fs[k]] = ImageBase + SlotAddress(i, k)
      /\ \A f \in DOMAIN code \ Found : code[f] = 0

\* The addresses of literals, patched before there are any sections, are right
\* just if the program has imports and they fit a page; its code always does
\* (main.c:228, pe.c:154).
DataWhereExpected ==
    \A i \in DOMAIN sections : sections[i].name = "data" =>
      (sections[i].va = DataBase <=> HasIdata /\ sections[2].raw <= SecAlign)
=============================================================================

# Gzar, in TLA+

Gzar is a small compiler written in C: a lexer, a recursive-descent parser, a
semantic analysis, a back end that prints x64 assembly, and the beginnings of a
second back end that builds machine code and writes a PE executable itself.  It
is one sequential program.  What is hard to get right in it is not concurrency
but long sequences of legal steps over shared tables: a hash table that grows
under its callers' feet, seven registers shared by a whole expression tree, a
table of patch locations that moves while pointers lead into it, a stack frame
whose size one pass adds up and another one spends.

The modules here model those parts from the code in `src/src/`.  Line numbers
below are of those files.

## The system

| Part | State it keeps | Operations | Talks to | What is hard |
|---|---|---|---|---|
| Hash table, `base.h` 407-612 | buckets, capacity, count | `map_set`, `map_peek`, `map_get`, `map_iterator`/`map_next` | every scope's locals, keywords' types, the Builder's names, the import table | probing needs free buckets; a rehash moves every key; `map_get` removes half an entry |
| Arena, pool, vector, `base.h` 80-400 | offsets into blocks, a list of blocks | allocate, resize, push, pop | all nodes, the scope stack, the Builder's arrays | resize in place or by copying; sizes in bytes against counts; a vector's memory is not an arena's |
| Lexer, `lexer.c` | cursor, token array | `get_token`, `lex_file` | parser | the end of the input inside a comment or a string |
| Parser, `parser.c` | token index, scope stack, syntax tree | one function per grammar rule, `parse_syncronize` | lexer, sema (scopes, symbols) | progress and recovery after an error; open scopes |
| Semantic analysis, `sema.c` | scope stack, block sizes, types of expressions | `sema_statement`, `sema_expr` | parser's tree, hash table, code generator | errors that do not stop; expressions without a type; sizes the frame depends on |
| Assembly back end, `x86_asm.c` | scratch register table, scope stack, block offsets, output | `expr_gen`, `stmt_gen`, `symbol_gen`, `gen_translation_unit` | sema's blocks and types | register pressure, calls in arguments, frame layout |
| IR, `ir.c` | a list of instructions | not called by anything | | |
| Builder, `x64.c` | code bytes, patch locations, maps of names, literals | `e_label`, `e_lit`, `e_cfunction`, `inst0/1/2` | driver, PE writer, hash table, pool | pointers into a table that moves; an operand that changes when it is used |
| Driver, `main.c` | the Builder | emits a demo program, patches labels and literals; the compiler pipeline is under `#if 0` | all | the address of `.data` is fixed by hand |
| PE writer, `pe.c` | the image, the import tables | `parse_archive_library`, `write_pe_exe` | Builder | the layout of sections and import tables, symbol search |
| `microsoft_crazyness.h`, `bb.c` | | vendored; empty | | |

The compiler's passes run one after the other and share the syntax tree, the
scope stack `tu->scopes` and each block's hash table: the parser builds them,
sema fills the tables and the block sizes, the code generator reads both.  The
Builder's program is a sequence of calls chosen by its caller; the driver and
the PE writer then overwrite the locations it recorded.

What makes each part correct:

- hash table: it is a dictionary, every key stays reachable, every call returns;
- registers: two values needed at once are in different registers, a value is
  there when it is used, nothing leaks, running out is noticed;
- frame: two locals alive at once are apart, what is written is in the frame,
  sema and the code generator are in the same scopes;
- Builder: each instruction gets the address its operand was asked for;
- parser and lexer: they end, on any input, and leave the scope stack balanced;
- sema: a program that passes has what the code generator relies on (a type for
  each expression, a symbol for each name);
- PE writer: sections are apart and where the headers say, slots of the import
  table match the addresses patched into the code;
- allocators: allocations are apart and keep their contents when resized.

`PROJECT.json` lists under "hazards" the lines at which each can go wrong.

## Modules

| Module | Models | State |
|---|---|---|
| `Lexer` | `lex_file` and `lex_identifier`, with the keyword hash as it is computed | `text`, `txt` = the cursor, `s` = the tokens, `capacity`, `lexing` |
| `Parser` | on the tokens of `Lexer`: every function of `parser.c` that reads a token, `parse_syncronize` and the recovery in `parse_primary`, the scope stack | `stack`, the activations of those functions; `current`; `ret`, what the last call returned; `scopes` = `tu->scopes`; `symbols`; `errors`; `holes`, a NULL where a rule wants a node |
| `Grammar` | the language those rules describe, as a definition of which places a derivation reaches | none |
| `FrontEnd` | `Lexer` and `Parser` as `main.c` runs them | theirs |
| `Language` | the parser's verdict against `Grammar` (`AcceptsExactly`) | theirs |
| `Sema` | `sema_expr` for every kind of expression, `sema_statement`'s verdict, the register sizes `expr_gen` derives from the types | `nodes`, the expressions built and not yet used; `operands`, all those that were used; `statement`; `reported`; `verdict`; `code` |
| `Scopes` | functions entered by the parser; `sema_statement` and `sema_expr` entering variables and resolving names (`local_exist`); the code generator resolving them again (`symbol_gen`, `local_exist`) | `prog`, the statements; `blocks` with their `locals`; `scopes` = `tu->scopes`, refilled by each pass; `at`, how far the pass is; `success` of sema; `res`, what sema resolved |
| `ExprGen` | `scratch_alloc/free/free_all`, the cases of `expr_gen`, the use of an expression's register in `stmt_gen` | `tbl` = `scratch_reg_tbl`; `ops`, the evaluated operands; `frames`, the recursion of `expr_gen`; `stmt`, `pc` |
| `Frame` | block sizes in `sema_statement`/`sema_expr`; frame size, block offsets, addresses of locals, stack arguments in `stmt_gen`, `symbol_gen`, `expr_gen` | `blocks`, `scopes` = `tu->scopes`, `offset` = `tu->offset`, `frame` = `stack_size`, the program `prog` |
| `Dictionary` | what a hash table promises: a partial function from keys to values, calls that take effect once, an iterator that yields each present key once | `dict`, the call, its answer, the keys yielded |
| `HashMap` | `map_set` with growth, rehash and probing, `map_peek`, the iterator | `map`, `nm` (map_set's new table), the call in progress, `pc`, `index`, `i` as in the C loops |
| `Arena` | `arena_alloc`, `arena_resize`, `pool_alloc`, `pool_resize` | `arenas` with `prev` and `curr`; `blocks` handed out; what the last call returned, copied and cleared |
| `Lists` | the growing lists in a pool and the sizes each asks for: `pls`, its entries' locations and `data_vars` of `x64.c`, and `vec_init`/`vec_push` | the lists' block, count and room; `kept`, the elements that still hold what was written |
| `Builder` | `get_patch_location`, `e_label`, `e_lit`, `e_cfunction`, the bookkeeping of `inst1`/`inst2`, `set_patch_location`, the three patching loops | `tables` (every `pls` there was), `room` = `pls_sz`, `maps` = `pls_maps`, `datasize`, the operands and the instructions emitted, `code` |
| `Archive` | `parse_archive_library`: the walk through a library's table of symbols for all functions at once | `functions`, `libs`; `lib`, `fi`, `idx`, `str` = `lib_idx`, `function_idx`, `string_table_idx`, `string_table`; `visited`, `entries`, `hints` |
| `PEImage` | `pe_add_section` and the layout, the import tables, the patching of the calls and the writes to the file in `write_pe_exe` | `sections`; `walk`, the pointers and offsets of the loop that fills `.idata`; `tables`, what it wrote there; `addr` = `cfunction_addresses`; `code`; `writes` |
| `HashMapProofs`, `ExpressionProofs`, `ArenaProofs`, `BuilderProofs`, `ArchiveProofs`, `LayoutProofs`, `ScopesProofs`, `FrontEndProofs` | inductive invariants of and theorems about `HashMap`, `ExprGen` and `Sema`, `Arena` and `Lists`, `Builder`, `Archive`, `Frame` and `PEImage`, `Scopes`, `FrontEnd` | |
| `MC...` | constants for TLC | |

`FrontEnd` composes `Lexer` with `Parser`, `Language` compares the result with
`Grammar`, whose recursive operators the prover cannot meet in `FrontEnd`;
`Lists` composes the lists with the pool of `Arena`; `HashMap` refines
`Dictionary`.  `Scopes`, `Frame` and `Sema` look at the same two passes from three
sides: which symbol a name is, where it is on the stack, and what type it has.

How they correspond to the code:

- **Lexer.** One action per turn of `lex_file`'s loop: a blank, a comment
  (`SkipComment`), a symbol of one or two characters, a string, a number, a
  word, the end, a character that begins no token.  `Hash` computes the perfect
  hash of `lex_identifier`.  A scan for a character that the text lacks runs past
  the terminating NUL: the state "lost", about which nothing is said.
- **Parser.** A frame of `stack` names the place a function goes on from, so an
  action is a stretch of a function between two calls, with every token it
  consumes, gives back or skips.  `Recovered` is `parse_primary`'s way out of an
  error, which goes one token back or forward; `ScopeCutOff` returns without
  `pop_scope` at the end of the stream; a type at the end of the stream calls
  itself for ever.  The levels `parse_logical` to `parse_factor` are one.
- **Sema.** An action is the return of one call of `sema_expr`: expressions grow
  bottom-up from literals and variables, in the order of the calls, so that all
  trees up to a number of nodes occur.  A type is the sequence of its kinds.
  `Generate` is `expr_gen`'s choice of register sizes, with the assertions that
  stop it ("stop") and instructions whose operands differ in size ("mixed").
  That choice (`Gen`) and the type the reference gives (`Judge`) depend on the
  operands only by what is said of those, so a node keeps them as it is built,
  in `register` and `judged`, which sema's actions do not look at.
- **Scopes.** The parser's actions (`Parse...`) choose the program; sema
  (`Sema...`) and the code generator (`Gen...`) walk it, one action per kind of
  statement.  A symbol is the statement that declares it.  Sema sees a block as
  it fills up, the generator sees it complete: that difference is what the
  module is about.  `SemaFunction` enters a nested function into its own body as
  well, as `sema_func` does.  A name that is unknown in a declaration's
  initializer is reported, yet the program is not rejected.  `GenSizeless` is the
  assertion of `get_type_size`: whether `symbol_gen` comes upon a function while
  it adds up the sizes of a block depends on the order of the hash table, so it
  is a choice.
- **ExprGen.** A node of the tree is chosen when it is visited, so that all
  trees up to the nesting bound occur.  `Leaf` is a literal or a variable;
  `ApplyInPlace` is `+ - & | ^ && ||` (the left register is the result's);
  `ApplyFresh` is `* / %` and the comparisons (a new register, then both are
  freed); `ApplyThrough` is unary operators, casts and assignment; `ApplyCall`
  and `ApplyVoidCall` are calls.  `intact` says whether the code emitted since
  has overwritten the operand.  A call of an external function may overwrite
  r10 and r11 (`Volatile`); a function compiled by Gzar saves every scratch
  register in its prologue.  The build is the debug build: an assertion that
  fails stops the compiler (`pc` "abort" and "nameless").
- **Frame.** Sema chooses the next statement and records it; the code generator
  walks the record.  `Closed` and `Counted` are the two additions at the end of
  `STMT_SCOPE`, `StackSize` is the expression of line 558 as C reads it
  (`& ~(16-1) + 8` is `& -8`).  A local's address is summed in the order in
  which the hash table yields the names (`Slot`).
- **HashMap.** One action per iteration of a loop: `RehashSkip` and
  `RehashPlace` are the two outcomes of the `if` in `map_set`'s loop,
  `PlaceAdvance`, `ProbeAdvance` and `PeekAdvance` the linear probing,
  `ProbeUpdate` and `ProbeFill` the two ends of `map_set_bucket`.  A capacity is
  a power of two, so the mask is a remainder.  A hash is any natural number.
- **Arena, Lists.** Places are bytes from an arena's header, aligned as
  `align_forward` does.  `ResizeInPlace`, `ResizeByCopy` and `ResizeOutside` are
  the three branches of `arena_resize`; the sizes it is given are the callers'
  claims and need not be the block's.  `Lists` makes the claims of the code: the
  table's in bytes, those of the locations and the literals mixed up between
  counts and bytes.  `debug` says whether `Assert` is there (`build.bat`).
- **Builder.** A pointer of `pls_maps` is the number of the table it leads into
  and an index.  `Fresh` is the test of line 147, which takes an index that IS
  in the table for a name without entry.  `last` says whether the table is the
  arena's last allocation and so grows in place.  `InstPatched`, `InstPlain` and
  `InstStale` are what `inst1`/`inst2` do with an operand that is still to be
  patched, that an earlier use made plain, and whose index is of no table (the
  assertion of `set_patch_location`).  A map grows at its eighth name and would
  free pool memory (base.h 569): the model has at most seven names of a kind.
- **Archive.** One action per outcome of a comparison: the function is given up
  (`GiveUp`), the next symbol is tried, the function is `Found`, or the symbol's
  member names another (`Mismatch`, the assertion).  Names are sequences of
  character codes here, since the code compares prefixes and folds case with
  `|0x60` (`Fold`).  `str` is a place in the table as the pointer is, so that it
  can get out of step with the symbol counted by `idx`.  `compare` is given
  pointers to the names and compares their bytes: the functions come in any order.
- **PEImage.** It starts from any result of the search.  `ImportFunction` is an
  iteration of the innermost loop and moves the pointers (`slot`, `name`) and the
  offsets (`table`, `module`) as the code does; a place in the file comes from
  the first, an address from the second.  `ImportsRead` reads the tables back as
  the operating system's loader would.  Without imports and data the code looks
  at a header that does not exist; what it finds there is a choice, a crash
  among them.

Some definitions stand before the one they are a faulty variant of and are named
for the fault (`MustGrowTooLate`, `PopScopeNever`); they record which fault each
property notices.

## Runs

| Run | Question | Bounds and why they are enough | States |
|---|---|---|---|
| `MCFrontEnd` | Does the lexer cut the text as it should, does the parser accept the grammar's programs and no others, do both end? | every text of up to 3 of 13 characters that lex differently; the 20 keywords, each with a character less and more; 4 programs that use every rule, whole, cut off anywhere, and with any token left out or replaced by one of 18. One wrong token reaches each error path; a second one only repeats the recovery. | 199 thousand |
| `MCSema` | Do types, verdicts and register sizes agree? | 4 nodes: an operator over operators, a call with two arguments. Types of each family: signed and unsigned integers of two sizes, strings, booleans, pointers, void. | 1.0 million |
| `MCScopes` | Does the code generator find the symbol that sema found? | 2 names, each of a variable or a function, one also the functions' parameter; 6 statements, 2 variables, 1 use, 3 blocks. A use depends on the declarations around it and on no other use, so one is enough; names are shadowed in a nested block, by a parameter, by a function, and declared, or declared again, after their use. | 685 thousand |
| `MCExprGen` | Do operands survive, does anything leak? | 4 registers of which two are volatile, 3 freed by `scratch_free_all`, nesting 3, up to 5 arguments. Registers run out, in operators and in calls, and calls nest in arguments. | 2.7 million |
| `MCFrame` | Do locals and arguments fit the frame and stay apart? | 2 names, sizes 4 and 8, calls of 4, 5 and 8 arguments, 5 statements, 3 declarations, 3 blocks. Blocks nest and follow one another, locals follow nested blocks. | 1.0 million |
| `MCHashMap` | Is it a dictionary, and does every call return? | 4 keys that collide and wrap at capacities 2, 4 and 8; 2 values. Growth happens twice, chains wrap and pass other keys. | 17 thousand |
| `MCArena` | Are blocks apart, and what do the lists lose? | arenas of 288 bytes, 3 entries, 1 list of locations, 3 elements, one other block that fits or needs an arena of its own, vectors that begin with 2 elements, both builds. Every list grows in place, by a copy and into a new arena. | 167 thousand |
| `MCBuilder` | Is every patched address its operand's own, and which are left out? | a label, two literals, a function; 4 requests, 3 instructions. The table grows in place and by moving (at its 3rd entry), names repeat, operands are reused. | 180 thousand |
| `MCArchive` | Which functions does the search find, and which does it take for another? | 6 names with common prefixes, both cases and a name that starts with no letter; 2 libraries of up to 2 symbols, or no archive; up to 3 functions in every order. A function goes wrong because of one earlier function and one symbol. | 827 thousand |
| `MCPEImage` | Are the sections and tables where the headers, the loader and the code take them to be? | 3 functions, one with a name as long as a page so that `.idata` takes two; 2 dlls; every order and distribution, functions found nowhere; code of 1 byte and of a page, data of 0, 1 and more than a page. | 40 thousand |

What they show (each module's type invariant is a conjunct of one of its
properties):

- `MCFrontEnd`: `TextCovered` (blanks and comments are all that is between two
  tokens), `LongestMatch` (no token could be longer; the hash knows the twenty
  keywords and no other word), `EndsAtEnd` (the scan leaves the text only for a
  comment or a string open on the last line); `AcceptsExactly` (no error and no
  hole in the tree exactly for a sentence of `Grammar`), `ScopesBalanced` (the
  scope stack is that of the open activations, save at the end of the file),
  `DeclaredInPlace` (a function is entered in the scope its declaration is in),
  `FinishesUnlessOrphaned` (it ends, or stays for ever at an `else` or a type that
  starts no statement, or at a `*` that ends the file: `parse_statement` consumes
  neither).
- `MCSema`: `WellTyped` (what `sema_expr` returns is the greatest of the operands'
  types in the order of conversions), `VerdictFollowsErrors` (a statement is
  refused exactly if an error was printed, save five kinds that print and pass
  and one that is refused without a word), `InitializerFits` (a declaration stores
  as many bytes as its variable has), `GeneratesIfClean` (a statement accepted
  without an error stops the code generator only where sema left no type, or for
  an assignment to what is no variable; it mixes operand sizes only in a
  comparison of narrow operands).
- `MCScopes`: `ResolvedAlike` (the generator's symbol is sema's, unless a block
  around the use declares the name later, or again: then it is that one),
  `SymbolsVisible` (no pass finds a name in a block that is closed, and the
  generator's last assertion is reached only for a name that sema has reported).
- `MCExprGen`: `OperandsApart`, `OperandsSurvive` (only a call loses an operand, in a
  volatile register, and only a call of an external function: in `f(a, g())` with
  `g` external, `a` may be lost), `OnlyFirstLeaks` (line 613
  leaks register 0 and nothing else), `AbortOnlyWhenFull` (the compiler never
  gives up with more than the leaked register to spare), `ArgsFitBuffer` (the
  ten entries of `regs` are never exceeded), `FunctionsStartFree` (freeing four
  of seven registers is enough, because only register 0 leaks).
- `MCFrame`: `OverlapOnlyWithLater` (locals share bytes only if one is in a
  nested block and the outer block declares a local after it), `StoresInFrame`
  (what declarations and calls write is in the frame, with the exceptions the
  code has: branches, whose sizes are never counted, and exactly five arguments,
  the fifth of which is stored over the first local), `ScopesAgree` (both passes
  are in the same scope at each statement, and a block's offset is the sum of
  what was declared before it).
- `MCHashMap`: `EveryKeyReachable` (no free bucket between a key and its home),
  `AtMostHalfUsed`; `ImplementsDictionary` refines `Dictionary` under the mapping
  that reads off, for each key, the value of the bucket that holds it;
  `CallsReturn` under fairness.
- `MCArena`: `BlocksApart`, `OnlyLastOutside` (a block grown in place may pass its
  arena's end; it is then the arena's last), `KeptWhileSmall` (the lists lose
  nothing until there is a third literal or an entry's locations grow twice),
  `VectorsBounded` (in the debug build a vector cannot grow: its memory is not
  the pool's, which `arena_resize` asserts).
- `MCBuilder`: `OnlyOwnAddress` (a patched address is never another name's or
  another definition's, and the offset `e_lit` hands out is where the driver
  copies the literal), `PatchedIfKept` (exactly the instructions that were
  the first use of their operand, before the table moved and without a later
  request of the name, are patched).
- `MCArchive`: `InStep` (the pointer is always in the symbol that the index
  counts), `EachOnce`, `MissedOnlyWhenLost` and `MismatchOnlyWhenLost`, which say
  when the search is right for a function (`Sure`): the functions up to it ascend,
  case does not mix, and no earlier one that the library lacks was given up inside
  a symbol or passed a symbol it should have been given up at.  With the symbol `ab`
  and the functions `a` and `b`, `a` is given up inside `ab` and `b` then matches the rest
  of it; the assertion fails.
- `MCPEImage`: `SectionsApart`, `WritesInPlace` (without imports the data is
  written behind the end of the file), `LoaderFindsImports` (the loader reads
  back exactly the imports, and each call goes to the slot of its function),
  `DataWhereExpected` (0x3000 is right just if there are imports and they fit a
  page).

Runs that end with a counterexample, each a disagreement between the code and
what it says of itself; `PROJECT.json` quotes the line under "findings":

- `MCFrameLocals`: a local of a nested block shares bytes with a later local of
  the enclosing block.
- `MCScopesFound`: an initializer names an unknown variable; sema reports it and
  accepts the program, and `symbol_gen` reaches its last assertion.

Deadlock is checked in `MCHashMap`.  It is not in the others: there the compiler
really stops, at an assertion, at the end of the file or the function, or after
patching.

**Fairness.**  Two properties need any.  `FinishesUnlessOrphaned` is checked under
`WF_vars(FrontNext)`: the compiler is one sequential program, and a step it can
take it takes.  `CallsReturn` is checked under `WF_vars(Step)`, where `Step` is the
body of the call in progress: a C function that has been called keeps running;
that the caller calls again is not assumed.

## Proofs

`tlapm` checks these for every value of the constants that meets the named
assumptions of the module.  TLC evaluates the assumptions, and has checked each
inductive invariant on the instances above.

`HashMapProofs`, for any keys, values, hash function and even initial capacity
(`ValuesAssumption`, `HashAssumption`, `InitCapAssumption`):

- `Invariance`: `Spec => []IInv`.  `AtMostHalfUsed` is not inductive by itself:
  a set fills a bucket after the test for growth, so the invariant has to know
  that the test was made (`CallInv`), what the rehash has copied so far
  (`Copied`), that the loop has passed only buckets in use by other keys
  (`Passed`), and that a key is in one bucket only (`WellFormed`).  From these
  follow that a probe always has a free bucket ahead, that the bucket filled is
  the first free one on the key's chain, and that the new table holds exactly
  the keys copied.
- `TypeCorrectness`, `KeysStayReachable`, `NeverMoreThanHalfUsed`,
  `CapacityStaysBounded` follow from it.
- `Refinement`: each step is a step of `Dictionary` or a stutter.  Growing is a
  stutter because the copied table has the same contents; a lookup that stops at
  a free bucket answers "absent" because the key would have been reachable.

`ExpressionProofs`, about `ExprGen` for any number of registers, nesting and
arguments:

- `Invariance`: `Spec => []IInv`, with `OperandsApart`, `OperandsSurvive`,
  `OnlyFirstLeaks`, `AbortOnlyWhenFull` and `FramesInv`, which says how the nodes
  under way share out the operands: without it the operands a node frees could
  be another node's.
- the five safety properties and the action property `FunctionsStartFree`
  follow.  `ArgumentsFitBuffer` is a counting argument: the arguments are in
  different registers, so there are at most `NREG` of them.

and about `Sema` for any types of literals, variables, functions and casts, and
expressions of any length (`TypesAssumption`, `FunctionsAssumption`,
`NodesAssumption`):

- `SemaInvariance`: without an error a node's type is the one `Judge` gives, and
  with one some result under way has none (`NodesInv`); an error is due to the
  newest result or to an operation that reports and passes (`ErrorsInv`); a
  declaration's initializer has been given the variable's type (`StatementInv`).
  Each node's register is excused (`Excused`): if it stops the code generator or
  mixes sizes, a construct that may is among the node and its operands.  Since a
  node keeps what is said of it, this passes from operands to nodes step by step,
  and no induction over trees is needed.
- `TypesAreRight`, `VerdictsFollow`, `InitializersFit` and `CleanStatementsGenerate`
  are `WellTyped`, `VerdictFollowsErrors`, `InitializerFits` and `GeneratesIfClean`.
  The first rests on lemmas about the order of types: two operands have at most
  one greatest type, and `implicit_cast` with the comparison that follows it
  gives that type, or NULL if there is none.

`ArenaProofs`, for every pool size (`PoolAssumption`) and every sequence of calls,
whatever old sizes the callers claim:

- `Invariance`: `BlocksApart` needs to know where the blocks are in their arena
  (`Placed`): a block ends at `prev` or before it, or is the one that begins at
  `prev` and ends at `curr`.  The next block is placed at `curr` or behind it, and
  only the block at `prev` is resized in place.
- `BlocksStayApart`, `OnlyLastReachesOutside`, and for `Lists` (`ListsAssumption`,
  `RoomAssumption`) `ListsInvariance`, `ListsStayApart`, `OnlyLastListOutside`,
  `VectorsStayBounded`: the lists' steps are steps of the pool, and a vector of
  the debug build stays in the heap's memory (`VecHeld`).
- `KeptInvariance` and `NothingLostWhileSmall`: `KeptWhileSmall` holds because a
  list's memory is its own (`OwnMemory`) and of the size it asked for (`Sized`),
  and because blocks begin at aligned places (`PlacesAligned`): the two locations
  that are put into two bytes are within 16, and the next block is not nearer.
  What a call clears or a list overwrites is therefore no other list's (`Spared`).

`BuilderProofs`, for any names, sizes and numbers of requests and instructions
(`KindsApart`, `LitSizeAssumption`, `SizesAssumption`, `NullAssumption`):

- `Invariance`: an operand's entry keeps its index in every later table and is no
  other operand's (`EntriesKept`), a name's pointer leads to one of its entries
  (`PointersLead`), an entry's locations are exactly the recorded instructions
  of its operand (`LocationsKept`, `SitesFollow`), literals are laid one behind
  the other (`NextBehind`), and the loops have patched what is kept of the names
  they have passed (`PatchedSoFar`).  `OnlyOwnAddress` alone is not inductive: two
  entries with a location in common would break it at the next patch.
- `AddressesAreTheirOwn` and `PatchedExactlyIfKept` follow.

`ArchiveProofs`, for any finite set of names and any libraries
(`SymbolsAssumption`, `DllAssumption`), whatever the comparisons say:

- `Invariance`: the entries are those of visited functions (`OnlyVisited`), every
  visited function has one (`EveryVisited`), and no name is in two
  places (`NoneTwice`).  `ImportedOnce` follows; it rests on the functions' names
  being different and on `visited` being set in the same step as the entry.
- `SearchInvariance`: while a function is `Sure`, every symbol passed comes before
  it, and the pointer is at the start of a symbol or at the NUL of one that comes
  before it too (`Ahead`); one symbol is an exception, that of the function at hand
  that has been passed and is absent (`PassedAbsent`).  The table is a flattened
  sequence, a recursive function: what is needed of it is proved first (where each
  symbol starts, that a NUL ends it and none is inside, `SymbolsInTable`), each
  induction as an argument about the least counterexample.
- `StaysInStep`, `NoneMissed` and `NoneMismatched` follow.  `MismatchOnlyWhenLost`
  needs the order of the functions as `MissedOnlyWhenLost` does: with the symbols
  `Ab` and `Ac` and the functions `Ac` and `Ab` the second is given up inside a
  symbol although the library has it, and a third can then match a symbol's rest.

`LayoutProofs`, about `Frame` for any names, sizes, calls and bounds:

- `Invariance`: each statement is in the block that the one before it leaves
  (`Nested`), and the stack holds the blocks around it, each the parent of the
  next (`Around`).  A block's parent has the smaller number, so the function's
  body alone has nothing below it.
- `PassesInSameScope`: the part `InScope` of `ScopesAgree`.
- `SumsInvariance`, a second inductive invariant, `SumsIInv`, checked on
  `MCFrame` before it was proved: blocks are opened in the order of their numbers
  (`OpenedInOrder`), and those opened since a statement's block are within it
  (`InOpened`); a local is its declaration's place (`LocalsDeclared`); the totals
  of the open blocks that are in no branch cover the locals and the stack
  arguments outside branches, and the frame does once it is made (`Summed`); a
  block's offset is the weight of what was declared before it (`Offsets`).
  Without `InOpened` a local declared after an inner block could be of any block.
- `BothPassesAgree`, `FrameHoldsStores` and `LocalsShareOnlyWithLater` are
  `ScopesAgree`, `StoresInFrame` and `OverlapOnlyWithLater`.  What is before a
  local is a set of places, and its address is that set's weight; the local's own
  place is not in the set, so a local that comes later begins beyond it.  The
  exception is an outer block's local declared after the inner block was opened:
  it is not in the inner block's offset.

  The sums are folds over finite sets.  That such a sum takes a place's size and
  the sum of the rest, for every set, is shown from a smallest set for which it
  would fail, on the library's theorems about well-founded relations, since the
  induction theorems cannot be instantiated.

and about `PEImage` for any dlls, functions, lengths of names, sizes of data and
alignments (`NamesAssumption`, `AlignAssumption`, `StructuresAssumption`), code
of up to a page, which is the buffer of `main.c` (`SectionSizesAssumption`), and
headers that take as many blocks of the file with three sections as with the one
they are measured with (`HeadersAssumption`; those of `pe.c` take 368 to 448 bytes,
and a block has 512):

- `ImageInvariance`: `ImageInv`, checked on `MCPEImage` before it was proved.
  Where something starts in `.idata` is a sum over what is before it
  (`TableStart`, `ModuleStart`, `NameStart`).  The walk's pointers and offsets are
  these sums, although it adds them up one by one (`WalkInv`); what it has
  written so far is at these places and is nothing else (`TablesInv`: each table
  has exactly the slots of the functions passed, so that the one after the last
  stays zero); the sections are determined by the program (`SectionsInv`), and so
  is the code once it is patched (`CodeInv`); and each write is one that was
  meant (`WritesInv`).  None of the four properties says enough of the walk to be
  inductive.
- `SectionsAreApart` and `DataIsExpectedBehindImports` are arithmetic about
  `Align`, from `SectionsInv`.
- `WritesStayInPlace`: the parts of the file (`Low`, `High`) follow one another,
  and two writes of one part are at different places of the sums, of which the
  earlier ends before the later begins.
- `ImportsAreFound`: the places are different, so a table read from the start of
  a dll's yields its functions in order; it ends there because the next place is
  no function's in any dll.

`ScopesProofs`, for any names, functions, parameters and bounds
(`NamesAssumption`, `ParamsAssumption`):

- `Invariance`: the blocks form a tree in which a body knows the statement that
  opens it (`Tree`); each statement is in the block that the one before it leaves
  (`Nested`); the stack holds the blocks around the statement a pass is at, and
  below a function's body the function, except in the parser (`Stacked`); a
  block's symbols are declared in it or around it (`Declared`); what sema found
  is in a block or a parameter around the use and stays there (`ResolvedOnes`);
  and what sema let pass without a word it has resolved (`Passed`).  The blocks
  around a block are the smallest set closed under parents, which gives them by
  a step from the parent's without induction over the tree.
- `NamesInSight`: `SymbolsVisible` follows.  Each name found is in an item of the
  stack, so around the use; and what sema found around the use `symbol_gen` finds
  too, since a function is on its stack wherever its parameters count.

- `AlikeInvariance`: the stack is another one at each statement, so the two lookups
  are first told without it: each finds what the innermost block around the
  statement has (`LocalExistIs`, `SymbolGenIs`, in terms of `Innermost`).  So told,
  an entry made since can change a lookup in one way only, to the entry itself
  (`EntryFound`); hence both find what sema found, or something entered since
  (`Alike`).
- `FoundAlike`: `ResolvedAlike` follows at the statement the generator is at.

`FrontEndProofs`, for any set of files, of any length (`TextsAssumption`, which says
that a text is a string of characters, and `InitialCapacityAssumption`).  What the
argument needs of the tables of characters and keywords is stated beside them
(`CharactersAssumption`, `KeywordsAssumption`); no constant occurs in these, so TLC
decides them by evaluating them:

- `Invariance`, the lexer's part (`LexInv`): the tokens put so far cover the text up
  to the cursor, each as long as it can be.  `TextCovered`, `LongestMatch` and
  `EndsAtEnd` are conjuncts; they say enough about the cursor to be inductive with
  the types.  The end token, which keeps the place of the token before it, is told
  apart from the others by `Proper`.
- The parser's part (`ParseInv`): the stream ends with its "EOF" and the parser
  never passes it; the frames at the bottom are those of `parse_translation_unit`;
  `scopes` matches the activations of `parse_scope_stmt`, counted from the bottom
  of the stack (`Matched`), or the stream has ended and an error is out
  (`EndReported`, which stays: nothing leads back from the end).  A step replaces
  the innermost activation by others (`Turned`); four lemmas say what this does to
  the match, for a function that is no scope, a scope that goes on, one that is
  opened, one that is closed (`PlainTurn`, `ScopeTurn`, `ScopePush`, `ScopePop`).
- `Types`, `Coverage`, `Munch`, `EndReached`, `Balance` and `InPlace` follow.  For
  `InPlace` the last scope is the innermost activation's (`LastIsHome`) at the
  moment a function is entered.

Only model-checked: liveness (`CallsReturn`, `FinishesUnlessOrphaned`), which is
beyond the prover, and `AcceptsExactly`, whose reference (`Grammar`) is made of
recursive operators.  Every other property of a passing run is a theorem.

## Not modelled

- The encoding of x64 instructions (`emit`, `rex`, `mod_rm`, `sib`): a pure function
  whose reference is the processor's manual; the repository does not hold it.
- `ir.c`, which no other file calls; `microsoft_crazyness.h`, which is vendored;
  `bb.c`, which is empty.
- The text of the emitted assembly, the wording of errors, file and console I/O,
  timing counters.
- `map_get`, which removes half of an entry and which nothing calls;
  `arena_free_all` and `pool_get_scratch`, which nothing else calls.
- A `malloc` or `realloc` that fails, and what freeing a pool's memory does
  (base.h 569): both end in behaviour C does not define.
- In `Frame`, parameters (`[rbp+16+8i]`) and globals, which live elsewhere;
  functions declared in blocks, which address the enclosing function's locals in
  their own frame; blocks of more than seven names.
- In `Scopes`, statements at global level other than declarations, which the
  parser drops, and programs without a function.
- In `Sema`, a function's name used as a value, and declarations without a type.
- In `Builder`, instructions that end with an immediate after the patched operand,
  and the number of bytes of each instruction.
- In `Archive` and `PEImage`, the files themselves, the search for the SDK, the
  offsets inside an archive; a dll from which more than 16 functions are imported
  (the 17th push is in `Lists`).

## Noticed on the way

The models follow the code in these points, which no line of the repository
contradicts:

- the named type `u64` becomes `TYPE_U32` (parser.c 518);
- an assignment to what is no variable, and one of a wider integer to a narrower,
  are accepted; a returned value's type is never compared with the function's
  (sema.c 528);
- `type_equal` compares a function's arity with itself (sema.c 148);
- a declaration whose type is inferred stores a NULL left side (sema.c 614);
- in the release build a full arena's `arena_resize` copies to NULL (base.h 153).

## What is left

1. Nested functions: compose `Scopes` and `Frame`, with a stack of frames, and say
   when an enclosing function's local is reached.
2. The Builder's program handed to `PEImage`: the patched addresses of the two
   composed.

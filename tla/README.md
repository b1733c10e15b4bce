# TinyCC for Cygwin: a TLA+ verification project

The program is `src/tcc.c`: TinyCC 0.9.28rc for x86_64 Windows (Cygwin),
already preprocessed into one file. Lines 1 to about 11900 are system headers;
the program follows: preprocessor (`tccpp.c`), one-pass compiler (`tccgen.c`),
code generator (`x86_64-gen.c`, `x86_64-link.c`), assembler (`tccasm.c`,
`i386-asm.c`), linker (`tccelf.c`), PE writer (`tccpe.c`), library interface
(`libtcc.c`) and driver, all in one process and mostly on global variables.
`src/doc/tcc-doc.texi` describes the language, the command line and the
internals; the findings below quote it.

Line numbers are those of `src/tcc.c` unless another file is named.
`PROJECT.json` maps every definition to its lines.

## 1. Inventory

Status: **M** modelled, **P** partly, **-** not modelled.

| | Component | State it keeps | Operations | How it meets the others |
|---|---|---|---|---|
| P | lexer | `BufferedFile` with its refill, what is put back, `tok_flags` | `next_nomacro`, `handle_eob`, `handle_stray`, comments, strings, `parse_number`, `parse_string` | feeds tokens to the preprocessor |
| P | preprocessor: files and conditionals | include stack, one `#if` stack for all files, cache of guards, token flags of each file | `preprocess`, `parse_include`, `preprocess_skip`, end of file in `next_nomacro` | feeds tokens to the parser; `#if` calls the parser's `expr_const` |
| M | preprocessor: macro expansion | `macro_ptr`, stack of `TokenString`s, list of macros being expanded | `parse_define`, `next`, `macro_subst`, `macro_arg_subst`, `macro_twosharps`, `expr_preprocess` | between lexer and parser |
| M | preprocessor: pragma stacks | `define_stack` with marks, `pack_stack` | `push_macro`, `pop_macro`, `pack` | macro table; struct layout reads the alignment |
| M | token string allocator | arenas, blocks, a count in each | `tal_new`, `tal_realloc`, `tal_free` | macros, inline functions, initializers keep tokens in it |
| M | identifier scopes | `global_stack`, `local_stack`, `sym_identifier` of each token | `sym_push`, `sym_pop`, `global_identifier_push`, `external_sym` | everything the parser resolves |
| P | types and struct layout | types as `CType` chains | `struct_layout`, access to bit-fields | places for the members, units for the code generator |
| P | conversions and folding | one value: a constant or a descriptor, `VT_MUSTCAST` | `gen_op`, `combine_types`, `gen_opic`, `gen_cast`, `vstore` | every expression |
| P | value stack and registers | `vtop`, registers, temporary slots | `gv`, `gv2`, `get_reg`, `save_reg`, `gen_op`, `vstore`, `expr_cond`, calls | every expression |
| P | calls | arguments on the value stack, argument registers, frame | `gfunc_call`, `gfunc_prolog` | two compilations of one program have to agree |
| P | statements, jumps, labels, cleanups | jump lists threaded through the code, `nocode_wanted`, scopes, `pending_gotos`, `cur_switch` | `block`, `gsym`, `gvtst`, `expr_landor`, `case_sort`, `gcase`, `block_cleanup` | drives the code generator |
| P | declarations and initializers | what was cleared, what was stored, lengths not known yet | `decl_initializer`, `decl_designator`, `init_putv`, `init_putz` | parser, sections |
| M | inline functions | saved token strings, ELF symbol of each `Sym` | `decl`, `gen_inline_functions`, `put_extern_sym` | scopes, linker symbols |
| M | linker symbols: the rule | one symbol's attributes | the decision in `set_elf_sym` | used by the next three |
| P | linker symbols: the table | symbol and string section, relocations, translation table | `put_elf_sym`, `set_elf_sym`, `tccelf_begin_file`, `tccelf_end_file`, `update_relocs` | the compiler writes, the linker re-enters in place |
| M | linker symbols: the hash section | buckets and chains as words | `rebuild_hash`, `find_elf_sym`, `set_local_sym` | detached while a file is compiled |
| P | archives and object files | section map, symbol map, archive index | `tcc_add_binary`, `tcc_load_alacarte`, `tcc_load_archive`, `tcc_load_object_file` | enter symbols and relocations by the rule |
| P | PE writer | section order and addresses, imports, base relocations, the file | `pe_check_symbols`, `pe_assign_addresses`, `pe_build_imports`, `pe_build_reloc`, `pe_write` | reads the linker's tables |
| M | compile semaphore and errors | `tcc_compile_sem`, `tcc_state`, per-state `error_set_jmp_enabled`, `nb_errors` | `tcc_enter_state`, `tcc_exit_state`, `wait_sem`, `error1`, `tcc_compile` | threads; `longjmp` out of any depth |
| - | assembler, inline assembler | operands, register masks | `asm_instr`, `asm_compute_constraints` | parser, registers |
| - | strings and dynamic arrays, debug information, driver, tools, start files, headers | | | output formats, option parsing, vendored text |

What makes each correct, and what is hard about it:

* **Lexer.** The tokens are those of the text, however `read()` cuts it. Hard:
  a look ahead may cross the end of the buffer and an escaped newline at once,
  and what was read too much of is put back where the next piece begins.
* **Literals.** A number has the value and type C gives it. Hard: widths, what
  is dropped from a long fraction, ill-formed UTF-8.
* **Files and conditionals.** The text let through is the text plain recursive
  inclusion lets through. Hard: one `#if` stack serves all files; a guard is
  recognised by flags carried from line to line and then trusted, so that a
  later `#include` drops the whole file unread; files include one another.
* **Macros.** What is delivered is what the hide sets of the standard say. Hard:
  there are no hide sets but a list of names, cut back where a stream of tokens
  ends, which may happen while the arguments of the next macro are collected.
* **Pragma stacks.** A pop restores what the matching push saved. Hard: there is
  no stack of macros, only marks on definitions that go on being made.
* **Allocator.** Blocks in use do not overlap and keep their contents. Hard: the
  last block of an arena is taken back before the new one is known to fit.
* **Scopes.** A name resolves to its innermost visible symbol. Hard: nothing is
  searched; each symbol remembers what it covers, symbols can be slipped in
  underneath others, statement expressions hide symbols without freeing them.
* **Struct layout.** Members lie apart, inside the object, where gcc's ABI puts
  them; an access touches only the bits of its field. Hard: a bit-field's place
  depends on the one before, its access unit on its place.
* **Conversions.** What is folded, simplified or computed is what C says. Hard:
  casts are left for later by a mark, and constants are kept in 64 bits.
* **Value stack.** The emitted code computes what the expression means. Hard:
  the stack holds descriptors of where values are, and every instruction
  emitted may move or destroy values other entries describe.
* **Calls.** Every argument arrives where the callee looks for it. Hard: the
  arguments are moved into registers that hold other arguments.
* **Statements.** The code does what the source says. Hard: it is made in one
  pass; targets are known later than jumps, cleanups later than gotos; code is
  suppressed and revived by labels that may never be reached.
* **Initializers.** Every part has the last value given to it, or zero. Hard: a
  zero is not stored where memory was cleared, and designators go back.
* **Inline functions.** Exactly those needed are generated, once. Hard:
  generating one needs others; a declaration in a block copies the symbol.
* **Linker symbols.** No definition is lost without a report, in any order of
  files; every relocation keeps its symbol. Hard: a file's symbols are
  re-entered in place, reading the memory being overwritten, after a compile
  that may have ended in `longjmp`.
* **Objects and archives.** What moves together stays together; exactly the
  members needed are loaded. Hard: copies dropped, alignments, index order.
* **PE writer.** Sections do not overlap, relocations are found by the loader,
  imports bound. Hard: sections are made while addresses are given out.
* **Semaphore.** One user of the globals at a time; every call returns; errors
  are counted with the right state. Hard: `error1()` gives the semaphore up in
  the middle of the report, jumps out of any depth, and is also called where no
  compilation is under way.

## 2. Modules

| Module | Kind | Models |
|---|---|---|
| `Lexer` | component | characters to tokens over a buffer that is refilled |
| `LexReference` | reference | the tokens of a whole text |
| `Literals` | operators | `parse_number`, `parse_string` |
| `LiteralReference` | reference | C11 6.4.4 and 6.4.5, Unicode 3.9 |
| `PPInclude` | component | directives and inclusion |
| `PPReference` | reference | what inclusion means, recursively |
| `MacroExpansion` | component | definitions and their expansion |
| `MacroReference` | reference | hide sets |
| `Pragmas` | component | `push_macro`, `pop_macro`, `pack` |
| `TinyAlloc` | component | arenas of token strings |
| `SymScope` | component | identifiers and scopes |
| `StructLayout` | component | structs, unions, access to bit-fields |
| `Conversions` | component | integer arithmetic, folded or emitted |
| `VStack` | component | value stack, registers, slots |
| `CallConv` | component | arguments from caller to callee |
| `JumpCode` | operators | code under construction, jump lists, conditions |
| `FlowReference` | reference | what statements mean |
| `Statements` | component | `block()`, scopes and cleanups over `JumpCode` |
| `Initializers` | component | initializers of sections and local variables |
| `InitReference` | reference | 6.7.9: the last value of every part |
| `InlineFns` | component | declarations, uses, generation of inline functions |
| `LinkRules` | operators | which of two symbols of a name survives, when the linker reports a clash |
| `LinkTable` | abstract specification | a map from names to what is known of them |
| `LinkHistory` | properties | `LinkTable` with a history of what was entered |
| `SymTab` | component | the table as memory; refines `LinkTable` |
| `ElfHash` | component | the hash section, word by word |
| `Loading` | component | objects and archives, composed with `LinkHistory` |
| `PEImage` | component | imports, section order, addresses, base relocations, file |
| `CompileState` | component | threads, semaphore, errors |
| `LoadingProofs` | proofs | about `LinkHistory` and about `Loading` |
| `SymTabProofs`, `PPIncludeProofs`, `SymScopeProofs`, `VStackProofs` | proofs | each about the module it is named for |
| `FaithfulProofs` | proofs | that `VStack` is `Faithful`, over `VStackProofs` |
| `LayoutProofs` | proofs | about `StructLayout` |
| `PartsProofs` | proofs | about `ElfHash`, `InlineFns`, `Pragmas`, `CompileState` and `TinyAlloc` |
| `MC...` | model checking | instances; `MCPreprocessor` and `MCParts` hold several |

How state and actions correspond to the code:

**`Lexer`, `Literals`.** `bf` is the `BufferedFile`: what was read, where it is,
the bytes before the buffer that may be written to. One step is one
`next_nomacro()`; every character goes through `handle_eob()`, which chooses how
much `read()` gives (any amount up to `IO_BUF_SIZE`). `Literals` converts in one
step, as `next()` does. `LexReference` first joins escaped newlines, then takes
the longest token; `LiteralReference` works on the parts a number was written
from and splits a string by longest match.

**`PPInclude`.** One step is one line. `#if` conditions are of two kinds,
constant ones and tests of one macro. The three flags that recognise a guard
(begin of file, `#endif` just passed, and the recorded macro of the open group)
are in the model as they are in the code, as are the two error checks, at the
directive and at the end of a file. The implicit file `<command line>` is left
out: preprocessing starts with the main file.

**`MacroExpansion`.** `stream` is what `macro_ptr` and the stack below it read
from, `given` what was delivered; a token painted blue bears `SYM_FIELD`. One
step is one `next()`, with everything it expands; looking for a parenthesis goes
over newlines of the file, in an `#if` line too. The reference has one list of
tokens, each with its own hide set, and no streams.

**`Pragmas`.** `defines` is `define_stack` with marks; `pushed` and `packs` are
histories that say what ought to be restored.

**`TinyAlloc`.** Memory is words, written by their owners; a block lost or shared
shows in the words.

**`SymScope`.** `pool` is the memory of `Sym`s, reused after `sym_free`; `env`
is a history with one map per open scope. `PrevScope(TRUE)` is the end of a
statement expression; `ParseError` and `TccgenFinish` are the end of a compile
by `longjmp` and what pops the stacks then.

**`StructLayout`.** One step lays out one member as one round of the loop does;
the last rounds the size and chooses the access units. The reference is written
as gcc's rule on one counter of bits (`LayoutIsAbi`), without `c`, `bit_pos` and
access units; that members lie apart (`MembersApart`) is said of the bits the
accesses touch.

**`Conversions`.** One value is carried through operations twice: as the entry
tcc has (constant or register with its bits, and casts put off) and as the number
C says it is.

**`VStack`.** A register, a temporary slot or the flags hold the name of a value
in every *world*, a world being one execution of the emitted code that reaches
the point of emission; emitting an instruction executes it in all worlds. `means` is
a plain stack machine. What a computed int is named does not matter, so it is named
after the entry that holds it (`ValueOf`, one of `Names`), and worlds that differ in
names alone are one. The descriptors must at all times lead, in every world, to
what `means` says. Registers are rax, rcx, rdx (r8 to r11 are allocated only in
calls); the type of a value is int or pointer.

**`CallConv`.** `cpu` is the machine: registers, the stack, memory. `Call` is the
whole of `gfunc_call`: its first pass copies structs and long doubles, its second
moves the arguments into place. `Enter` is the callee's `gfunc_prolog`, `Leave`
the return; `Delivered1` compares what the callee finds with what was meant.

**`Statements`, `JumpCode`, `FlowReference`.** The state of the parser is the
calls of `block()` under way, each with the C variables it keeps (`a`, `b`, `d`,
what `lblock()` saves, the `switch_t`), since `cur_scope->bsym` and `csym` point
into them. The program is chosen token by token. When it is complete the code
is run, instruction by instruction, next to the source read by `FlowReference`,
which knows nothing of jumps: leaving a point for another cleans up the variables
in scope at the first and not at the second. Every outcome of every condition
and switch is tried.

**`Initializers`, `InitReference`.** `Write` chooses the items of a list one by
one, `ReadInitializer` is `decl_initializer` over the whole; the reference keeps
a tree of parts.

**`InlineFns`.** Functions are declared, defined and used in any order with
every mix of `static`, `extern` and `inline`; `EndOfPass` decides, as
`gen_inline_functions` does, whether another pass is needed.

**`SymTab`, `LinkTable`, `LinkRules`.** `mem` and `strs` are the symbol and the
string section with everything ever written beyond their ends, because
`tccelf_end_file()` rewinds the ends and then reads what lies beyond. `EndFile`,
`EndFileSym` (one round of the loop) and `UpdateRelocs` are the three phases of
`tccelf_end_file()`. `AbortFile` is a compile ended by `longjmp`: nothing is
rewound and the hash stays detached until the next file. `LinkerSym` is an entry
by the linker between files. Under the refinement mapping a file's staged
symbols are entered into `LinkTable` one by one as the loop reaches them. The
hash lookup is the set of linked symbols here and its real form in `ElfHash`.

**`Loading`.** One step begins an object (its sections appended, `BeginLoad`),
enters one of its symbols (`LoadSymbol`, the same step `LinkHistory` has) or moves
its relocations (`EndLoad`); `Lookup`, `EndOfIndex` and `NextMember` are the
scan of an archive's index or of its members.

**`PEImage`.** `CheckSymbol` is one round of `pe_check_symbols`, `PlaceSection`
one round of `pe_assign_addresses`, with the import table and the base
relocations made when their section is reached; `RelocateSyms` gives symbols
their addresses, `WriteImage` is `pe_write`.

**`CompileState`.** The compare-and-exchange of the first `wait_sem()`, the
initialization of the critical section, the spin on it, `tcc_enter_state` and
`error1` are steps of their own, interleaved between threads. The work of a
compilation is a loop of messages: warnings, errors that go on, errors that
jump. `pp_expr` is the global that tells `error1` how to make a message.

## 3. Runs

A run that checks several models lets `Init` choose one of them for the whole
behaviour: they are parts of the program with no state in common as far as they
are modelled (`MCPreprocessor`: `half`; `MCParts`: `piece`), each with its own
`Init` and `Next` in its own module. Where parts do interact they are composed:
`Loading` with `LinkHistory`, `SymTab` with `LinkTable`, `Statements` with
`JumpCode`.

Deadlock checking is off in runs whose inputs are used up: the program has ended.

| Run | Module | Distinct states | Shows |
|---|---|---|---|
| `symtab` | `MCSymTab` | 311,436 | in-place re-entry reads what was written (`StagedIntact`), names stay unique, relocations stay on their symbols (`RelocAim`); `SymTab` implements `LinkTable` |
| `loading` | `MCLoading` | 443,897 | in any order of files a strong definition wins, none is lost without a report, a name is defined exactly if something defines it; what moves keeps its place (`PlacedRight`); exactly the members needed are loaded (`ClosureLoaded`) and the scan ends |
| `preprocessor` | `MCPreprocessor` | 559,311 | four models: the text of the reference (`MatchesReference`), the includer's `#if` stack left alone, an end; macros mean hide sets (`MatchesMeaning`), take the right names off (`PopsItsOwn`), end an `#if` line at the right newline (`LineEndsWhereMeant`); tokens whole (`LexesWhole`); literals mean what C says (`LiteralsMean`) |
| `compile_state` | `CompileState` | 221,553 | one user of the globals, one initialization, errors charged to the right state, every call returns |
| `vstack` | `VStack` | 654,009 | the descriptors are right in every execution, slots in use do not overlap |
| `statements` | `MCStatements` | 1,617,962 | the code does what the source says, cleanups included; no jump is lost |
| `parts` | `MCParts` | 1,240,392 | ten models, below |
| `compile_state_doc` | `CompileState` | violation | finding 2 |
| `vstack_atomic` | `VStack` | violation | finding 3 |
| `statements_doc` | `MCStatements` | violation | finding 1 |
| `layout_doc` | `MCLayout` | violation | finding 4 |
| `call_doc` | `MCCallConv` | violation | finding 5 |

The ten of `parts`:

| Piece | Module | Properties |
|---|---|---|
| hash | `ElfHash` | `FindExact`: lookup finds exactly what was entered, through growth and detachment |
| pragmas | `Pragmas` | `PopsRestore`: pops restore what the pushes saved, of macros and of alignments |
| scopes | `SymScope` | `FindIsSound`, `RedeclarationExact` |
| blocks | `TinyAlloc` | `BlocksKept`: every block holds what its owner wrote |
| inline | `InlineFns` | `InlineClosure`: what is used is generated once, what is not is not, uses and definition meet in one ELF symbol |
| image | `PEImage` | `ImageSound`: sections apart and complete, in memory and in the file, base relocations exact; `ImportsBound` |
| layout | `StructLayout` | `MembersApart`, `LayoutIsAbi` |
| arith | `Conversions` | `ComputesC` |
| init | `Initializers` | `LastWins` |
| calls | `CallConv` | `CallDelivers` |

Every property has a mutant: a plausible bug, in the module right before the
definition it replaces, with which the run finds the property violated.

### Bounds, and why they are enough

* `symtab`: two names (symmetric), three cells of symbol memory, one relocation,
  few shapes. Three cells allow a file of two symbols after an earlier
  one, a compaction by one and by two, and an abandoned file before a good one.
* `loading`: two names, up to four files, eight members loaded. Nine objects have
  every shape of one symbol that reaches a case of `set_elf_sym()` (reference,
  weak, strong, hidden, protected, `.set`, BSS, COMMON); others have odd
  alignments, relocations, link-once copies, sections not linked; archives need
  their members along and against the order of the index.
* `preprocessor`, lines: every header of up to three lines and every guard-like
  one with two lines more before or after, included twice, with the macro
  undefined, defined or removed in between. The `#if` stack has 8 of its 64
  entries, the include stack 3 of its 32, so that recursion meets the limit.
* `preprocessor`, macros: every combination of four replacements of an
  object-like and nine of two function-like macros, that name each other,
  themselves, parentheses left open, `#`, `##`, `__VA_ARGS__`, applied to every
  text of up to three tokens after a name and of up to four around a call, and to
  `#if` lines of up to two tokens (also behind `defined (`), followed by an argument
  list or by an empty line and a number, and by one more line with a name.
* `preprocessor`, tokens: every text of up to three of ten characters, ten longer
  ones in which something is interrupted by escaped newlines; a buffer of three.
* `preprocessor`, literals: types of four and eight bits, eight bits kept of a
  fraction; numbers of three digits reach and pass each of them, in four bases,
  with right and wrong suffixes and exponents; strings of up to four bytes in
  which something begins or ends an escape, and of up to three bytes (and some
  longer) that begin, go on with, or break off a UTF-8 sequence.
* `compile_state`: two threads with two calls each and two messages per call.
* `vstack`: three registers, two reusable slots (`nb_temp_local_vars` stops at 8
  in the code), four entries, a frame of seven words, one `?:` with up to two
  operations in an arm. Four entries are one more than registers, so eviction,
  spilling and the full array of slots all happen. One name per entry, more are
  never used.
* `statements`: six grammars of a few tokens each (`MCStatements`): gotos and
  cleanups with two labels (7 tokens), loops with and without cleanups (5), code
  never reached (4), switches with ranges over four values (7), switches in loops
  with cleanups (7), and every nested condition of a list with `&&`, `||`, `!`
  and constants in `if`, `while`, `do` (2). `GcaseLinear` is 1, where the code
  has 8, so that two cases are enough for the binary search.
* `parts`, hash: three names that share one bucket at size 1, two of them still
  at size 2; five symbols make the table grow twice.
* pragmas: four definitions of two macros, two saved, two of eight `pack` entries.
* scopes: two identifiers, four symbols alive, three nested scopes.
* blocks: three owners, arenas of four words, three of them; requests that fit
  several times, just, and not at all.
* inline: two functions, four declarations, bodies that use the other.
* image: pages of eight words, sections of zero to twelve, so that they share,
  fill and cross pages; up to three symbols called, pointed to, missing, defined.
* layout: three members out of twenty kinds (every unit filled, crossed and
  exceeded), every packing. Three do not show everything: two fields of no width in
  a row between two others need a fourth, and came out of the proof, which is for
  any number.
* arith: widths of 2, 3, 4 and 6 bits for `char` to `long long`; any number of
  operations one after the other, until no new value appears, with variables and
  with constants at 0, 1 and both sides of a width.
* init: shapes two levels deep, up to three items in any order, going forwards and
  back.
* calls: every pair of arguments of every kind in every place, and lists of five
  and six, so that there are more than the four registers.

### Fairness

`CompileState` assumes weak fairness of each thread's steps inside a call: the
system schedules every runnable thread, and `EnterCriticalSection` may lose the
section to others only as often as they have calls left. Calls are bounded by
`MaxJobs`; without a bound, a thread could be overtaken forever, and the code
does not promise otherwise. In `MCPreprocessor` reading goes on (`Terminates`),
and in `Loading` each step of a load under way does (`ScanEnds`): one thread
runs, and nothing in its loops waits. What file comes next on the command line
is up to the user and not fair. No other module claims liveness.

## 4. Proofs

The theorems hold for every value of the constants that meets the named
assumptions: any names, files, owners, threads and sizes, where the runs have a
few. Each module of proofs has one inductive invariant, more than the properties
it is for; the proof that a step preserves it has a step per action. What each
invariant adds, and why it has to:

**`LoadingProofs`** is about `LinkHistory` by itself (`StrongWins`, `NoSilentLoss`,
`DefinedIffClaimed` for `HSpec`), then about `Loading` (the same three, `PlacedRight`
and `ClosureLoaded` for `LSpec`).

*The rule.* The properties speak about symbols already entered, so a step that
enters another needs to know what the table holds now. `LinkInv` adds that the table
is well typed and that its entries, never local, are replaceable only if one entered
was (`TableSound`). It takes the set of values a symbol may have as a parameter: a
run of `LinkHistory` has a few, the offsets of loaded sections are any natural
numbers. The lemmas `MergeType`, `MergeStrong`, `MergeKeepsStrong` are about the pure
rule: merging keeps types; a new strong definition makes the result strong or
reports a clash; a strong old one stays strong. Assumptions: `SectionAssumption` and
`TableAssumption` (the special values are not ordinary ones). The first two
properties are about `DynTable = FALSE`, the table of the link; in the dynamic symbol
table a definition may be overridden.

*Placement.* `Placed` says where each section of each object begun has gone: left
out, at an offset of the section of its name that holds its cells, or dropped for an
earlier copy that is whole and stands at offset 0 (`OnceHeld`). Cells are only
appended (`Grew`), so this survives everything that follows. `AppendedAll` says that
each relocation of the objects loaded is in its section exactly once, at that offset
and with its symbol renamed as `Renamed` has it; `MapRight` says so of the symbols of
the object in work, before its relocations are moved. `Origins` traces each symbol
entered to a symbol of an object at the offset of its section, and `TableFrom` what the table
holds to a symbol entered. `RelocationsHold` and `DefinitionsHold` then give the two
halves of `PlacedRight`. What the loops over sections compute (`Merged`, `MovedTo`) is
shown from the recursion equations by induction on the loop counter (`UpTo`), with a
loop invariant.

*Archives.* While an archive is searched, `Searched` relates what has been taken to
what is known: every symbol of a member taken has been entered, except those still to
come of the one in work (`MembersEntered`); what is known now was known at the start
or is defined by a member taken, and likewise for what is undefined (`KnownFrom`);
whatever holds what was undefined at the start holds what has been taken (`Minimal`:
each member was taken for a name that something taken before needs); and in a pass
that has taken nothing, no entry passed is undefined (`PassIdle`: why the scan may
stop when `bound` is 0). Assumption: `LoadingAssumption`, that files are as
assemblers write them: relocations inside their section, symbols of existing sections,
copies of a link-once section of one size. TLC checked `LInv` in the `loading` run's
instance, with one more file.

**`SymTabProofs`** (`UniqueNames`, `StagedIntact`, `RelocAim`, and the refinement
`RefinesLinkTable` of `LinkTable`). Memory beyond the ends of the sections counts,
since the merge reads it there. `IInv` says what stands in the cells of the table
(`TableCells`), what in those of the file being compiled or merged (`FileCells`,
with its history), where the cursors are (`Cursors`: what is written is never
ahead of what is read), where the hash section hangs, until a compile ends in
an error (`HashPlace`), and that every relocation is aimed at the symbol it was
made for, by the old number before the renumbering, by the new one after it
(`RelocsAimed`). The refinement is a step simulation: the loop of the
merge enters one name into `LinkTable`, all else stutters.

**`PPIncludeProofs`** (`IncluderUntouched`, an action property). `#else` and
`#elif` look at the bottom of the `#if` stack that all files share, and an `#else`
before any `#if` of its file does change the entry of the includer. The
invariant says why no file ends like that: the groups in force when a file is
opened are all taken, so the entry was 1; it is 2 after the `#else`, the rest of
the file is skipped, and every line that could end the skipping is an error there.

**`SymScopeProofs`** (`FindIsSound`, `RedeclarationExact`). `Sound` has four
parts: types and scopes in order (`Frame`), the `Sym`s on `local_stack` alive and
different (`Held`), file scope symbols alive and off that stack (`Rooted`), and
for each name a `Chain`: the positions of `local_stack` that are linked, the file
scope `Sym` at the end, and what the end of each open scope will bring back. The last is what
makes it inductive: popping restores what a symbol remembers, so what it
remembers has to be known from its push on. `FindIsSound` itself follows since
the walk of `MaxPool` steps along the chain meets no cell twice and so reaches
its end (the pigeonhole lemmas).

**`PartsProofs`**, pragmas (`PopsRestore`). There is no stack of saved macros, so the
invariant relates marks to history: the marked definitions of a macro are, in
their order on `define_stack`, the ones that were pushed, and the definition in
force is none older than any of them. For `pack`: the stack is the alignments
pushed below the one in force, within its size. Assumption: `Builtin`, the
definitions made before the file, is finite.

**`PartsProofs`**, token strings (`BlocksKept`). What owners see survives a step only if
blocks lie apart, headers included; if an arena's identity is unique in the list;
if the count of an arena is the number of blocks in it that are held; and if some
arena of the nominal size is always left, so that the list never runs empty.
`ArenaInv` says this of one arena, `TalInv` of all. Assumption: the owners are
finitely many.

**`PartsProofs`**, hash (`FindExact`). `HashInvariant`: the section is sized in
step with the symbols (`rebuild_hash` was called when it should have been), and
every bucket and chain word is the latest earlier symbol of its bucket; hence a
walk descends, meets every symbol of its bucket, and ends.

**`PartsProofs`**, inline functions (`InlineClosure`). The property is about the
end of a unit. `InlineInv` holds all the way there: a function with an ELF symbol
is needed; its body is compiled or kept once in `inline_fns`; what was used in a
body is linked to the definition, or is one of the strays that `Lost` describes;
and, while `gen_inline_functions` has gone through the list without a hit so
far, the functions it has passed are not needed. At the end of a round without
a hit this is the closure.

**`LayoutProofs`** (`MembersApart`, `LayoutIsAbi`, and `PositionsFit`: the six bits
in which a position is kept suffice), for any number of members of any widths,
alignments and packing that meet `LayoutAssumption`. The members lie in their order
before a frontier (`Apart`), 8 * `c` + `bit_pos` in gcc's mode, the end of the bits
taken from the unit at `offset` in MSVC's. The frontier is not enough there: the unit of a
run must also be reserved, that is lie below `c`, which is so only while every field
of no width ends a run that was begun. The attempt to prove this
found the second form of `NeverBegun`. In gcc's mode that sum is the counter of
`AbiEnd` and `maxalign` the greatest alignment of the members so far (`AbiInv`). When
the type is complete, the unit `Search` found has all bits of its field and lies in
the object, or else the bytes of `Bytewise` are those of the field, no more.

**`PartsProofs`**, threads (`TypeOK`, `Exclusive`, `InitializedOnce`,
`ChargedRight`), for any number of threads, calls and messages: `Exclusive` alone
is not inductive. `StateInv` adds which program points lie between taking and giving
back the semaphore (`HoldInv`), which lie before its initialization (`SemInv`),
that `error_set_jmp_enabled` is set exactly while the thread compiles, and whose
error `error1()` is about to count (`ChargeInv`).

**`VStackProofs`** (`SlotsDisjoint`), for any size of `arr_temp_local_vars`, any depth
and nesting. The property is about entries already on the frame; the next spill
decides by what the table of slots and the registers say now. `Sound` is what has to be
known of these: the recorded slots lie apart, between the variables and `loc`, also
those no entry refers to; a saved entry is in the slot its `r2` names or in one
of its own that was never recorded (the table was full); entries in one register are
copies of one another, since a spill gives all of them the slot made for the first;
and only the top entry is in the flags. Suppressed code emits nothing and so saves
nothing, and there two different entries do name one register. What is sound again when
code goes on is the stack below the suppressed arm (`BackOk`). Two arms are joined
without anything being saved, which is right because everything below was saved where
they parted (`SavedOk`). `VInv` is all this, and that `nocode_wanted` counts the
suppressed arms. The argument has two layers: each function of the compiler builds
a sound stack from a sound one and keeps what is below its operands (`Stay`, `Onto`;
`save_regs` and `gfunc_call` by induction on their loops), then each action preserves
`VInv`.

**`FaithfulProofs`** (`Faithful`), for the same bounds, needs `VInv`, since an
instruction that changes a register or a slot leaves an entry alone only if the entry
is not there, and `Computing` beside it. Every
execution is `Right`: each entry leads to what it stands for, and that is an address or
an int as the type of the entry says; without the second part the renaming of ints
could change what an address is compared with. Suppressed code has no execution. An
execution parked at a conditional is compared with nothing until it is taken up again,
so `ParkedOk` says of which stack it will then be right: what was below the condition,
with the value of the first arm on it if it ran that one; and that none is parked inside
an arm that no execution enters. At most `MaxDepth` entries are on the stack, so that
each has a name of its own. The layers are as before: each function of the compiler
keeps executions right (`Fine`), saving a register takes a slot no other entry is in,
the two arms are joined in one register (`JoinsTrue`); then each action preserves
`Computing`. The theorem has the hypothesis `AtomicTarget = "global"`, a target
that needs no register: otherwise `Faithful` is false (finding 3). Of `Names` it takes that there are as many as entries
and that none names another value (`NamesAssumption`).

Only model-checked:

* liveness (`Terminates`, `CallsReturn`, `ScanEnds`): the prover has no
  `ENABLED`;
* what is compared with a recursive reference, or is itself written with
  recursive operators (`MatchesReference`, the macros, `Lexer`, `Literals`,
  `Statements`, `Initializers`), and `Conversions`, which uses
  `Bitwise`: the prover cannot load such modules, and has no induction over data;
* `CallDelivers` of `CallConv`, `ImageSound` and `ImportsBound` of `PEImage`: what a
  call does with its list of arguments, and the order of the sections, the slots of
  the imports and the base relocations, are folds and flattened sequences, over which
  the prover has no induction.

## 5. Disagreements between code and documentation

1. **A goto out of a scope runs cleanups it should not** (`statements_doc`,
   21097). In `{ A a; goto L; B b; ... } L:` with cleanup functions on both
   variables, the closing brace sends the waiting goto through the cleanups of
   *all* variables of the scope, also of `b`, which it jumped over. The manual
   (texi:785): called "when the variable goes out of scope". The passing run excludes
   such programs (`LateVariables = FALSE`).
2. **A message outside a compilation may read another thread's macro stack**
   (`compile_state_doc`, 31702): `pp_expr` survives an error in an `#if`
   expression, and `error1()` looks at it after giving the semaphore up. The
   manual (texi:1492): several states may be used at the same time from
   different threads.
3. **`__atomic_load` stores through a lost register** (`vstack_atomic`, 20028):
   the place to store to is taken off the value stack during the call of the helper,
   so if its address was loaded, as in `__atomic_load(p, p, 0)` with a pointer `p`,
   nothing saves the register that holds it and the other arguments overwrite it
   (`RegistersKept`). The manual (texi:1891): `get_reg()` spills "so that the registers
   of the operation being generated are never taken away". A target that needs no
   register, a global or a plain local, is stored to correctly; the passing run and
   the proofs take a global (`AtomicTarget = "global"`).
4. **With `-mms-bitfields` members can lie on one another** (`layout_doc`, 18986):
   a bit-field of no width that ends no run, the second of two in a row included,
   is still remembered as the last one's type, and the next of that type continues
   a run never begun (`NeverBegun`). The manual (texi:508): consistent with MSVC.
5. **A long double that is not the last argument is lost** (`call_doc`, 27405):
   the first pass of `gfunc_call` looks at the i-th argument but loads the topmost
   one. The manual (texi:608): long double is fully supported. `CallDelivers`
   leaves out exactly these calls (`EarlyLongDouble`).

Met while modelling, and left out of a property by a named condition that says
when:

* `Pragmas`: a macro pushed twice in a row is saved once (14145, texi:981).
* `SymScope`: a statement expression unlinks its symbols at its end and again at
  the end of the function, and can make a file-scope name disappear (16619,
  texi:1672); `FindIsSound` says that this is the only deviation.
* `InlineFns`, `Lost`: a static inline function declared `extern` in a block and
  used there gets a symbol the definition never meets (texi:666).
* `PEImage`, `Unchained`: a pointer to an import taken before the import is called
  plainly falls out of the chain through `st_value`; a thunk at the very start
  of `.text` counts as not made.
* `StructLayout`: `packed` behind the body does not reach bit-fields as wide as
  their type; an unnamed one of these counts for the alignment of the struct
  (`UnnamedWhole`).
* `InitReference`, `LeftOut`: a list in braces clears nothing in a section; a
  part of a local aggregate begun again without braces is cleared; an address is
  added to the number that stands where it is stored. A string for a scalar, as in
  `char a[] = { 7, "ab" }`, is its address, with a warning (22011, 18500); C calls for a
  message and says no more. In a section a char then becomes 0, which is left out.
* `MacroReference`, `odd`: a name whose call ends beyond the stream it began in, where
  the standard leaves open what is hidden ("leak"); one empty argument too many is
  taken ("extra"). An `#if` line whose last name is a function-like macro, or whose
  last call is still open, goes on in the next line (15409, 15430), where C ends it
  ("line"): `MatchesMeaning` leaves these lines out, `LineEndsWhereMeant` says which
  newlines are lost and what the lines then mean, and leaves out only the first two.
  A parameter named `__VA_ARGS__` (the example of texi:629) is an ordinary one.
* `LexReference`, `EscapedTwice`: after a backslash and an escaped newline a
  string goes on over a plain newline.
* `LiteralReference`, `LeftOutNumber`: the suffixes `lL` and `lul` are taken (the
  test at 14853 compares a letter with itself), and `0x` alone is 0.
* `Loading`: relocations of a link-once section dropped for an earlier copy are
  still appended, with offset 0; an index that names a symbol its member does
  not define would make tcc load the member forever (archives in the model are
  truthful); weak references pull members.
* `Statements`: a label waited for both by gotos with something to clean up and by
  gotos without resolves only the former (21454, `Mixed`); the plain jump keeps a
  chain link for a target. With `MixedGotos = TRUE` both `NoJumpLost` and
  `FollowsSource` fail. `case 4: case 5 ... 3:` merges a case with an empty range (20999)
  and loses the case; ranges in the model are not empty.

## 6. Not modelled, and why

Of the 73,586 lines under `src/` about 21,700 are the program (11925 to 33606 of
`src/tcc.c`); the rest are system headers, in `src/tcc.c` itself and under
`src/cygwin`, examples and start files. The map covers a third of the
program's lines: the parts that keep state from one step to the next.

* Instruction encoding, debug formats, option parsing, the `ar` and `impdef`
  tools, start-up code and headers are straight-line code without state worth a
  model.
* The parsing of types and declarators (`parse_btype`, `type_decl`) and most of
  `unary()` are recursive descent, whose result is what is parsed.
* The assembler and the operands of inline assembly (see 7).
* In `Lexer`: the byte order mark and assembler lexing. In `Literals`: `\U`, the
  limit on the length of a number, `strtod()`.
* In `PPInclude`: path search, `#include_next`, `__has_include`. In
  `MacroExpansion`: spacing, `__LINE__`, `__FILE__`, `__DATE__`, `__TIME__`,
  directives inside arguments or in the lines an `#if` line goes on into (this
  version has no `__VA_OPT__`).
* In `Conversions`: floats, pointers, bit-fields, division by a constant zero; that
  the upper half of an `int` result of a call is clear is assumed. In `VStack`:
  floats, structs, bit-fields, two-register values. In `CallConv`: `alloca`, the
  size of the frame, the return value.
* In `Statements`: variable-length arrays, computed goto, local labels, statement
  expressions, the jumps a value leaves (`VT_JMP`). In `Initializers`: wide
  strings, bit-fields, variable-length arrays.
* In `SymTab`: `sort_syms` and the dynamic symbol table. In `Loading`: malformed
  files, stabs, shared libraries, linker scripts. In `PEImage`: `.def` files,
  resources, header fields, unwind data, `-run`. `TinyAlloc` only grows blocks, as
  its callers do.

## 7. What could come next

1. Proofs about `PEImage` and `Statements`, whose definitions would first have to do
   without folds and recursion, as `VStack` does.
2. `Statements`: variable-length arrays, local labels, `VT_JMP`.
3. `asm_compute_constraints` against the definition of a satisfying assignment;
   the assembler's local labels.
4. `VStack`: two-register values, floats on the second register class.
5. `SymTab`: `sort_syms` before the image is written.

# Zenit: models, checks and proofs

Zenit is a small language and a compiler for the NES (a 6502 called RP2A03), written in C. This directory
holds TLA+ models of the compiler's passes, the TLC configurations that check them, and proofs of some of their
properties. Paths below are relative to the root of the repository.

## 1. Inventory

The compiler is a sequential program. `src/main.c` runs its passes one after another, each on the whole
result of the one before, and stops after the first that reported an error. Nothing runs concurrently
and nothing persists between runs. What makes it hard to get right is *order*: each pass builds lists and
tables incrementally, goes on after errors, and patches what it emitted earlier.

| component | state | operations | what makes it correct |
|---|---|---|---|
| lexer, source (`front-end/lexer.c`, `source.c`) | position, line, column | consume, peek, save and restore | peeking changes nothing; positions are those of the token |
| parser, AST (`front-end/parser/parse.c`, `ast/`) | the lexer, the tree, errors | one function per rule, synchronisation after an error | recovery makes progress; a tree without error is complete |
| scopes, symbol tables (`program.c`, `scope.c`, `symtable.c`) | tree of scopes, current scope, names and symbols of each | push, pop, add, lookup | every pass re-enters the scopes the resolver made, pushes and pops balance, lookup finds the innermost |
| resolver (`binding/resolve.c`) | scopes, types of declarations | one visitor per node | no symbol before its declaration, structs in any order, no duplicate |
| types, type context (`front-end/types/`) | pool of canonical types, cached strings | equals, assignable, castable, can-unify, unify, copy | equality is an equivalence, unified types accept both sources, caches are fresh |
| inference, checker (`inference/`, `type-check/`) | types of symbols and expressions | one visitor per node | no type hint left, a checked program has no ill-typed assignment |
| ZIR generator (`front-end/codegen/zir.c`, `zir/`) | ZIR blocks, operand pool, patched offsets | one visitor per node | flat code runs what the source selects |
| NES IR pass (`back-end/nes/ir/`) | ordered lists and `used` of ZP and DATA, RAM list, table of names, NES IR, errors | one visitor per ZIR instruction; allocation by first fit, pin, alias | no partial overlap, everything inside its segment, nothing refused while there is room, three records of a symbol agree |
| aggregate layout (`ir/generate.c:36-127`) | element and member allocations | recursive set-up | members tile the allocation that holds them |
| emitter (`back-end/nes/rp2a03/`) | bytes, pc, pending jumps, data slots | one emitter per NES IR instruction, two backpatching passes | every branch goes where its offset says |
| base addresses, ROM (`rp2a03/generate.c`, `rom.c`) | slots, base addresses, image | search for holes, copy | code and data do not overlap; code runs where it was patched for |

Interactions: every pass calls the next one's input structures directly. Scopes are rebuilt by *re-entering*
(`zenit_program_push_scope` with the node's id) in five passes; types are shared by pointer through the type
context; jump offsets travel from the ZIR generator through the NES IR, unchanged, to the emitter, and change
their unit on the way (ZIR instructions, NES IR instructions, bytes). Errors are counted, not thrown: a visitor
that fails returns and its caller goes on with the next statement.

fllib (lists, hash tables, strings) is not part of the repository. The models use what `src/` relies on:
`fl_list_insert_before` and `fl_list_append` on ordered lists, `fl_hashtable_add` that leaves an existing
entry alone, `fl_std_uint_add_overflow(a, b, max)`, which is `a + b > max`.

## 2. Plan

The back end came first, because an error there is silent: a wrong address or a wrong jump yields a
program that runs and does something else. The front end followed, from the types, on which everything in it
rests, outwards.

1. **`ZnesProgram`** (done): the NES IR pass. `ZnesProgramProofs`: its invariants for every size.
2. **`ZirBranches`**, **`Rp2a03Text`**, **`BranchLowering`** (done): if statements from source to machine
   code. `BranchLowering` composes the other two.
3. **`StartupImage`** (done): addresses of elements and members, what each allocation emitter writes, at compile
   time and at startup, by segment of destination and source, the search for room, and the ROM. Layout, emitters and
   ROM share one module because the question is asked of all three: does a variable start with its value?
4. **`SegmentMemory`** (done): what the table of names promises to the passes that read it. `ZnesProgram`
   implements it; `ZnesMemoryProofs`: the refinement for every size.
5. **`ZenitTypes`**, **`ZirTypes`**, **`Unification`** (done): the type algebra of both trees of types, against a
   meaning of types as sets of values.
6. **`ZenitProgram`**, **`Resolve`**, **`Infer`**, **`Check`**, **`GenerateZir`**, composed by **`FrontEnd`** (done): the
   five passes from the AST to ZIR on the same program, against what its text says.
7. **`Lexer`**, **`Parser`** with **`ZenitGrammar`** (done): position bookkeeping, the language accepted, recovery and
   termination.

Theorems, in order: type correctness and placement, correspondence of instructions and operands, agreement of table and
lists, the refinement of item 4, pins, accounting and refusals of the allocator; the ZIR of nested ifs, the text segment
and both together; the lexer; errors and depth of the parser, and the language it accepts (all done). The
type algebra, the passes of the front end and `StartupImage` are recursive over data and stay with TLC.

## 3. Modules

### `ZnesProgram` (`src/back-end/nes/ir`)

`znes_generate_program` visits the global ZIR block. One action per instruction: `VisitVariable` (with the
alternatives `VisitPaged` for ZP and DATA, `VisitText` for RAM, `VisitRejected` for bad attributes),
`VisitCast`, `VisitIfFalse`, `VisitJump`, and `Finish` for the verdict. The ZIR program is not a constant:
each step picks the next instruction among those an earlier pass can produce (names are declared
once, sources are declared before).

| variable | code |
|---|---|
| `seg["zp"]`, `seg["data"]` | `ZnesZeroPageSegment`, `ZnesDataSegment`: `allocations` in list order, `used` (which starts at the base address for DATA) |
| `text` | the startup `ZnesTextSegment` (`main.c` calls `znes_context_new(false)`, so `startup_context` is true throughout this pass) |
| `allocations` | the hash table of `ZnesProgram` |
| `zir`, `errors`, `result` | what was visited, the error list's length, the returned value |

The two allocators (`data.h`, `zp.h`) are loops over the list with early exits. They are given by the
*first index at which the loop stops* (`AutoStopsAt`, `PinStopsAt`) and what happens there (`AutoPlaces`,
`PinPlaces`), which is the same function without a recursion. The two differ in the checks that ZP makes first
(`Admits`), in the base address and in the limit of the overflow tests (`Base`, `Top`). A new address is
cut to 16 bits, as the field is.

Abstracted: a type is an allocation kind and a size; an operand is the symbol it reads, or a literal; offsets of
branches (copied unchanged). `is_global` is always true, since the only block visited is the global one.

`CollidingPins` is a promise of the environment: when it is FALSE a program pins a symbol only on free
bytes or exactly on a symbol of the same type and size.

### `SegmentMemory`

The abstract specification of the table of names: one action, `Reserve`, which gives one new name a place that is
apart from, or an exact alias of, each place of its segment. It has no lists, no order, no `used`, no search.
Like the code it promises nothing of a segment that one of its symbols has left. `ZnesProgram` implements it with
`placed` mapped to `allocations` (`ImplementsMemory`): a step of the visitor is a `Reserve` or a stutter. The point
of it is that the search looks only at the lists while the operands are resolved only with the table.

### `ZirBranches` (`src/front-end/codegen/zir.c`)

`visit_if_node` is recursive; `open` is its call stack (position of the `if_false`, position of the `jump`, the branch
being visited). The environment decides what comes next: another instruction, another if, the end
of the branch. Each action is one stretch of `visit_if_node` between two visits of a child, with the error exits.
`under` is a history field of each instruction: the branches that enclose it in the source.

### `Rp2a03Text` (`src/back-end/nes/rp2a03`)

One NES IR segment is emitted instruction by instruction (`EmitAlloc`, `EmitIfFalse`, `EmitJump`), each followed
by `rp2a03_text_segment_backpatch_jumps` (`CountDown`, `Kept`, `Resolved`), and then placed (`PlaceSegment`:
`rp2a03_text_segment_backpatch_absolute_jumps`). An allocation instruction takes any number of bytes in
`PlainSizes`; 0 is the temporal. `StopEmission` is the silent exit of `emit_segment_instructions`. Which address
the search for a hole returns is left open (`Bases`). `operands` maps the index of an operand byte to its
value; the two bytes of a JMP are one number.

### `BranchLowering`

`ZirBranches` followed by `Rp2a03Text` on the same `code`. The pass in between copies instructions one for one
(`OneForOne` of `ZnesProgram`, proved), so it is left out here. `MachineRuns` is the processor: it
reads BEQ operands as signed bytes and follows addresses, not instruction numbers.

### `StartupImage` (`src/back-end/nes/rp2a03/emit-alloc*.h`, `generate.c`, `rom.c`, `ir/generate.c:36-127`)

A program is a sequence of declarations: `VisitVariable` emits one initialisation, `VisitCast` makes a temporal,
which emits nothing and remembers its operand; then `PlaceSegments` finds room for the two text segments, and `BuildRom`
writes the ROM. Which values, types and sources occur is chosen at each step among those that the checker lets through
(`Accepts`, `Sources`); literals of arrays and structs nest.

| variable | code |
|---|---|
| `startup` | the flag `is_startup` of the emitters: the startup segment, which is the one `main.c` fills, or the code segment, which `tests/back-end/nes/if.c:98` fills with `znes_context_new(true)` |
| `symbols` | the places and temporals of the declarations so far |
| `program` | `Rp2a03Program`: `image` is `data->bytes`, `slots` is `data->slots`, `code` the instructions of the text segment, `ok` whether `emit_segment_instructions` still goes on |
| `expected` | history: the bytes that the *source* puts at each address, by conversion of values and not by the emitters |
| `bases`, `rom` | the base addresses of the two text segments; the PRG-ROM with its vectors, the reset vector and the operand of the JMP that ends the routine |

The nine emitters of `emit-alloc-var.h`, one for each pair of segments, differ in two points only: at startup DATA to DATA
is copied on the image while compiling, and DATA to ZP takes immediate operands from the image. `Copy` walks the elements and
dispatches to `CopyByCode` and `CopyFromData`; `EmitAlloc` dispatches to `EmitArray`, `EmitItems` and `EmitStruct`. The two
registers of the uint emitters are one, since each store directly follows its load. An instruction is a load or a store
with its size in bytes. `After` is the processor. Memory is flat: a store into DATA takes effect, as the emitters
assume. Members of a struct have names: the checker goes by them, the emitters by position.

`BuildRom` copies the whole image, whose last bytes are the vectors, so a variable in DATA may lie in the reset vector: that is how
a program names its reset handler. `WithRoutine` gives the routine a JMP to that handler and then puts the routine's own address
there.

`Hazards` is a promise of the environment. The code handles six kinds of programs in a way that contradicts what it says
elsewhere, and a run offers them only when its `Hazards` names them:

* `stale`: a variable in ZP or DATA initialised from a DATA variable that the routine sets (run `stale_read`);
* `zero`: a byte of DATA that is zero, which `rom.c:52` takes for a free one;
* `narrow`: a cast to a narrower type that initialises a wider variable keeps the bytes that the cast drops (`emit-alloc.h:19`);
* `reference`: a variable of reference type cast to an integer is not copied (`emit-alloc-var.h:109` and its eight
  siblings compare allocation kinds), and nothing reports it;
* `order`: a struct literal, or a struct, whose members are in another order than those of the variable, which the emitters pair by
  position (`emit-alloc-struct.h:23`) and the checker by name (`front-end/types/struct.c:208`);
* `vector`: a variable in RAM initialised from the bytes of the reset vector, which the routine reads when they hold its own
  address (`rom.c:65`).

`Initialised` fails with each of `stale`, `narrow`, `reference` (with four symbols) and `order`, and holds without them; `vector` and
`zero` break `Boots`.

### `Lexer` (`src/front-end/lexer.c`)

`zenit_lexer_consume`, `zenit_lexer_peek` and the removal of white space and comments, over any text of `Sources`. A step is an
iteration of a loop of `remove_ws_and_comments` or the recognition of a token, so that a call takes as many
steps as it has iterations, and a loop that does not end is visible.

| variable | code |
|---|---|
| `content`, `index`, `line`, `col` | the source and the lexer's cursor |
| `call`, `mode`, `level` | which function runs, which loop it is in, how deep block comments nest |
| `saved` | the cursor that `zenit_lexer_peek` restores |
| `peeked`, `token`, `from` | history: the last tokens returned, and where the call of consume started |

A character stands for its class. Keywords are words. Whoever calls the lexer may peek and skip as often as it likes.

### `Parser`, `ZenitGrammar` (`src/front-end/parser/parse.c`)

Each parse function is an action; `stack` holds its calls (function, the point reached, one flag) and `ret` what the
last one returned: a node, a node with a hole, or NULL. The source is not a constant: tokens are chosen when the parser looks at
them, after one of the `Beginnings`. `ZenitGrammar` holds the context-free grammar as sets of productions; `forms` is a
history variable, the derivatives of the grammar by the tokens consumed, which the parser itself never reads. `Expanded` takes
`MaxSteps` leftmost steps, since no more nonterminals in a row can give way before a token comes first.

With `Documented = TRUE` the grammar is the one of `docs/grammar.txt` and of the comments of `parse.c`; with FALSE, which
the run uses, `Departures` replaces the rules on which parser and text differ: `;` after each declaration,
if without else, empty or comma-ended properties, struct literals without a name, nested types and missing lengths.

### `ZenitTypes`, `ZirTypes`, `Unification` (`front-end/types`, `inference/infer.c`, `zir/types`)

Types are values: named structs are looked up in `pool`, the type context. `ZenitTypes` has the relations (equals,
assignable, castable, can-unify) and unification, each with one operator per kind of type, as in the code. `ZirTypes` has the
conversion into the types of ZIR, which are other C types with relations of their own, and their sizes. `Unification` is a
state machine whose state is the types in a few `Slots` and whose step is one `zenit_try_type_unification` between two of them. Its
properties compare with `Values(t)`, the set of values a type describes, which the code does not have.

### `ZenitProgram`, `Resolve`, `Infer`, `Check`, `GenerateZir`, `FrontEnd`

`ZenitProgram` is the AST, the context and the scopes. A node is a record with its location, a path in the tree, in place of
line and column. A scope is keyed by the path of names from the global scope, which is how `zenit_program_push_scope` finds it
again in the later passes.

The visitors of the passes are operators from a context to a context, one for each visitor of the code. A type slot
that the C code passes by pointer comes back with the context (`Inferred`). Where the program would follow a null pointer, fail an
assertion or not end, the visitor records it (`Crash`) and the rest is skipped. `GenerateZir` works on a generator: the
block that is open, the symbols of each block, the number of temporals, the code and the last operand. It leaves the
offsets of jumps to `ZirBranches`.

`FrontEnd` is the driver: one top-level node per step (`ResolveNextType`, `ResolveNext`, `InferNext`, `CheckNext`,
`GenerateNext`), `EndPass` when a pass is over, which stops the compilation after errors, and `Finish`.

### MC modules

Values of constants. `MCFrontEnd` builds its programs without locations and puts them in with `Locate`.

### Modules with proofs

| module | about |
|---|---|
| `ZnesProgramProofs` | the NES IR pass: types, placement, instructions and their sources |
| `ZnesMemoryProofs` | the NES IR pass: table and lists, the refinement of `SegmentMemory`, pins, accounting, refusals |
| `ZirBranchesProofs` | nested ifs to flat ZIR |
| `Rp2a03TextProofs` | emission and backpatching of a text segment |
| `BranchLoweringProofs` | both, from source to machine code |
| `LexerProofs` | the lexer |
| `ParserProofs` | the parser |
| `LeastNumber` | induction on numbers, used by the others |

## 4. Runs

Compilation ends, so all runs but `types` set `CHECK_DEADLOCK FALSE`. `Lexer` and `Parser` have fairness, because their loops
run until the source ends: one thread runs them, so a step that can be made is made (`WF` of `Next`); and the callers of the lexer
do not peek for ever, they go on to consume (`SF` of `Consume`; the loops of the parser and of `zenit_lexer_tokenize` are such
callers). The other models have neither: each pass is a loop over a finite list, and the program being compiled,
which is the environment, may always end.

| run | shows | bounds |
|---|---|---|
| `first_fit` | `TypeOK`, `PlacementSafe`, `UsedAccounts`, `RefusedOnlyWhenFull`, `ImplementsMemory` | four variables, all in ZP or all in DATA: one to three bytes in a page of seven is enough for a gap in the middle, an alias, a full page and a refusal; DATA has base 8 in a 4-bit address space, so the last byte is in reach and sums overflow and wrap; a type of size 0 |
| `program_tables` | `OneForOne`, `NoDanglingSource`, `TablesAgree`, `PinsHonoured` | variables, temporals and branches in all orders; all kinds of attributes; colliding pins |
| `backpatching` | `TextTypeOK`, `BeqOperands`, `PendingIsExact`, `FinalJmpsLand` | every segment of up to 4 instructions with any forward offsets, nested or crossing; half a byte of range is 8 |
| `if_to_machine_code` | `ZirTypeOK`, `OnlyOpenIfsWait`, `StructuredExecution`, `MachineFollowsSource` | every nesting within 8 instructions, offsets up to 6, so that the overflow exits occur; instructions of 5 or 0 bytes |
| `startup_image` | `Initialised`, `Boots` | three symbols: a variable, its cast or copy, and a third one that either may disturb; integers of one and two bytes, a reference, an array and a struct with members of different sizes; ZP and RAM of 16 bytes, a bank of 48 with a gap of 9 bytes that some routines fit in and others do not, and one of 44 that leads into the reset vector |
| `lexer` | `LexTypeOK`, `OnlyTriviaSkipped`, `LocationsExact`, `PeekIsNextConsume`, `LexerTerminates` | every text of four characters of eight classes; every text of eight characters that are comment marks and line ends, enough for one comment inside another and one left open |
| `parser` | `ParserTypeOK`, `AcceptsTheLanguage`, `ViablePrefix`, `NullMeansError`, `ErrorsAreReal`, `ParserTerminates` | every sequence of five tokens of 22 types, from the start and after six beginnings that lead into attributes, struct bodies, ifs, type hints, casts and struct literals |
| `types` | `AssignableIsSafe`, `NeverNarrows`, `ConvertedTypesAgree`, `UnifiedTypesAgree` | three slots, so that unification can be indirect; 21 types of every kind, nested once or twice, named and unnamed structs, unknown parts |
| `front_end` | `FrontTypeOK`, `NamesResolved`, `ValuesFit`, `ZirMeansSource`, `EndsExplained`, `LaterPassesKeepDeclarations` | 14,825 programs of up to three declarations on three themes: names in nested and sibling blocks; two variables whose types follow from each other; structs and their literals in any order, in blocks, inside each other |

The constants of the back end are small versions of 0xFF, 0x8000, 0xFFFF, 0x100: only their order matters (`LimitsAssumption`,
`SizesAssumption`), and the theorems hold for every value.

The properties that take reading:

* `PlacementSafe`: in each segment the list is in address order and two symbols share bytes only as exact aliases,
  *as long as all symbols are inside the segment*. The condition is needed, see the next section.
* `UsedAccounts`: `used` is the base address plus the number of bytes that are taken, which is what a segment is declared
  full by; an alias counts nothing. It speaks of a segment until one of its symbols has left it: after a symbol that wrapped to
  address 0, a symbol that is larger than the segment may lie on bytes that were counted before.
* `RefusedOnlyWhenFull`: an action property. An automatic request that fails had no gap. The last byte of each
  segment does not count, because the code's limits (0xFF and not 0x100) leave it out.
* `OnlyOpenIfsWait`: while the code is written, a branch has no offset exactly as long as a call of `visit_if_node` in progress is to
  patch it: the `if_false` in a then branch, the jump in an else branch, each by one call. It says at every step what
  `StructuredExecution` says of the end.
* `StructuredExecution`: for every outcome of the tests, the flat code executes the instructions that the nested ifs select.
* `PendingIsExact`: after every instruction, the pending list is exactly the set of JMPs and of BEQs whose
  target is ahead, each with the number of instructions to go.
* `FinalJmpsLand`: the JMPs that are right in spite of `jmp_drift`: those to the end of the segment.
* `Initialised`: image and routine together give every variable the value of the source: neither half alone is
  right, and no emission may disturb an earlier one.
* `Boots`: the same of the ROM that is written, in which the routine itself lies, and the reset vector is the address
  for which the routine's JMPs were patched. The search in `rom.c` is another one than that in `generate.c`. Stated for
  routines that fit before the vectors (`Room`): the slots include the vectors' six bytes, the bank does not.
  The two bytes of the reset vector are left out, since the ROM writer replaces them.
  That no byte of a variable lies under the routine follows, since it would have lost its value.
  Its part `HandsOver` says that, whether the routine is in the ROM or not, the CPU gets to the handler that the *source* put in
  the reset vector; a handler that only the routine stores is left out, since it is not known when the ROM is written.
* `MachineFollowsSource` composes all of it, under `Expressible`: tests that are less than 128 bytes away
  from their targets, no JMP except to the end, and an end whose address fits in 16 bits.

* `OnlyTriviaSkipped`, `LocationsExact`: compared with `Reading` and `LocationOf`, which read the text from its start and know
  no cursor. `Reading` follows the lexer in one point, see the next section.
* `AcceptsTheLanguage`: the parser ends without an error exactly when the derivatives contain the empty form. `ViablePrefix` and
  `ErrorsAreReal` say where in the source the first error is reported: neither too late nor too early.
* `NullMeansError`: no part of the program is dropped in silence.
* `ParserTypeOK` bounds the recursion: two calls for each token, and three (`MaxDepth`).
* `NeverNarrows`: a property of sequences: whatever is unified with whatever, no slot loses a value it had at first.
* `ConvertedTypesAgree`: two implementations of the same relations; ZIR is stricter for structs, and only there.
* `NamesResolved`: the set of name errors equals the one computed from the text by `Reaching` and `Candidates`, which know only
  which block encloses which.
* `ValuesFit`: what unknown hints become in inference, with implicit casts inserted, is fit for the value, element by element.
  It leaves out programs with two structs of one name, and types that are not known to the end, see the next section.
* `ZirMeansSource`: every name in the ZIR is the declaration that the text says. All blocks of the source share one ZIR
  block, so inner variables are renamed.
* `EndsExplained`: the compilations that end otherwise than with an answer are those the next section lists, and no others.

### Disagreements between the code and what it says of itself

| run | what |
|---|---|
| `jmp_drift` | `segment-text.c:55`: a JMP that is due stays pending and takes the pc of every later instruction. It goes to the end of the segment instead of the end of its else branch (`zir.c:623-624`). `tests/back-end/nes/if.c:56-72` shows it: both `if`s jump to `$8032`, past the second one. |
| `stale_read` | `emit-alloc-var.h:189` and `:253`: the image is read while compiling also for a variable whose value only the routine sets (`generate.c:49-51`). With a in ZP, b in DATA from a, and c in DATA from b, c is 0. |
| `inner_struct` | `zir.c:740`: ZIR blocks are made for the structs of the global scope only, so a struct declared in a block passes every check and then fails in ZIR generation (`zir.c:765`: "We make sure all the functions, structs, etc are "declared" in ZIR"). |

Met while modelling, and without a run of their own; the properties that hold exclude them in a named condition or follow the
code:

* `segment-text.c:60`: the displacement of a BEQ is cut to a byte, which the processor reads as signed (`zir.c:641-642`).
  `Expressible` excludes it.
* `data.h:131`: a pinned symbol inside an earlier one is accepted when a later one exists, although aliases need equal size and
  type (`data.h:105`). `CollidingPins` excludes it.
* `data.h:82` and `zp.h:84`: the probed gap is checked, the place after the last symbol is not (`data.h:70`: "it is
  safe"). A DATA symbol wraps to address 0, a ZP symbol runs past the page. The condition of `PlacementSafe`.
* `rom.c:52`: the ROM writer takes zero bytes for free ones, where `generate.c:69` had used the slots. A DATA variable that
  ends in a zero byte loses it to the first opcode of the routine, which also starts at another address than the one its JMPs
  were patched for (`README.md:46`). `Hazards` excludes it.
* `rom.c:46`: the JMP that ends the routine takes its operand from the image, so a handler that the routine itself is to store is not
  reached; and after `rom.c:65` the routine reads its own address where the image had the handler. The condition of `HandsOver`, and
  `vector` of `Hazards`.
* `emit-alloc-struct.h:23`: in a struct of a uint8 `a` and a uint16 `b`, the literal `{ b: 35, a: 1 }` puts 35 in `a`, although a
  constant value in DATA "is copied on compilation" (`generate.c:50`). `order` of `Hazards`.
* `ir/utils.c:294` is an `else if`: an attribute with both a segment and an address drops the address (`README.md:88`).
* `lexer.c:147`: a comment mark whose second character is the last of the source is no comment. `Opens` follows the code.
* `check.c:185` and `362-403`: what is compared with a type that is not valid is not checked: in `var b = [ [], 300 ]` the
  element type stays unknown and nothing is reported. `Known` excludes it.
* `struct.h:99`: an unnamed literal where a struct without one of its members, or one that is not declared, is expected
  follows a null pointer (outcome `null`). `symbol.c:6`: a struct literal before its struct fails an assertion (outcome
  `assert`). `program.c:235`, `zir.c:115`: a struct that contains itself is visited without end (outcome `endless`);
  so is the comparison of two of those, which no program of the run makes. `EndsExplained` lists the first three.
* `zir/types/struct.c:212`: ZIR compares structs member by member for equality where the front end asks for assignability.
* The addressing modes of BRK differ between `mnemonic.c` and `instruction.c`, and looking NOP up there gives opcode 0x04.
  The compiler emits neither.

## 5. Proofs

Everything below is proved for all values of the constants, under the named assumptions of the modules: programs, texts and
sources of any length, segments and operands of any size.

### The NES IR pass (`ZnesProgramProofs`, `ZnesMemoryProofs`)

* `TypeCorrect`: `Spec => []TypeOK`. One lemma per kind of step; the core is that a search returns a
  position of the list (`AutoPlacesType`, `PinPlacesType`) and that inserting there gives a sequence
  (`InsertAtFacts`).
* `PlacementCorrect`: `Spec => []PlacementSafe` when programs pin on free bytes or aliases
  (`CollidingPins = FALSE`; it fails otherwise, see section 4). The inductive invariant is
  `TypeOK /\ PlacementSafe`. A separated list is monotone in first bytes and in ends (`SeparatedMonotone`), so one
  comparison with the gap's two neighbours orders the new symbol against the whole list (`AutoFits`); for a pin, a
  node that did not stop the loop is apart from the symbol and not after it, so it is before (`PinFits`);
  inserting a symbol that fits keeps the list separated (`SeparatedInsert`). An append that wraps gives an address
  below DATA's base, which contradicts the condition that all symbols are inside. `StepRecords` is where the actions
  are split: a step leaves lists and table alone or records exactly one new symbol (`Records`), and the rest of
  the argument, and the next theorems, speak only of recordings.
* `InstructionsCorrespond`: `Spec => []OneForOne`, and `SourcesResolved`: `Spec => []NoDanglingSource`. Both
  rest on `StepShape`: a step reports an error or copies exactly one instruction. The invariants speak of programs
  without errors so far, since `OneForOne` is false after one; `SourcesResolved` adds that every declared
  name is in the table, which is what a lookup needs.
* `TablesCorrect`: `Spec => []TablesAgree`, colliding pins included. The inductive invariant `TablesInv` adds that the table
  names only declared symbols, so that `Register` never meets an existing entry, and that a list holds only symbols of its
  own segment.
* `Refinement`: `Spec => ImplementsMemory` when programs pin on free bytes or aliases. A symbol that fits in a list
  (`FitsAt`) is compatible with every node of the list, and by `TablesInv` the nodes are exactly the table's symbols of
  that segment (`RecordsReserve`).
* `PinsCorrect`: `Spec => []PinsHonoured`, colliding pins included, from `TablesInv`: a step declares one name, with the place
  its attributes ask for or without one (`StepDeclares`), and the place of an earlier name does not change.
* `UsedCorrect`: `Spec => []UsedAccounts` when programs pin on free bytes or aliases. The invariant is
  `TypeOK /\ PlacementSafe /\ UsedAccounts`. A recording adds to the bytes taken either as many as the size says, all of them
  free before, or none (`InsertCounts`), and to `used` the same number (`Accounts`); placement is needed to know which.
* `RefusalsCorrect`: `Spec => RefusedOnlyWhenFull`, an action property, for the same programs. Either the walk over the list
  stopped at no gap, and every free range lies in a gap it looked at (`WalkMissesNothing`); or the counter said full, and a
  free range would make more bytes than the segment has (`CounterMissesNothing`, which needs `UsedAccounts`).

### If statements (`ZirBranchesProofs`, `Rp2a03TextProofs`, `BranchLoweringProofs`)

* `ZirTypeCorrect`, `WaitingBranches` (`ZirSpec => []OnlyOpenIfsWait`) and `ZirFollowsSource` (`ZirSpec => []StructuredExecution`). The
  first says only that the state is well typed. The other two follow from the same invariant. The inductive invariant `ZirIInv` describes the
  generator in the middle of its work: what the calls in progress look like and which branches still wait for an offset
  (`OpenOK`, `PatchedOK`), and that for every outcome of the tests the flat code written so far reaches exactly the instructions
  whose enclosing branches are taken (`FlowOK`). The number of branches that enclose a waiting instruction gives the depth of the
  call that will patch it, so no two calls wait for the same one (`OwnsItsBranch`). `ExecutedIsClosed` connects it with the recursive function `Executed`: code
  that only goes forward runs the only set of instructions that is closed under its flow.
* `TextInvariance`: `TextIInv` says where each instruction starts (`LaidOut`), which bytes are operands (`Slots`), what they hold
  (`BeqOperands`, `JmpsPlaced`), and that the pending list is in step with the branches that wait (`PendingMatches`).
  Operands never overlap (`LaidOutApart`), so patching one leaves the others alone. From it `TextTypeCorrect`, `BeqOperandsRight`,
  `PendingListExact` (the list holds each waiting branch once, in order, with its distance) and `FinalJmpsRight`.
* `MachineCodeFollowsSource`: `Spec => []MachineFollowsSource`. The two invariants hold together because what `ZirIInv` hands on
  is readable for the emitter (`HandedOnReadable`, `LoweringInvariance`). Where the operands can express the distances, the
  processor's next address after an instruction is the start of the next instruction of the flat code (`MachineFlow`), and the set that
  runs is again the closed one.

### The lexer (`LexerProofs`)

* `LexInvariance`: `LexIInv` says what the cursor knows: line and column are those of its position (`At`), the mode and the level
  of the loop are those that a reader of the text from its start has there (`ModeOK`, through `Turn`, the one-step form of the recursive
  `Reading`), the function in progress has skipped trivia only (`CallOK`), and the peeked token is the one that a reader finds
  next (`PeekedOK`, `TokenOf`).
* From it `LexTypeCorrect`, `LocationsAreExact`, `TriviaOnlySkipped` and, as an action property, `PeekShowsTheNextToken`.

### The parser (`ParserProofs`)

* `NothingDropped`: `Spec => []NullMeansError`. The property is inductive: a step keeps the errors, and its result is an old one, or
  neither NULL nor a hole, or comes with an error (`Sound`). One lemma per operation of the parse functions.
* `ParserTypeCorrect`: `Spec => []ParserTypeOK`. The bound on the stack is not inductive, since a call may open another before it
  has read anything. `DepthInv` gives each point of each function a height from 1 to 3: the stack plus twice the tokens to come
  is bounded by the height of the top, and a call waits at most one level below the call it made. Reading
  a token pays for two levels, so only the steps that read nothing have to be compared (`Calls`, `Keeps`).
* `ParserAccepts`, `ParserViable`, `ParserErrors`: `AcceptsTheLanguage`, `ViablePrefix` and `ErrorsAreReal`, for programs of any
  length and nesting. They have the hypothesis `~Documented`, which the run `parser` satisfies: the grammar is the one with the
  `Departures`. Of the grammar in `docs/grammar.txt` they are false, because the parser departs from it there: it takes, for instance,
  an `if` without `else`.
  None of the three is inductive: they speak of `forms`, the history variable that the parser never reads. The
  inductive invariant is `LanguageInv` (theorem `LanguageInvariance`):
  * before the first error, the calls in progress and the derivatives agree (`Agrees`). `Left` says, for every point of every parse
    function, which forms that call has still to find when the forms `R` come after it; `Awaits` chains this
    through the stack, from the call on top down to `zenit_parse_source`, after which nothing comes. The two sets of forms need
    not be equal, only let the same follow the next token (`After`): a function that has looked at its token has
    already left out the productions that do not begin with it;
  * what comes after a call is restricted where one token of lookahead needs it (`Fits`): no `{` after an expression of which a struct
    literal might be the rest, no `else` after a statement;
  * after the first error nothing can be a program any more, and reading on does not change that (`DeadEnd`);
  * the loop of `zenit_parse_source` ends at the end of the source only (`EndInv`, which says who waits for `synchronize`).

  The proof goes in three layers. First, what `Expanded` and `Derive` do to sets of forms: a symbol in front (`Dot`), unions,
  and for each rule which token may come first and what is then to follow (the `Row` lemmas, one per rule, which are the
  first sets of the grammar). Second, the kinds of steps: going on, returning, making a call, becoming another one
  (`GoesFaithful`, `LeavesFaithful`, `AsksFaithful`, `TurnsFaithful`), and reporting an error. Third, one lemma per parse function
  (`ParseIfFaithful` and its like) in which each branch is one of these.

### How induction is done

The induction theorems of the library take an operator as a parameter and cannot be used. `LeastNumber` states induction with sets:
a set of numbers that is not empty has a least element, which is what `WFMin` says of `<`, and from it upward and
downward induction over an interval. With these, a recursive *function* is first shown to exist (by upward induction, a function on
each initial interval satisfies the equation), and then to satisfy its equation. So `Executed`, `MachineRuns`
and `Reading` are within reach. Induction over trees of types and operands, which the code walks with recursive operators, is not.

### Assumptions

`LimitsAssumption` (ZP below DATA, DATA inside the address space), `NamesAssumption` (names,
temporals and the markers for no symbol are different), `TypesAssumption`, `AttributesAssumption` (a uint8
address is at most 0xFF), `BoundsAssumption` (the bounds on offsets and code are numbers), `SizesAssumption` and `CpuAssumption` (sizes
of instructions, ranges of operands and base addresses are numbers), `ProgramsAssumption` of `Rp2a03Text` (offsets lead forward,
which `ZirBranches` shows of the generator), `LexerAssumption` (a text is a sequence of the classes of characters),
`ParserAssumption` (beginnings are sequences of tokens of bounded length) and `GrammarAssumption`. TLC evaluates each of them in a run. `CollidingPins = FALSE` is a hypothesis of the three
theorems that need it (and of the refinement), not an assumption; so is `~Documented` of the theorems about the language.

### Only model-checked

* `StartupImage`, the types and the front end: their definitions are recursive operators over types, operands or
  trees, which the prover does not expand.
* `LexerTerminates` and `ParserTerminates`: they need fairness, which is out of the prover's reach.

## 6. Not modelled

* The tables of instructions and mnemonics and the disassembly (`rp2a03/instruction.c`, `mnemonic.c`): constants without state.
* Wording of messages, dumps of trees, cached strings and hashes of types: output only. Which errors are reported, and where,
  is modelled.
* The removal of symbols from tables, which no pass calls; the release of memory.
* The wrap of the pc of a text segment at 64 KiB (`program.c:56` drops an instruction there).
* The ROM without a hole (`rom.c:70` compares with an index that the loop never reaches) is built with reset vector 0, as in the
  code, and no property speaks of it.
* The second text segment (`code`) stays empty in every program that `main.c` compiles: `startup_context` is true
  during the whole NES IR pass.
* fllib, a submodule: modelled from how `src/` uses it.

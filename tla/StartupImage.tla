---------------------------- MODULE StartupImage ----------------------------
(***************************************************************************)
(* Where the initial values of a program come from.  The allocation        *)
(* emitters split each initialisation in two: bytes of the DATA image,     *)
(* written while compiling, and code of a routine that runs before         *)
(* anything else.  Then rp2a03_generate_program looks for room for the     *)
(* routine and rp2a03_rom_new builds the ROM from image and routine.       *)
(*                                                                         *)
(* `startup` is the flag is_startup of the emitters: TRUE for the startup  *)
(* segment, the only one main.c fills, FALSE for the code segment.         *)
(***************************************************************************)
EXTENDS Integers, Sequences, FiniteSets, SequencesExt

CONSTANTS
  Byte,         \* values of a byte (0x100)
  RamBase,      \* where RAM begins; ZP is below it
  DataBase,     \* where DATA begins (0x8000); RAM is below it
  BankSize,     \* bytes of DATA, which is the whole PRG-ROM (0x8000)
  VectorsSize,  \* bytes of interrupt vectors at its end (6)
  Types,        \* types of declared symbols
  Literals,     \* values of uint literals
  Gaps,         \* bytes a pin may leave free in DATA
  MaxSymbols,   \* bound on variables and casts
  Hazards       \* what programs do beyond what the emitters support, see Risky

ASSUME ImageAssumption ==
  /\ Byte \in Nat \ {0} /\ RamBase < DataBase
  /\ VectorsSize \in 4..(BankSize - 1)
  /\ DataBase + BankSize <= Byte * Byte
  /\ Literals \subseteq 0..(Byte * Byte - 1)
  /\ Gaps \subseteq Nat

\* A scalar type is [kind, size], an aggregate [kind, names, members]; the members
\* of an array are all of one type, and their names are their positions.
Scalar(T) == T.kind \in {"uint", "bool", "reference"}

RECURSIVE Size(_)
Size(T) ==
  IF Scalar(T) THEN T.size
  ELSE FoldLeft(LAMBDA n, M : n + Size(M), 0, T.members)

VARIABLES
  startup,      \* which segment is emitted
  symbols,      \* operands for the declared symbols: places and temporals
  program,      \* the Rp2a03Program: image, slots, code, and whether it goes on
  expected,     \* history: address -> the byte that the source puts there
  bases,        \* base addresses of the two text segments, Null while unknown
  rom           \* the PRG-ROM, its reset vector, and where the JMP that ends the routine goes
vars == <<startup, symbols, program, expected, bases, rom>>

Null == -1
CodeByte == -2      \* a byte of the routine, in the ROM
Unknown == -3       \* a byte nothing has written

DataAddresses == DataBase..(DataBase + BankSize - 1)
Addresses == 0..(DataBase + BankSize - 1)

Low(v) == v % Byte
High(v) == (v \div Byte) % Byte

\* Operands: a literal, &variable, an array or struct literal, whose elements are
\* named, a variable (with its place) and the temporal of a cast (with the operand
\* that was cast).
Literal(v) == [op |-> "literal", value |-> v]
Reference(p) == [op |-> "reference", of |-> p]
Aggregate(T, names, elements) ==
  [op |-> "aggregate", kind |-> T.kind, names |-> names, elements |-> elements]
Place(T, s, a) == [op |-> "variable", type |-> T, segment |-> s, address |-> a]
Temporal(T, src) == [op |-> "temporal", type |-> T, source |-> src]

Bytes(p) == p.address..(p.address + Size(p.type) - 1)
-----------------------------------------------------------------------------
(* Layout and emission.                                                    *)

\* Mutant: every member is placed as if the ones before it had its size, as in
\* an array.
Member_EqualSizes(p, i) ==
  Place(p.type.members[i], p.segment, p.address + (i - 1) * Size(p.type.members[i]))

\* The i-th element or member follows the ones before it without a gap.
Member(p, i) ==
  LET before == SubSeq(p.type.members, 1, i - 1) IN
  Place(p.type.members[i], p.segment,
        p.address + FoldLeft(LAMBDA n, M : n + Size(M), 0, before))

Load(v) == [op |-> "load", arg |-> v, size |-> 2]
LoadFrom(p, i) == [op |-> "load_from", arg |-> p.address + i, size |-> IF p.segment = "zp" THEN 2 ELSE 3]
Store(p, i) == [op |-> "store", arg |-> p.address + i, size |-> IF p.segment = "zp" THEN 2 ELSE 3]

Pc(code) == FoldLeft(LAMBDA n, c : n + c.size, 0, code)

Written(image, a, bytes) ==
  [x \in DOMAIN image |-> IF x - a + 1 \in DOMAIN bytes THEN bytes[x - a + 1] ELSE image[x]]

Emitted(prg, code) == [prg EXCEPT !.code = @ \o code]

\* Known bytes go to the image or become immediate operands.
Deposit(prg, p, bytes) ==
  IF startup /\ p.segment = "data"
  THEN [prg EXCEPT !.image = Written(@, p.address, bytes)]
  ELSE Emitted(prg, FlattenSeq([i \in DOMAIN bytes |-> <<Load(bytes[i]), Store(p, i - 1)>>]))

\* A literal fills its destination, a reference always writes two bytes.
LiteralBytes(v, n) == [i \in 1..n |-> IF i = 1 THEN Low(v) ELSE IF i = 2 THEN High(v) ELSE 0]
ReferenceBytes(p) == <<Low(p.address), High(p.address)>>

Common(p, q) == IF Size(p.type) < Size(q.type) THEN Size(p.type) ELSE Size(q.type)

\* Stores the bytes that were loaded in dst, then fills it with zeroes.
Moves(dst, loads) ==
  LET n == Len(loads)
      rest == Size(dst.type) - n IN
  FlattenSeq([i \in 1..n |-> <<loads[i], Store(dst, i - 1)>>])
    \o (IF rest = 0 THEN <<>> ELSE <<Load(0)>>)
    \o [i \in 1..rest |-> Store(dst, n + i - 1)]

CopyByCode(prg, dst, src) ==
  Emitted(prg, Moves(dst, [i \in 1..Common(dst, src) |-> LoadFrom(src, i - 1)]))

\* In the startup segment, a copy between two symbols in DATA is done while
\* compiling, and one from DATA to ZP has the bytes of the image as operands.
CopyFromData(prg, dst, src) ==
  LET known == [i \in 1..Common(dst, src) |-> prg.image[src.address + i - 1]]
      copied == [i \in 1..Size(dst.type) |-> IF i \in DOMAIN known THEN known[i] ELSE 0] IN
  CASE startup /\ dst.segment = "data" -> [prg EXCEPT !.image = Written(@, dst.address, copied)]
    [] startup /\ dst.segment = "zp"   ->
           Emitted(prg, Moves(dst, [i \in DOMAIN known |-> Load(known[i])]))
    [] OTHER                           -> CopyByCode(prg, dst, src)

Stopped(prg) == [prg EXCEPT !.ok = FALSE]

\* The nine emitters of emit-alloc-var.h: element by element, up to the first
\* pair of different kinds.
RECURSIVE Copy(_, _, _)
Copy(prg, dst, src) ==
  IF src.type.kind # dst.type.kind THEN Stopped(prg)
  ELSE IF Scalar(dst.type)
  THEN IF src.segment = "data" THEN CopyFromData(prg, dst, src) ELSE CopyByCode(prg, dst, src)
  ELSE FoldLeft(LAMBDA q, i : IF q.ok THEN Copy(q, Member(dst, i), Member(src, i)) ELSE q,
                prg, [i \in DOMAIN dst.type.members |-> i])

Reserve(prg, p) ==
  IF p.segment = "data" THEN [prg EXCEPT !.slots = @ \cup Bytes(p)] ELSE prg

RECURSIVE EmitAlloc(_, _, _)

\* Element by element up to the length of the destination, member by member up to
\* the length of the literal, in the order of the literal.  A failing element or
\* member does not fail the literal.
EmitItems(prg, dst, src, items) ==
  IF src.kind # dst.type.kind THEN Stopped(prg)
  ELSE FoldLeft(LAMBDA q, i : [EmitAlloc(q, Member(dst, i), src.elements[i]) EXCEPT !.ok = TRUE],
                prg, [i \in items |-> i])
EmitArray(prg, dst, src) == EmitItems(prg, dst, src, DOMAIN dst.type.members)
EmitStruct(prg, dst, src) == EmitItems(prg, dst, src, DOMAIN src.elements)

\* A temporal stands for the operand that was cast.
EmitAlloc(prg, dst, src) ==
  LET new == Reserve(prg, dst) IN
  CASE src.op = "literal" -> Deposit(new, dst, LiteralBytes(src.value, Size(dst.type)))
    [] src.op = "reference" -> Deposit(new, dst, ReferenceBytes(src.of))
    [] src.op = "variable" -> Copy(new, dst, src)
    [] src.op = "temporal" -> EmitAlloc(new, dst, src.source)
    [] src.op = "aggregate" ->
         IF src.kind = "array" THEN EmitArray(new, dst, src) ELSE EmitStruct(new, dst, src)
-----------------------------------------------------------------------------
(* What the source says: the bytes of a value of type T.                   *)

\* Where the member `name` is among these.
At(names, name) == CHOOSE i \in DOMAIN names : names[i] = name

RECURSIVE Converted(_, _, _)
\* The bytes of a value of type From, converted to type To: scalars are cut or
\* filled with zeros, the others are converted member by member, by name.
Converted(bytes, From, To) ==
  IF Scalar(To) THEN [i \in 1..Size(To) |-> IF i <= Size(From) THEN bytes[i] ELSE 0]
  ELSE LET start(i) == FoldLeft(LAMBDA n, M : n + Size(M), 0, SubSeq(From.members, 1, i - 1)) IN
       FlattenSeq([i \in DOMAIN To.members |->
         LET j == At(From.names, To.names[i]) IN
         Converted(SubSeq(bytes, start(j) + 1, start(j) + Size(From.members[j])),
                   From.members[j], To.members[i])])

RECURSIVE Value(_, _)
Value(src, T) ==
  CASE src.op = "literal" -> LiteralBytes(src.value, Size(T))
    [] src.op = "reference" -> SubSeq(ReferenceBytes(src.of), 1, Size(T))
    [] src.op = "variable" ->
         Converted([i \in 1..Size(src.type) |-> expected[src.address + i - 1]], src.type, T)
    [] src.op = "temporal" -> Converted(Value(src.source, src.type), src.type, T)
    [] src.op = "aggregate" ->
         FlattenSeq([i \in DOMAIN T.members |-> Value(src.elements[At(src.names, T.names[i])], T.members[i])])
-----------------------------------------------------------------------------
(* The programs that the checker lets through.                             *)

Uint(T) == T.kind = "uint"

\* How `use` lets a value of type From become one of type To.
RECURSIVE Accepts(_, _, _)
Accepts(use, To, From) ==
  IF Scalar(To)
  THEN \/ To.kind = From.kind /\ (use = "cast" \/ From.size <= To.size)
       \/ use = "cast" /\ Uint(To) /\ From.kind = "reference" /\ "reference" \in Hazards
  ELSE /\ To.kind = From.kind /\ ToSet(To.names) = ToSet(From.names)
       /\ To.names = From.names \/ "order" \in Hazards
       /\ \A i \in DOMAIN To.members :
            Accepts(use, To.members[i], From.members[At(From.names, To.names[i])])

\* The orders in which a literal of type T may list its elements.
Orders(T) ==
  IF T.kind = "struct" /\ "order" \in Hazards THEN SetToSeqs(ToSet(T.names)) ELSE {T.names}

Variables == {s \in ToSet(symbols) : s.op = "variable"}

RECURSIVE Sources(_, _)
Sources(use, T) ==
       {Literal(v) : v \in {w \in Literals : \/ Uint(T) /\ (use = "cast" \/ w < Byte ^ T.size)
                                             \/ T.kind = "bool" /\ w \in {0, 1}}}
  \cup {Reference(p) : p \in {q \in Variables : \/ T.kind = "reference"
                                                \/ use = "cast" /\ Uint(T) /\ T.size = 2}}
  \cup {s \in ToSet(symbols) : /\ Accepts(use, T, s.type)
                               /\ s.op = "temporal" => s.type = T \/ "narrow" \in Hazards}
  \cup IF Scalar(T) THEN {}
       ELSE LET all == UNION {Sources(use, M) : M \in ToSet(T.members)} IN
            UNION {{Aggregate(T, names, e) : e \in {f \in [DOMAIN names -> all] :
               \A i \in DOMAIN f : f[i] \in Sources(use, T.members[At(T.names, names[i])])}} :
                   names \in Orders(T)}

RECURSIVE Reads(_)
Reads(src) ==
  CASE src.op = "variable" -> Bytes(src)
    [] src.op = "temporal" -> Reads(src.source)
    [] src.op = "aggregate" -> UNION {Reads(src.elements[i]) : i \in DOMAIN src.elements}
    [] src.op \in {"literal", "reference"} -> {}

\* What the image cannot tell: bytes of DATA that the routine will set.
SetByRoutine == {c.arg : c \in {d \in ToSet(program.code) : d.op = "store"}} \cap DataAddresses

\* The bytes of the reset vector, which comes after the one of the NMI.
ResetVector == DataBase + BankSize - VectorsSize + 2
ResetBytes == {ResetVector, ResetVector + 1}

\* The initialisations that the emitters get wrong; a run offers them only if
\* Hazards names them: a byte of the image that the routine will set, and a byte
\* of the reset vector that the routine reads when rp2a03_rom_new has replaced it.
\* The others are "narrow", a cast stored in a wider variable, "reference", a
\* variable of reference type cast to a uint, and "order", members in another order.
Risky(segment, src) ==
  \/ /\ "stale" \notin Hazards
     /\ startup /\ segment \in {"data", "zp"} /\ Reads(src) \cap SetByRoutine # {}
  \/ /\ "vector" \notin Hazards
     /\ startup /\ segment = "text" /\ Reads(src) \cap ResetBytes # {}
-----------------------------------------------------------------------------
NextFree(segment) ==
  LET base == CASE segment = "zp" -> 0 [] segment = "text" -> RamBase [] segment = "data" -> DataBase
      ends == {p.address + Size(p.type) : p \in {q \in Variables : q.segment = segment}} IN
  CHOOSE e \in ends \cup {base} : \A f \in ends : e >= f

Emitting == bases.startup = Null /\ rom.reset = Null /\ Len(symbols) < MaxSymbols

\* A declared variable.  Its place is any one that ZnesProgram finds: apart
\* from the others.  Once an instruction has failed nothing more is emitted.
VisitVariable ==
  /\ Emitting
  /\ \E T \in Types, segment \in {"zp", "text", "data"} :
     \E gap \in (IF segment = "data" THEN Gaps ELSE {0}), src \in Sources("assign", T) :
       LET dst == Place(T, segment, NextFree(segment) + gap) IN
       /\ ~Risky(segment, src)
       /\ Bytes(dst) \subseteq (CASE segment = "zp" -> 0..(RamBase - 1)
                                  [] segment = "text" -> RamBase..(DataBase - 1)
                                  [] segment = "data" -> DataAddresses)
       /\ symbols' = Append(symbols, dst)
       /\ program' = IF program.ok THEN EmitAlloc(program, dst, src) ELSE program
       /\ expected' = Written(expected, dst.address, Value(src, T))
  /\ UNCHANGED <<startup, bases, rom>>

\* A cast emits nothing: its temporal remembers the operand.
VisitCast ==
  /\ Emitting
  /\ \E T \in Types : \E src \in Sources("cast", T) : symbols' = Append(symbols, Temporal(T, src))
  /\ UNCHANGED <<startup, program, expected, bases, rom>>
-----------------------------------------------------------------------------
(* rp2a03_generate_program and rp2a03_rom_new.                             *)

Least(S) == CHOOSE n \in S : \A k \in S : n <= k

\* The search starts again after each occupied slot.
RunStarts(slots) == {DataBase} \cup {s + 1 : s \in slots}

\* It stops at a free slot that has `needed` free ones before it, or at the end of the bank.
Hole(slots, needed) ==
  LET end == DataBase + BankSize
      fits == {j \in RunStarts(slots) : /\ j + needed <= end
                                        /\ \A k \in j..(j + needed) : k \notin slots} IN
  IF fits = {} THEN Null ELSE Least(fits)

StartupCode == IF startup THEN program.code ELSE <<>>
UserCode == IF startup THEN <<>> ELSE program.code
JmpSize == 3
NeededSpace == Pc(StartupCode) + JmpSize

\* The startup routine needs room for the JMP at its end as well.  Without room
\* there is no program.
PlaceSegments ==
  /\ bases.startup = Null
  /\ LET found == [startup |-> Hole(program.slots, NeededSpace),
                   code |-> Hole(program.slots, Pc(UserCode))] IN
     /\ Null \notin {found.startup, found.code}
     /\ bases' = found
  /\ UNCHANGED <<startup, symbols, program, expected, rom>>

\* Mutant: the last byte of the routine is not looked at.
RomHole_Short(bank, length) ==
  LET end == DataBase + BankSize - VectorsSize
      fits == {i \in DOMAIN bank : /\ i + length < end
                                   /\ \A k \in i..(i + 1) : bank[k] = 0} IN
  IF fits = {} THEN Null ELSE Least(fits)

\* The ROM has no slots: a byte is free if it is zero.
RomHole(bank, length) ==
  LET end == DataBase + BankSize - VectorsSize
      fits == {i \in DOMAIN bank : /\ i + length < end
                                   /\ \A k \in i..(i + length) : bank[k] = 0} IN
  IF fits = {} THEN Null ELSE Least(fits)

NoZeroes == \A s \in program.slots : program.image[s] # 0

Word(bank, a) == bank[a] + Byte * bank[a + 1]

\* Mutant: the JMP is emitted when the vector has been replaced.
WithRoutine_LateJmp(image, hole) ==
  LET bank == Written(image, hole, [i \in 1..NeededSpace |-> CodeByte]) IN
  [bank |-> Written(bank, ResetVector, <<Low(hole), High(hole)>>), reset |-> hole, exit |-> hole]

\* The routine ends with a JMP to the handler of the program, which it replaces.
WithRoutine(image, hole) ==
  LET copied == Written(image, hole, [i \in 1..NeededSpace |-> CodeByte])
      bank == Written(copied, ResetVector, <<Low(hole), High(hole)>>) IN
  [bank |-> bank, reset |-> Word(bank, ResetVector), exit |-> Word(image, ResetVector)]

\* The bank is the whole image, with the vectors.  Without a hole the routine is
\* left out and the vector stays what it was.
BuildRom ==
  /\ bases.startup # Null /\ rom.reset = Null
  /\ NoZeroes \/ "zero" \in Hazards
  /\ LET image == program.image
         hole == IF StartupCode = <<>> THEN Null ELSE RomHole(image, NeededSpace) IN
     rom' = IF hole # Null THEN WithRoutine(image, hole)
            ELSE [bank |-> image, reset |-> Word(image, ResetVector), exit |-> Null]
  /\ UNCHANGED <<startup, symbols, program, expected, bases>>

Init ==
  /\ startup \in BOOLEAN
  /\ symbols = <<>>
  /\ program = [image |-> [a \in DataAddresses |-> 0], slots |-> {}, code |-> <<>>, ok |-> TRUE]
  /\ expected = [a \in Addresses |-> Unknown]
  /\ bases = [startup |-> Null, code |-> Null]
  /\ rom = [bank |-> [a \in {} |-> 0], reset |-> Null, exit |-> Null]

Next == VisitVariable \/ VisitCast \/ PlaceSegments \/ BuildRom

Spec == Init /\ [][Next]_vars
-----------------------------------------------------------------------------
(* Properties.                                                             *)

\* Memory after the code has run, starting with this bank in DATA.
After(code, bank) ==
  FoldLeft(LAMBDA m, c :
             CASE c.op = "load" -> [m EXCEPT !.register = c.arg]
               [] c.op = "load_from" -> [m EXCEPT !.register = m.memory[c.arg]]
               [] c.op = "store" -> [m EXCEPT !.memory[c.arg] = m.register],
           [register |-> Unknown,
            memory |-> [a \in Addresses |-> IF a \in DOMAIN bank THEN bank[a] ELSE Unknown]],
           code).memory

\* Every byte of a variable is what the source says, except perhaps these.
Holds(memory, except) ==
  \A p \in Variables : \A a \in Bytes(p) \ except : memory[a] = expected[a]

\* generate.c:49-51: the image together with the emitted code gives every
\* variable the value that the source gives it, whatever the segments of
\* variables and sources, their sizes, casts and nesting, in the programs that
\* the Hazards of a run let through.
Initialised == Holds(After(program.code, program.image), {})

Room == bases.startup + NeededSpace < DataBase + BankSize - VectorsSize

\* README.md:46: the ROM's "startup routine [...] to initialize global variables".
RomInitialises ==
  rom.reset # Null /\ startup /\ Room =>
    Holds(After(program.code, rom.bank), IF rom.exit = Null THEN {} ELSE ResetBytes)

\* The handler that the source puts in the reset vector, 0 if it puts none there.
Handler ==
  Word([a \in ResetBytes |-> IF expected[a] = Unknown THEN 0 ELSE expected[a]], ResetVector)

\* rom.c:45: "The startup routine will replace the original RESET vector, so we
\* need to add a JMP at the end".  With the routine or without, the CPU gets to
\* the program's own handler, unless only the routine stores it.
HandsOver ==
  rom.reset # Null /\ ResetBytes \cap SetByRoutine = {} =>
    Handler = IF rom.exit # Null THEN rom.exit ELSE rom.reset

\* The ROM boots: the reset vector is the address for which the JMPs of the
\* routine were patched; the routine, run over the ROM that now contains it,
\* initialises every variable but the vector that it replaced; and then it goes
\* on to the handler that the program had in the vector.
Boots ==
  /\ RomInitialises
  /\ rom.reset # Null /\ startup /\ Room /\ program.code # <<>> => rom.reset = bases.startup
  /\ HandsOver
=============================================================================

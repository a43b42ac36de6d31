---------------------------- MODULE ZnesProgram ----------------------------
(***************************************************************************)
(* The first NES pass: znes_generate_program visits the instructions of a  *)
(* ZIR program one after another and gives every destination symbol a      *)
(* place in the zero page (ZP), in the DATA segment, in RAM through the    *)
(* TEXT segment, or no place at all (TEMP, the '%' symbols that casts      *)
(* introduce).  Each placed symbol is recorded three times: in the ordered *)
(* list of its segment, in the table of names that later operands are      *)
(* resolved with, and as an instruction of the NES IR.                     *)
(*                                                                         *)
(* The ZIR program is the environment: any sequence of instructions whose  *)
(* symbols are declared once and used after their declaration.  Visiting   *)
(* goes on after an error; only the verdict at the end reports it.         *)
(***************************************************************************)
EXTENDS Integers, Sequences, FiniteSets, SequencesExt

CONSTANTS
  Names,          \* names of variables (zir_variable_instr destinations)
  Temps,          \* names of temporals, the ones that start with '%'
  NoName,         \* absence of a destination or of a symbol source
  Types,          \* ZIR types: records of an allocation kind and a size
  Attributes,     \* what an "NES" attribute map may ask for
  ZpMax,          \* ZERO_PAGE_SIZE, also UINT8_MAX (0xFF)
  DataBase,       \* base address of DATA (0x8000)
  AddrMax,        \* UINT16_MAX (0xFFFF)
  SourceSymbols,  \* symbols that the program reads in its instructions
  CollidingPins,  \* may a program pin a symbol over part of a placed one?
  MaxInstrs       \* bound: instructions of the ZIR program

ASSUME LimitsAssumption ==
  /\ ZpMax \in Nat /\ DataBase \in Nat /\ AddrMax \in Nat /\ MaxInstrs \in Nat
  /\ ZpMax < DataBase /\ DataBase <= AddrMax

Literal == "literal"        \* an operand that is not a symbol
Null == "null"              \* a variable operand whose allocation was not found

ASSUME NamesAssumption ==
  /\ {NoName, Literal, Null} \cap (Names \cup Temps) = {}
  /\ Names \cap Temps = {}

AllocKinds == {"uint", "bool", "reference", "array", "struct", "temp"}

ASSUME TypesAssumption ==
  Types \subseteq [kind : AllocKinds \ {"temp"}, size : Nat]

\* "none": the property is absent; "bad": it is present with a value the code
\* rejects (a segment that is not zp or data, an address that is no number).
AttributeMaps ==
  [segment : {"none", "zp", "data", "bad"},
   address : [kind : {"none", "uint8", "uint16", "bad"}, value : 0..AddrMax]]

ASSUME AttributesAssumption ==
  /\ Attributes \subseteq AttributeMaps
  /\ \A a \in Attributes : a.address.kind = "uint8" => a.address.value <= ZpMax

Paged == {"zp", "data"}     \* the segments that keep an ordered list
NoType == [kind |-> "none", size |-> 0]     \* branches have no type
NoAttributes == [segment |-> "none", address |-> [kind |-> "none", value |-> 0]]

VARIABLES
  zir,          \* the ZIR instructions visited so far
  seg,          \* segment -> its ordered allocations and its `used` counter
  text,         \* the startup TEXT segment: its instructions and allocations
  allocations,  \* name -> allocation, the program's hash table
  errors,       \* errors reported to the context
  result        \* "running", or what znes_generate_program returned

vars == <<zir, seg, text, allocations, errors, result>>
-----------------------------------------------------------------------------
(* Types of the state.                                                     *)

Symbols == Names \cup Temps

Alloc == [name : Symbols, type : AllocKinds,
          segment : Paged \cup {"text", "temp"}, size : Nat, address : Nat]

ZirInstr ==
  [op : {"variable", "cast", "if_false", "jump"},
   dest : Symbols \cup {NoName}, source : Symbols \cup {NoName},
   type : Types \cup {NoType}, attrs : AttributeMaps]

ZnesInstr ==
  [op : {"alloc", "if_false", "jump"},
   dest : Symbols \cup {NoName}, source : Symbols \cup {Literal, Null}]

TypeOK ==
  /\ zir \in Seq(ZirInstr)
  /\ seg \in [Paged -> [allocs : Seq(Alloc), used : Nat]]
  /\ text \in [instructions : Seq(ZnesInstr), allocs : Seq(Alloc), used : Nat]
  /\ DOMAIN allocations \subseteq Symbols
  /\ \A n \in DOMAIN allocations : allocations[n] \in Alloc
  /\ errors \in Nat
  /\ result \in {"running", "ok", "failed"}
-----------------------------------------------------------------------------
(* Addresses.                                                              *)

Base(k) == IF k = "zp" THEN 0 ELSE DataBase

\* The limit each segment passes to its overflow checks.
Top(k) == IF k = "zp" THEN ZpMax ELSE AddrMax

End(a) == a.address + a.size

\* Mutant: a sum that just fits is taken for an overflow.
AddOverflows_Inclusive(a, b, max) == a + b >= max

AddOverflows(a, b, max) == a + b > max      \* fl_std_uint_add_overflow

SameSpot(a, b) == a.address = b.address /\ a.type = b.type /\ a.size = b.size

Apart(a, b) == End(a) <= b.address \/ End(b) <= a.address
-----------------------------------------------------------------------------
(* What a declaration asks for (znes_alloc_request_init).                  *)

RequestRejected(attrs) ==
  \/ attrs.segment = "bad"
  \/ attrs.segment = "none" /\ attrs.address.kind = "bad"

UsesAddress(attrs) ==
  attrs.segment = "none" /\ attrs.address.kind \in {"uint8", "uint16"}

\* Mutant: the first address of DATA is taken for RAM.
TargetSegment_AboveBase(attrs) ==
  IF attrs.segment # "none" THEN attrs.segment
  ELSE IF attrs.address.kind = "uint8" THEN "zp"
  ELSE IF attrs.address.kind = "uint16" /\ attrs.address.value <= DataBase THEN "text"
  ELSE "data"

TargetSegment(attrs) ==
  IF attrs.segment # "none" THEN attrs.segment
  ELSE IF attrs.address.kind = "uint8" THEN "zp"
  ELSE IF attrs.address.kind = "uint16" /\ attrs.address.value < DataBase THEN "text"
  ELSE "data"

\* The request: what the program asks for, with a candidate address.
Request(decl) ==
  [name |-> decl.dest, type |-> decl.type.kind,
   segment |-> TargetSegment(decl.attrs), size |-> decl.type.size,
   address |-> IF UsesAddress(decl.attrs) THEN decl.attrs.address.value ELSE 0]
-----------------------------------------------------------------------------
(* Where a paged segment puts a request: the position in its list and the  *)
(* address.  The set is empty when the code returns NULL, and never has    *)
(* two elements: a node is looked at only if no earlier node stopped the   *)
(* loop.                                                                   *)

Place(at, address, aliased) == [at |-> at, address |-> address, aliased |-> aliased]

\* The gap that is tried at node i begins where node i - 1 ends.
Probe(k, list, i) == IF i = 1 THEN Base(k) ELSE End(list[i - 1])

\* Mutant: one byte too few is enough.
FitsInGap_OffByOne(k, list, need, i) == Probe(k, list, i) + need <= list[i].address + 1

FitsInGap(k, list, need, i) == Probe(k, list, i) + need <= list[i].address

AutoStopsAt(k, list, need, i) ==
  \/ i = Len(list)
  \/ AddOverflows(Probe(k, list, i), need, Top(k))
  \/ FitsInGap(k, list, need, i)
  \/ AddOverflows(list[i].address, list[i].size, Top(k))

AutoPlaces(k, list, need) ==
  LET visited == {i \in DOMAIN list :
                    /\ \A j \in 1..(i - 1) : ~AutoStopsAt(k, list, need, j)
                    /\ ~AddOverflows(Probe(k, list, i), need, Top(k))}
  IN  IF list = <<>> THEN {Place(1, Base(k), FALSE)}
      ELSE {Place(i, Probe(k, list, i), FALSE) :
              i \in {i \in visited : i # Len(list) /\ FitsInGap(k, list, need, i)}}
           \cup
           {Place(i + 1, End(list[i]) % (AddrMax + 1), FALSE) :
              i \in {i \in visited : i = Len(list)}}

\* Mutant: only the first byte of the pinned symbol is compared.
PinFitsBefore_FirstByte(list, req, i) == req.address < list[i].address

PinFitsBefore(list, req, i) == End(req) <= list[i].address
PinFitsAtEnd(list, req, i) == i = Len(list) /\ req.address >= End(list[i])

PinStopsAt(list, req, i) ==
  SameSpot(list[i], req) \/ PinFitsBefore(list, req, i) \/ PinFitsAtEnd(list, req, i)

PinPlaces(list, req) ==
  LET stops == {i \in DOMAIN list :
                  /\ PinStopsAt(list, req, i)
                  /\ \A j \in 1..(i - 1) : ~PinStopsAt(list, req, j)}
  IN  IF list = <<>> THEN {Place(1, req.address, FALSE)}
      ELSE {Place(IF ~SameSpot(list[i], req) /\ PinFitsAtEnd(list, req, i) THEN i + 1 ELSE i,
                  req.address, SameSpot(list[i], req)) : i \in stops}

\* The checks that znes_zp_segment_alloc_variable makes before it looks for a place.
Admits(k, used, req, pinned) ==
  k = "zp" => /\ used + req.size <= ZpMax
              /\ pinned => req.address <= ZpMax /\ End(req) <= ZpMax

Places(k, req, pinned) ==
  IF ~Admits(k, seg[k].used, req, pinned) THEN {}
  ELSE IF pinned THEN PinPlaces(seg[k].allocs, req)
  ELSE AutoPlaces(k, seg[k].allocs, req.size)
-----------------------------------------------------------------------------
(* Recording a placed symbol (the tail of znes_program_alloc_variable).    *)

\* The NES operand for the source of an instruction: a symbol is looked up in
\* the table of names, and a miss gives a variable operand with no variable.
Operand(source) ==
  IF source = NoName THEN Literal
  ELSE IF source \in DOMAIN allocations THEN source ELSE Null

Emit(op, dest, source) ==
  Append(text.instructions, [op |-> op, dest |-> dest, source |-> Operand(source)])

\* fl_hashtable_add leaves an existing entry alone.
Register(alloc) ==
  allocations' = [n \in DOMAIN allocations \cup {alloc.name} |->
                    IF n \in DOMAIN allocations THEN allocations[n] ELSE alloc]

Visit(instr) ==
  /\ result = "running"
  /\ Len(zir) < MaxInstrs
  /\ zir' = Append(zir, instr)
  /\ UNCHANGED result

\* Mutant: a refused symbol is skipped without an error.
Fails_Silently ==
  UNCHANGED <<seg, text, allocations, errors>>

Fails ==
  errors' = errors + 1 /\ UNCHANGED <<seg, text, allocations>>
-----------------------------------------------------------------------------
(* One action per ZIR instruction.                                         *)

Declared == {zir[i].dest : i \in DOMAIN zir} \ {NoName}

\* Without CollidingPins a program pins a symbol only on free bytes or exactly
\* on a symbol of the same type and size.
PinAllowed(k, req) ==
  CollidingPins \/ \A i \in DOMAIN seg[k].allocs :
                     SameSpot(seg[k].allocs[i], req) \/ Apart(seg[k].allocs[i], req)

\* Mutants: an alias gives back the bytes of its symbol; an alias is counted.
UsedAfter_AliasReleases(k, req, place) ==
  IF place.aliased THEN seg[k].used - req.size ELSE seg[k].used + req.size
UsedAfter_AliasCounted(k, req, place) == seg[k].used + req.size

UsedAfter(k, req, place) ==
  IF place.aliased THEN seg[k].used ELSE seg[k].used + req.size

\* Mutant: the table of names keeps the request, not the place it was given.
Put_RegistersRequest(k, req, place, source) ==
  LET alloc == [req EXCEPT !.address = place.address] IN
  /\ seg' = [seg EXCEPT ![k] =
               [allocs |-> InsertAt(seg[k].allocs, place.at, alloc),
                used |-> UsedAfter(k, req, place)]]
  /\ Register(req)
  /\ text' = [text EXCEPT !.instructions = Emit("alloc", req.name, source)]
  /\ UNCHANGED errors

Put(k, req, place, source) ==
  LET alloc == [req EXCEPT !.address = place.address] IN
  /\ seg' = [seg EXCEPT ![k] =
               [allocs |-> InsertAt(seg[k].allocs, place.at, alloc),
                used |-> UsedAfter(k, req, place)]]
  /\ Register(alloc)
  /\ text' = [text EXCEPT !.instructions = Emit("alloc", req.name, source)]
  /\ UNCHANGED errors

\* A variable whose segment is ZP or DATA.
VisitPaged(decl) ==
  LET req == Request(decl)
      k == req.segment
      pinned == UsesAddress(decl.attrs) IN
  /\ ~RequestRejected(decl.attrs)
  /\ k \in Paged
  /\ pinned => PinAllowed(k, req)
  /\ Visit(decl)
  /\ \/ \E place \in Places(k, req, pinned) : Put(k, req, place, decl.source)
     \/ Places(k, req, pinned) = {} /\ Fails

\* A variable pinned below DATA: the address is taken as it is.
VisitText(decl) ==
  LET alloc == Request(decl) IN
  /\ ~RequestRejected(decl.attrs)
  /\ alloc.segment = "text"
  /\ Visit(decl)
  /\ text' = [instructions |-> Emit("alloc", alloc.name, decl.source),
              allocs |-> Append(text.allocs, alloc),
              used |-> text.used + alloc.size]
  /\ Register(alloc)
  /\ UNCHANGED <<seg, errors>>

VisitRejected(decl) ==
  /\ RequestRejected(decl.attrs)
  /\ Visit(decl)
  /\ Fails

Instr(op, dest, source, type, attrs) ==
  [op |-> op, dest |-> dest, source |-> source, type |-> type, attrs |-> attrs]

Sources == (Declared \cap SourceSymbols) \cup {NoName}

VisitVariable ==
  \E n \in Names \ Declared, s \in Sources, t \in Types, a \in Attributes :
    LET decl == Instr("variable", n, s, t, a) IN
    VisitPaged(decl) \/ VisitText(decl) \/ VisitRejected(decl)

\* Mutant: a temporal takes no space, so no instruction is recorded for it.
VisitCast_NoInstruction ==
  \E n \in Temps \ Declared, s \in Sources, t \in Types :
    LET alloc == [name |-> n, type |-> "temp", segment |-> "temp",
                  size |-> t.size, address |-> 0] IN
    /\ Visit(Instr("cast", n, s, t, NoAttributes))
    /\ Register(alloc)
    /\ UNCHANGED <<seg, text, errors>>

\* A cast stores its source in a temporal, which takes no space.
VisitCast ==
  \E n \in Temps \ Declared, s \in Sources, t \in Types :
    LET alloc == [name |-> n, type |-> "temp", segment |-> "temp",
                  size |-> t.size, address |-> 0] IN
    /\ Visit(Instr("cast", n, s, t, NoAttributes))
    /\ Register(alloc)
    /\ text' = [text EXCEPT !.instructions = Emit("alloc", n, s)]
    /\ UNCHANGED <<seg, errors>>

\* The instruction is copied with its offset, which counts instructions.
VisitBranch(op, s) ==
  /\ Visit(Instr(op, NoName, s, NoType, NoAttributes))
  /\ text' = [text EXCEPT !.instructions = Emit(op, NoName, s)]
  /\ UNCHANGED <<seg, allocations, errors>>

VisitIfFalse == \E s \in Sources : VisitBranch("if_false", s)
VisitJump == VisitBranch("jump", NoName)

\* The end of the global block: the caller learns whether there were errors.
Finish ==
  /\ result = "running"
  /\ result' = IF errors = 0 THEN "ok" ELSE "failed"
  /\ UNCHANGED <<zir, seg, text, allocations, errors>>

Init ==
  /\ zir = <<>>
  /\ seg = [k \in Paged |-> [allocs |-> <<>>, used |-> Base(k)]]
  /\ text = [instructions |-> <<>>, allocs |-> <<>>, used |-> 0]
  /\ allocations = [n \in {} |-> NoName]
  /\ errors = 0
  /\ result = "running"

Next == VisitVariable \/ VisitCast \/ VisitIfFalse \/ VisitJump \/ Finish

Spec == Init /\ [][Next]_vars
-----------------------------------------------------------------------------
(* Properties.                                                             *)

\* Every byte of the symbol has an address of its segment.
InSegment(k, a) == Base(k) <= a.address /\ End(a) <= Top(k) + 1

WithinSegment(k) == \A i \in DOMAIN seg[k].allocs : InSegment(k, seg[k].allocs[i])

Separated(list) ==
  \A i, j \in DOMAIN list :
    i < j => End(list[i]) <= list[j].address \/ SameSpot(list[i], list[j])

\* The first-fit search never puts a symbol on bytes that another one owns, and
\* the list it relies on stays in address order: two symbols of a segment
\* share bytes only as exact aliases.  It holds until a symbol is pushed out of
\* the segment (znes_data_segment_alloc_variable and its ZP twin wrap or run
\* past the end then).
PlacementSafe == \A k \in Paged : WithinSegment(k) => Separated(seg[k].allocs)

\* The addresses that the symbols of a list take.
Bytes(list) == UNION {list[i].address .. (End(list[i]) - 1) : i \in DOMAIN list}

\* `used`, which the zero page is declared full by, is the number of bytes of the
\* segment that are taken, whatever mixture of aliases, pins and first fits built
\* the list.  It holds until a symbol is pushed out of the segment: one that
\* wraps around the address space may land on bytes that are counted already.
UsedAccounts ==
  \A k \in Paged :
    WithinSegment(k) => seg[k].used = Base(k) + Cardinality(Bytes(seg[k].allocs))

\* Some range of the segment could hold `size` more bytes.
HasRoom(k, size) ==
  \E address \in Base(k)..(Top(k) - size) :
    \A i \in DOMAIN seg[k].allocs :
      Apart(seg[k].allocs[i], [address |-> address, size |-> size])

\* The declaration that a step refused for lack of space, if it asked for an
\* automatic place in segment k.
AutoRefusals(k) ==
  {decl \in {zir'[i] : i \in DOMAIN zir' \ DOMAIN zir} :
     /\ errors' > errors
     /\ ~RequestRejected(decl.attrs)
     /\ ~UsesAddress(decl.attrs)
     /\ TargetSegment(decl.attrs) = k}

\* No free range of the segment could hold the symbol that is refused.
RefusesWhenFull ==
  \A k \in Paged :
    (\A i \in DOMAIN seg[k].allocs : End(seg[k].allocs[i]) <= Top(k))
      => \A decl \in AutoRefusals(k) : ~HasRoom(k, decl.type.size)

\* An automatic request is refused only when no free range of the segment
\* could hold it: stopping the walk at the first node whose sums overflow, or
\* refusing on `used` alone, loses no space.  (The last byte of each segment
\* does not count: the code's own limits leave it out.)
RefusedOnlyWhenFull == [][RefusesWhenFull]_vars

\* When no error was reported, the NES IR has one instruction for each ZIR
\* instruction, in the same order and with the same destination.  Jump offsets
\* are copied from ZIR unchanged and count NES IR instructions from then on.
OneForOne ==
  errors = 0 =>
    /\ Len(text.instructions) = Len(zir)
    /\ \A i \in DOMAIN zir :
         /\ text.instructions[i].dest = zir[i].dest
         /\ text.instructions[i].op =
              IF zir[i].op \in {"variable", "cast"} THEN "alloc" ELSE zir[i].op

\* An operand whose symbol lost its place is never part of a program that is
\* handed on: the table of names misses only after an error.
NoDanglingSource ==
  result = "ok" =>
    \A i \in DOMAIN text.instructions : text.instructions[i].source # Null

\* The table of names and the segment lists record the same symbols at the same
\* places, so an operand resolved by name reads the bytes that were reserved.
TablesAgree ==
  /\ \A k \in Paged : \A i \in DOMAIN seg[k].allocs :
       LET a == seg[k].allocs[i] IN a.name \in DOMAIN allocations /\ allocations[a.name] = a
  /\ \A n \in DOMAIN allocations :
       LET a == allocations[n] IN
       a.segment \in Paged => \E i \in DOMAIN seg[a.segment].allocs : seg[a.segment].allocs[i] = a

Memory ==
  INSTANCE SegmentMemory WITH
    placed <- allocations,
    Lowest <- [k \in Paged |-> Base(k)],
    Highest <- [k \in Paged |-> Top(k)]

\* The table of names is a memory: a step gives at most one new symbol a place,
\* which meets no other one partially, and no symbol ever moves, although the
\* places were found in the lists and no one looks at the table.
ImplementsMemory == Memory!Spec

\* A symbol pinned by its "address" property alone is at that address, and in the
\* segment that owns it, however many symbols were placed before and since.
PinsHonoured ==
  \A i \in DOMAIN zir :
    zir[i].op = "variable" /\ UsesAddress(zir[i].attrs) /\ zir[i].dest \in DOMAIN allocations
      => LET a == allocations[zir[i].dest]
             pin == zir[i].attrs.address IN
         /\ a.address = pin.value
         /\ (a.segment = "zp") = (pin.kind = "uint8")
         /\ (a.segment = "data") = (pin.value >= DataBase)
=============================================================================

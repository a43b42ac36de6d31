-------------------------- MODULE ZnesMemoryProofs --------------------------
(***************************************************************************)
(* Proofs about the memory of a program as a whole:                        *)
(*   - the places found in the ordered lists of ZP and DATA and those read *)
(*     from the table of names are the same ones (TablesAgree);            *)
(*   - the table is therefore a SegmentMemory: the pass implements its     *)
(*     abstract specification (Refinement);                                *)
(*   - what the attributes of a variable ask for is what it gets           *)
(*     (PinsHonoured);                                                     *)
(*   - `used` counts the bytes of a segment that are taken (UsedAccounts), *)
(*     and an automatic symbol is refused only when no free range could    *)
(*     hold it (RefusedOnlyWhenFull).                                      *)
(***************************************************************************)
EXTENDS ZnesProgramProofs, FiniteSetTheorems, LeastNumber

\* The table only names declared symbols, so the next one is new to it, and a
\* list holds symbols of its own segment.
TablesInv ==
  /\ TypeOK
  /\ TablesAgree
  /\ DOMAIN allocations \subseteq Declared
  /\ \A k \in Paged : \A i \in DOMAIN seg[k].allocs : seg[k].allocs[i].segment = k

\* A new name gets its allocation and the others keep theirs.
LEMMA RegisterNew ==
  ASSUME NEW alloc, Register(alloc), alloc.name \notin DOMAIN allocations
  PROVE  /\ DOMAIN allocations' = DOMAIN allocations \cup {alloc.name}
         /\ \A m \in DOMAIN allocations : allocations'[m] = allocations[m]
         /\ allocations'[alloc.name] = alloc
  BY DEF Register

\* A symbol that is recorded is recorded in the list and in the table alike.
LEMMA RecordsTables ==
  ASSUME TablesInv, NEW alloc \in Alloc, Records(alloc)
  PROVE  /\ TablesAgree'
         /\ DOMAIN allocations' \subseteq Declared'
         /\ \A k \in Paged : \A i \in DOMAIN seg'[k].allocs : seg'[k].allocs[i].segment = k
<1>1. /\ DOMAIN allocations' = DOMAIN allocations \cup {alloc.name}
      /\ \A m \in DOMAIN allocations : allocations'[m] = allocations[m]
      /\ allocations'[alloc.name] = alloc
  BY RegisterNew DEF Records, TablesInv
<1>2. DOMAIN allocations' \subseteq Declared'
  BY <1>1 DEF Records, TablesInv
<1>3. ASSUME NEW k \in Paged, NEW j \in DOMAIN seg'[k].allocs
      PROVE  \/ seg'[k].allocs[j] = alloc /\ alloc.segment = k
             \/ \E i \in DOMAIN seg[k].allocs : seg'[k].allocs[j] = seg[k].allocs[i]
  BY <1>3, InsertsElements DEF Records, TablesInv, Inserts
<1>4. ASSUME NEW k \in Paged, NEW i \in DOMAIN seg[k].allocs
      PROVE  \E j \in DOMAIN seg'[k].allocs : seg'[k].allocs[j] = seg[k].allocs[i]
  BY <1>4, InsertsElements DEF Records, TablesInv, Inserts
<1>5. ASSUME alloc.segment \in Paged
      PROVE  \E j \in DOMAIN seg'[alloc.segment].allocs : seg'[alloc.segment].allocs[j] = alloc
  BY <1>5, InsertsElements DEF Records, TablesInv
<1>6. ASSUME NEW k \in Paged, NEW j \in DOMAIN seg'[k].allocs
      PROVE  LET a == seg'[k].allocs[j] IN
             a.segment = k /\ a.name \in DOMAIN allocations' /\ allocations'[a.name] = a
  <2>1. CASE seg'[k].allocs[j] = alloc /\ alloc.segment = k
    BY <2>1, <1>1
  <2>2. ASSUME NEW i \in DOMAIN seg[k].allocs, seg'[k].allocs[j] = seg[k].allocs[i]
        PROVE  LET a == seg'[k].allocs[j] IN
               a.segment = k /\ a.name \in DOMAIN allocations' /\ allocations'[a.name] = a
    BY <2>2, <1>1 DEF TablesInv, TablesAgree
  <2> QED
    BY <1>3, <1>6, <2>1, <2>2
<1>7. ASSUME NEW n \in DOMAIN allocations', allocations'[n].segment \in Paged
      PROVE  \E j \in DOMAIN seg'[allocations'[n].segment].allocs :
               seg'[allocations'[n].segment].allocs[j] = allocations'[n]
  <2>1. CASE n = alloc.name
    BY <2>1, <1>1, <1>5, <1>7
  <2>2. CASE n \in DOMAIN allocations
    <3>1. allocations'[n] = allocations[n]
      BY <2>2, <1>1
    <3> DEFINE k == allocations[n].segment
    <3>2. k \in Paged
      BY <3>1, <1>7
    <3>3. PICK i \in DOMAIN seg[k].allocs : seg[k].allocs[i] = allocations[n]
      BY <2>2, <3>2 DEF TablesInv, TablesAgree
    <3> QED
      BY <3>1, <3>2, <3>3, <1>4
  <2> QED
    BY <2>1, <2>2, <1>1
<1>8. TablesAgree'
  BY <1>6, <1>7 DEF TablesAgree
<1> QED
  BY <1>2, <1>6, <1>8

\* Both are empty at first.
LEMMA InitTables ==
  ASSUME Init PROVE TablesInv
<1>1. (\A k \in Paged : seg[k].allocs = <<>>) /\ DOMAIN allocations = {}
  BY DEF Init
<1> QED
  BY <1>1, InitType DEF TablesInv, TablesAgree

\* Every step keeps list and table together.
LEMMA StepTables ==
  ASSUME TablesInv, [Next]_vars PROVE TablesInv'
<1>1. TypeOK /\ TypeOK'
  BY StepType DEF TablesInv
<1>2. CASE UNCHANGED <<seg, allocations>> /\ Declared \subseteq Declared'
  BY <1>1, <1>2 DEF TablesInv, TablesAgree
<1>3. ASSUME NEW alloc \in Alloc, Records(alloc) PROVE TablesInv'
  BY <1>1, <1>3, RecordsTables DEF TablesInv
<1> QED
  BY <1>1, <1>2, <1>3, StepRecords

\* An operand is resolved with the table of names and its bytes were reserved
\* in the list of a segment; the two never disagree, whatever the program
\* pins where and whatever was refused on the way.
THEOREM TablesCorrect == Spec => []TablesAgree
<1>1. TablesInv => TablesAgree
  BY DEF TablesInv
<1> QED
  BY <1>1, InitTables, StepTables, PTL DEF Spec
-----------------------------------------------------------------------------
(***************************************************************************)
(* The refinement.                                                         *)
(***************************************************************************)

\* A symbol that fits in the list of its segment is compatible with each symbol
\* that the table has in that segment.
LEMMA RecordsReserve ==
  ASSUME CollidingPins = FALSE, TablesInv, PlacementSafe, NEW alloc \in Alloc, Records(alloc)
  PROVE  Memory!Reserve(alloc.name)
<1> DEFINE k == alloc.segment
           list == seg[k].allocs
           near == {n \in DOMAIN allocations : allocations[n].segment = k}
<1>1. /\ alloc.name \notin DOMAIN allocations
      /\ DOMAIN allocations' = DOMAIN allocations \cup {alloc.name}
      /\ \A m \in DOMAIN allocations : allocations'[m] = allocations[m]
      /\ allocations'[alloc.name] = alloc
  BY RegisterNew DEF Records, TablesInv
<1>2. ASSUME k \in Paged, InSegment(k, alloc),
             \A m \in near : InSegment(k, allocations[m]),
             NEW m \in near
      PROVE  \/ End(allocations[m]) <= alloc.address
             \/ End(alloc) <= allocations[m].address
             \/ SameSpot(allocations[m], alloc)
  <2>1. WithinSegment(k)
    <3>1. ASSUME NEW i \in DOMAIN list PROVE InSegment(k, list[i])
      <4>1. list[i].name \in near /\ allocations[list[i].name] = list[i]
        BY <1>2 DEF TablesInv, TablesAgree
      <4> QED
        BY <4>1, <1>2
    <3> QED
      BY <3>1 DEF WithinSegment
  <2>2. Separated(list)
    BY <2>1, <1>2 DEF PlacementSafe
  <2>3. PICK at \in Nat : Inserts(k, at, alloc) /\ Fits(k, at, alloc)
    BY <1>2 DEF Records
  <2>4. FitsAt(list, at, alloc) /\ at \in 1..(Len(list) + 1)
    BY <2>1, <2>2, <2>3, <1>2 DEF Fits, Inserts
  <2>5. PICK i \in DOMAIN list : list[i] = allocations[m]
    BY <1>2 DEF TablesInv, TablesAgree
  <2>6. list \in Seq(Alloc)
    BY <1>2 DEF TablesInv, TypeOK
  <2> HIDE DEF list
  <2>7. i \in 1..(at - 1) \/ i \in at..Len(list)
    BY <2>4, <2>5, <2>6
  <2>8. \/ End(list[i]) <= alloc.address
        \/ End(alloc) <= list[i].address
        \/ SameSpot(list[i], alloc)
    BY <2>4, <2>7 DEF FitsAt, SameSpot
  <2> QED
    BY <2>5, <2>8
<1>3. ASSUME Memory!Limited(alloc), Memory!Inside(alloc),
             \A m \in near : Memory!Inside(allocations[m]),
             NEW m \in near
      PROVE  Memory!Compatible(allocations[m], alloc)
  <2>1. k \in Paged
    BY <1>3 DEF Memory!Limited
  <2>2. ASSUME NEW a, a.segment = k, Memory!Inside(a) PROVE InSegment(k, a)
    BY <2>1, <2>2 DEF Memory!Inside, Memory!Past, InSegment, End
  <2>3. InSegment(k, alloc) /\ \A n \in near : InSegment(k, allocations[n])
    BY <1>3, <2>2
  <2> QED
    BY <1>2, <1>3, <2>1, <2>3 DEF Memory!Compatible, Memory!Past, End, SameSpot
<1>4. Memory!Neighbours(allocations, alloc) = near
  BY DEF Memory!Neighbours
<1> HIDE DEF near
<1> QED
  BY <1>1, <1>3, <1>4 DEF Memory!Reserve

\* The pass implements the abstract memory, for every program that pins symbols on
\* free bytes or exact aliases: each step reserves one place or none, no place moves,
\* and two symbols share bytes only as exact aliases until one leaves its segment.
THEOREM Refinement ==
  ASSUME CollidingPins = FALSE PROVE Spec => ImplementsMemory
<1> DEFINE Inv == TablesInv /\ PlacementSafe
<1>1. Init => Inv
  <2>1. Init => \A k \in Paged : seg[k].allocs = <<>>
    BY DEF Init
  <2> QED
    BY <2>1, InitTables DEF PlacementSafe, Separated
<1>2. Inv /\ [Next]_vars => Inv'
  BY StepTables, StepPlacement DEF TablesInv
<1>3. Init => Memory!Init
  BY DEF Init, Memory!Init
<1>4. Inv /\ [Next]_vars => [Memory!Next]_allocations
  <2> SUFFICES ASSUME Inv, [Next]_vars PROVE [Memory!Next]_allocations
    OBVIOUS
  <2>1. ASSUME NEW alloc \in Alloc, Records(alloc) PROVE Memory!Next
    <3>1. alloc.name \in Symbols
      BY DEF Alloc
    <3> QED
      BY <2>1, <3>1, RecordsReserve DEF Memory!Next
  <2> QED
    BY <2>1, StepRecords DEF TablesInv
<1> HIDE DEF Inv
<1> QED
  BY <1>1, <1>2, <1>3, <1>4, PTL DEF Spec, ImplementsMemory, Memory!Spec
-----------------------------------------------------------------------------
(***************************************************************************)
(* Pins.                                                                   *)
(***************************************************************************)

\* The allocation is where the address of the declaration says.
Honours(attrs, a) ==
  /\ a.address = attrs.address.value
  /\ (a.segment = "zp") = (attrs.address.kind = "uint8")
  /\ (a.segment = "data") = (attrs.address.value >= DataBase)

\* A request for an address alone names the segment that owns the address: a
\* one byte address is below DATA, and so in ZP and nowhere else.
LEMMA RequestHonours ==
  ASSUME NEW decl \in ZirInstr, decl.attrs \in Attributes, UsesAddress(decl.attrs)
  PROVE  Honours(decl.attrs, Request(decl))
<1> DEFINE pin == decl.attrs.address
           req == Request(decl)
<1>1. decl.attrs \in AttributeMaps
  BY AttributesAssumption
<1>2. pin.value \in Nat /\ pin.kind \in {"uint8", "uint16"} /\ decl.attrs.segment = "none"
  BY <1>1, LimitsAssumption DEF AttributeMaps, UsesAddress
<1>3. pin.kind = "uint8" => pin.value < DataBase
  BY <1>1, <1>2, AttributesAssumption, LimitsAssumption
<1>4. req.address = pin.value /\ req.segment = TargetSegment(decl.attrs)
  BY DEF Request
<1>5. TargetSegment(decl.attrs) = IF pin.kind = "uint8" THEN "zp"
                                  ELSE IF pin.value < DataBase THEN "text" ELSE "data"
  BY <1>2 DEF TargetSegment
<1> HIDE DEF req, pin
<1>6. CASE pin.kind = "uint8"
  <2>1. req.segment = "zp" /\ ~(pin.value >= DataBase)
    BY <1>2, <1>3, <1>4, <1>5, <1>6, LimitsAssumption
  <2> QED
    BY <2>1, <1>4, <1>6 DEF Honours, req, pin
<1>7. CASE pin.kind # "uint8"
  <2>1. req.segment # "zp" /\ (req.segment = "data" <=> pin.value >= DataBase)
    BY <1>2, <1>4, <1>5, <1>7, LimitsAssumption
  <2> QED
    BY <2>1, <1>4, <1>7 DEF Honours, req, pin
<1> QED
  BY <1>6, <1>7

\* One more instruction of the program: its symbol gets no allocation, or a
\* first one, which honours the pin of its declaration.
Declares(decl) ==
  /\ zir' = Append(zir, decl)
  /\ \/ UNCHANGED allocations /\ decl.dest \notin DOMAIN allocations
     \/ \E alloc \in Alloc :
          /\ Register(alloc)
          /\ alloc.name = decl.dest /\ decl.dest \notin Declared
          /\ decl.op = "variable" /\ UsesAddress(decl.attrs) => Honours(decl.attrs, alloc)

\* A visited variable is given its place by one of the three segments, or none.
LEMMA VariableDeclares ==
  ASSUME TypeOK, DOMAIN allocations \subseteq Declared,
         NEW n \in Names \ Declared, NEW s \in Sources, NEW t \in Types, NEW a \in Attributes,
         LET decl == Instr("variable", n, s, t, a) IN
         VisitPaged(decl) \/ VisitText(decl) \/ VisitRejected(decl)
  PROVE  \E decl \in ZirInstr : Declares(decl)
<1> DEFINE decl == Instr("variable", n, s, t, a)
           req == Request(decl)
<1>1. decl \in ZirInstr /\ n \in Symbols
  BY InstrType DEF Symbols
<1>2. decl.dest = n /\ decl.type \in Types /\ decl.type = t /\ decl.attrs = a /\ decl.source = s
  BY DEF Instr
<1>3. decl.dest \notin Declared /\ decl.dest \notin DOMAIN allocations
  BY <1>2
<1> HIDE DEF decl
<1>4. CASE RequestRejected(decl.attrs)
  <2>1. Visit(decl) /\ UNCHANGED allocations
    BY <1>4 DEF VisitPaged, VisitText, VisitRejected, Fails, decl
  <2> QED
    BY <2>1, <1>1, <1>3 DEF Declares, Visit
<1>5. CASE ~RequestRejected(decl.attrs)
  <2>1. req \in Alloc /\ req.name = decl.dest
    BY <1>1, <1>2, <1>5, RequestType
  <2>2. UsesAddress(decl.attrs) => Honours(decl.attrs, req)
    BY <1>1, <1>2, RequestHonours
  <2> HIDE DEF req
  <2>3. CASE VisitText(decl)
    <3>1. Visit(decl) /\ Register(req)
      BY <2>3 DEF VisitText, req
    <3> QED
      BY <3>1, <1>1, <1>3, <2>1, <2>2 DEF Declares, Visit
  <2>4. CASE VisitPaged(decl)
    <3> DEFINE pinned == UsesAddress(decl.attrs)
    <3>1. Visit(decl) /\ req.segment \in Paged
      BY <2>4 DEF VisitPaged, req
    <3>2. CASE Fails
      BY <3>1, <3>2, <1>1, <1>3 DEF Declares, Visit, Fails
    <3>3. ASSUME NEW place \in Places(req.segment, req, pinned),
                 Put(req.segment, req, place, decl.source)
          PROVE  Declares(decl)
      <4> DEFINE alloc == [req EXCEPT !.address = place.address]
      <4>1. Register(alloc)
        BY <3>3 DEF Put
      <4>2. pinned \in BOOLEAN /\ decl.source \in Symbols \cup {NoName}
        BY <1>2, InstrType DEF UsesAddress
      <4>3. alloc \in Alloc
        BY <3>1, <3>3, <4>2, <2>1, PutType
      <4>4. alloc.name = decl.dest /\ alloc.segment = req.segment /\ alloc.address = place.address
        BY <2>1 DEF Alloc
      <4>5. pinned => place.address = req.address
        <5>1. ASSUME pinned PROVE place \in PinPlaces(seg[req.segment].allocs, req)
          BY <5>1, <3>3 DEF Places
        <5>2. seg[req.segment].allocs \in Seq(Alloc)
          BY <3>1 DEF TypeOK
        <5> QED
          BY <5>1, <5>2, <2>1, PinPlacesType
      <4>6. pinned => Honours(decl.attrs, alloc)
        BY <2>2, <4>4, <4>5 DEF Honours
      <4> HIDE DEF alloc
      <4> QED
        BY <3>1, <1>3, <4>1, <4>3, <4>4, <4>6 DEF Declares, Visit
    <3> QED
      BY <2>4, <3>2, <3>3, <1>1 DEF VisitPaged, req
  <2> QED
    BY <1>5, <2>3, <2>4 DEF VisitRejected, decl
<1> QED
  BY <1>4, <1>5

\* Every step is such a declaration, or leaves the program and the table alone.
LEMMA StepDeclares ==
  ASSUME TypeOK, DOMAIN allocations \subseteq Declared, [Next]_vars
  PROVE  UNCHANGED <<zir, allocations>> \/ \E decl \in ZirInstr : Declares(decl)
<1>1. CASE VisitVariable
  BY <1>1, VariableDeclares DEF VisitVariable
<1>2. ASSUME NEW n \in Temps \ Declared, NEW s \in Sources, NEW t \in Types,
             LET alloc == [name |-> n, type |-> "temp", segment |-> "temp",
                           size |-> t.size, address |-> 0] IN
             /\ Visit(Instr("cast", n, s, t, NoAttributes))
             /\ Register(alloc)
      PROVE  \E decl \in ZirInstr : Declares(decl)
  <2> DEFINE alloc == [name |-> n, type |-> "temp", segment |-> "temp",
                       size |-> t.size, address |-> 0]
             decl == Instr("cast", n, s, t, NoAttributes)
  <2>1. decl \in ZirInstr /\ n \in Symbols
    BY InstrType DEF Symbols
  <2>2. alloc \in Alloc /\ alloc.name = n
    BY <2>1, TypesAssumption DEF Alloc, AllocKinds
  <2>3. decl.dest = n /\ decl.op = "cast"
    BY DEF Instr
  <2>4. Register(alloc) /\ Visit(decl)
    BY <1>2
  <2> HIDE DEF alloc, decl
  <2> QED
    BY <2>1, <2>2, <2>3, <2>4, <1>2 DEF Declares, Visit
<1>3. ASSUME NEW op \in {"if_false", "jump"}, NEW s \in Sources, VisitBranch(op, s)
      PROVE  \E decl \in ZirInstr : Declares(decl)
  <2> DEFINE decl == Instr(op, NoName, s, NoType, NoAttributes)
  <2>1. decl \in ZirInstr
    BY InstrType
  <2>2. decl.dest = NoName
    BY DEF Instr
  <2>3. NoName \notin DOMAIN allocations
    BY NamesAssumption DEF TypeOK, Symbols
  <2>4. Visit(decl) /\ UNCHANGED allocations
    BY <1>3 DEF VisitBranch
  <2> HIDE DEF decl
  <2> QED
    BY <2>1, <2>2, <2>3, <2>4 DEF Declares, Visit
<1>4. NoName \in Sources
  BY DEF Sources
<1> QED
  BY <1>1, <1>2, <1>3, <1>4 DEF Next, VisitCast, VisitIfFalse, VisitJump, Finish, vars

\* A new declaration changes no earlier pin: its symbol has a name of its own.
LEMMA DeclarePins ==
  ASSUME TypeOK, DOMAIN allocations \subseteq Declared, PinsHonoured,
         NEW decl \in ZirInstr, Declares(decl)
  PROVE  PinsHonoured'
<1>1. zir \in Seq(ZirInstr) /\ Len(zir) \in Nat /\ zir' = Append(zir, decl)
  BY DEF TypeOK, Declares
<1>2. /\ DOMAIN zir = 1..Len(zir) /\ DOMAIN zir' = 1..(Len(zir) + 1)
      /\ \A i \in 1..Len(zir) : zir'[i] = zir[i]
      /\ zir'[Len(zir) + 1] = decl
  BY <1>1
<1>3. NoName \notin DOMAIN allocations
  BY NamesAssumption DEF TypeOK, Symbols
<1>4. ASSUME NEW i \in 1..Len(zir), zir[i].dest \in DOMAIN allocations'
      PROVE  /\ zir[i].dest \in DOMAIN allocations
             /\ allocations'[zir[i].dest] = allocations[zir[i].dest]
  <2>1. CASE UNCHANGED allocations
    BY <2>1, <1>4
  <2>2. ASSUME NEW alloc \in Alloc, Register(alloc), alloc.name = decl.dest,
               decl.dest \notin Declared
        PROVE  /\ zir[i].dest \in DOMAIN allocations
               /\ allocations'[zir[i].dest] = allocations[zir[i].dest]
    <3>1. alloc.name \in Symbols /\ alloc.name # NoName
      BY NamesAssumption DEF Alloc, Symbols
    <3>2. alloc.name \notin DOMAIN allocations
      BY <2>2
    <3>3. zir[i].dest # alloc.name
      BY <1>2, <2>2, <3>1 DEF Declared
    <3>4. /\ DOMAIN allocations' = DOMAIN allocations \cup {alloc.name}
          /\ \A m \in DOMAIN allocations : allocations'[m] = allocations[m]
      BY <2>2, <3>2, RegisterNew
    <3>5. zir[i].dest \in DOMAIN allocations
      BY <1>4, <3>3, <3>4
    <3> QED
      BY <3>4, <3>5
  <2> QED
    BY <2>1, <2>2 DEF Declares
<1>5. ASSUME decl.op = "variable", UsesAddress(decl.attrs), decl.dest \in DOMAIN allocations'
      PROVE  Honours(decl.attrs, allocations'[decl.dest])
  <2>1. PICK alloc \in Alloc :
          /\ Register(alloc)
          /\ alloc.name = decl.dest /\ decl.dest \notin Declared
          /\ Honours(decl.attrs, alloc)
    BY <1>5 DEF Declares
  <2>2. alloc.name \notin DOMAIN allocations
    BY <2>1
  <2>3. allocations'[alloc.name] = alloc
    BY <2>1, <2>2, RegisterNew
  <2>4. allocations'[decl.dest] = alloc
    BY <2>1, <2>3
  <2>5. Honours(decl.attrs, alloc)
    BY <2>1
  <2> QED
    BY <2>4, <2>5, Zenon
<1>6. ASSUME NEW i \in 1..(Len(zir) + 1), zir'[i].op = "variable", UsesAddress(zir'[i].attrs),
             zir'[i].dest \in DOMAIN allocations'
      PROVE  Honours(zir'[i].attrs, allocations'[zir'[i].dest])
  <2>1. CASE i = Len(zir) + 1
    BY <2>1, <1>2, <1>5, <1>6
  <2>2. CASE i \in 1..Len(zir)
    <3>1. zir'[i] = zir[i] /\ i \in DOMAIN zir
      BY <2>2, <1>2
    <3>2. /\ zir[i].dest \in DOMAIN allocations
          /\ allocations'[zir[i].dest] = allocations[zir[i].dest]
      BY <2>2, <3>1, <1>4, <1>6
    <3>3. Honours(zir[i].attrs, allocations[zir[i].dest])
      BY <3>1, <3>2, <1>6 DEF PinsHonoured, Honours
    <3> QED
      BY <3>1, <3>2, <3>3
  <2> QED
    BY <2>1, <2>2, <1>1
<1> QED
  BY <1>2, <1>6 DEF PinsHonoured, Honours

\* A symbol pinned by its address alone is at that address for ever, in the
\* segment that owns it, for every program, every set of attributes and every
\* size of the segments: no later symbol, alias or refusal moves it.
THEOREM PinsCorrect == Spec => []PinsHonoured
<1> DEFINE Inv == TablesInv /\ PinsHonoured
<1>1. Init => Inv
  <2>1. Init => zir = <<>>
    BY DEF Init
  <2> QED
    BY <2>1, InitTables DEF PinsHonoured
<1>2. ASSUME Inv, [Next]_vars PROVE Inv'
  <2>1. CASE UNCHANGED <<zir, allocations>>
    BY <2>1, <1>2, StepTables DEF PinsHonoured, UsesAddress
  <2> QED
    BY <2>1, <1>2, StepTables, StepDeclares, DeclarePins DEF TablesInv
<1>3. Inv => PinsHonoured
  OBVIOUS
<1> HIDE DEF Inv
<1> QED
  BY <1>1, <1>2, <1>3, PTL DEF Spec

-----------------------------------------------------------------------------
(***************************************************************************)
(* Counting bytes.                                                         *)
(***************************************************************************)

\* The bytes of one symbol.
BytesOf(a) == a.address .. (End(a) - 1)

\* A byte is taken when some symbol of the list has it.
LEMMA TakenBytes ==
  ASSUME NEW list \in Seq(Alloc), NEW b
  PROVE  b \in Bytes(list) <=> \E i \in 1..Len(list) : b \in BytesOf(list[i])
<1>1. DOMAIN list = 1..Len(list)
  OBVIOUS
<1> QED
  BY <1>1, Zenon DEF Bytes, BytesOf

\* A symbol has as many bytes as its size says.
LEMMA BytesOfFacts ==
  ASSUME NEW a \in Alloc
  PROVE  /\ IsFiniteSet(BytesOf(a)) /\ Cardinality(BytesOf(a)) = a.size
         /\ \A b : b \in BytesOf(a) <=> b \in Int /\ a.address <= b /\ b < End(a)
<1>1. a.address \in Nat /\ a.size \in Nat /\ End(a) = a.address + a.size
  BY DEF Alloc, End
<1>2. BytesOf(a) = a.address .. (a.address + a.size - 1)
  BY <1>1 DEF BytesOf
<1> DEFINE first == a.address
           last == a.address + a.size - 1
<1>3. first \in Int /\ last \in Int
  BY <1>1
<1>4. IsFiniteSet(first..last) /\ Cardinality(first..last) = IF first > last THEN 0 ELSE last - first + 1
  <2> HIDE DEF first, last
  <2> QED
    BY <1>3, FS_Interval
<1>5. (IF first > last THEN 0 ELSE last - first + 1) = a.size
  BY <1>1
<1> QED
  BY <1>1, <1>2, <1>4, <1>5

\* The bytes taken in a list whose symbols are inside its segment are finitely many.
LEMMA TakenInSegment ==
  ASSUME NEW k \in Paged, NEW list \in Seq(Alloc), \A i \in DOMAIN list : InSegment(k, list[i])
  PROVE  Bytes(list) \subseteq Base(k)..Top(k) /\ IsFiniteSet(Bytes(list))
<1>1. Base(k) \in Int /\ Top(k) \in Int
  BY LimitsAssumption DEF Base, Top
<1>2. ASSUME NEW b \in Bytes(list) PROVE b \in Base(k)..Top(k)
  <2>1. PICK i \in 1..Len(list) : b \in BytesOf(list[i])
    BY TakenBytes
  <2>2. list[i] \in Alloc /\ InSegment(k, list[i]) /\ End(list[i]) \in Nat /\ list[i].address \in Nat
    BY AllocEnds
  <2>3. b \in Int /\ list[i].address <= b /\ b < End(list[i])
    BY <2>1, <2>2, BytesOfFacts
  <2> QED
    BY <1>1, <2>2, <2>3 DEF InSegment
<1>3. IsFiniteSet(Base(k)..Top(k))
  BY <1>1, FS_Interval
<1> QED
  BY <1>2, <1>3, FS_Subset

\* A symbol adds its bytes to those of the list.
LEMMA InsertTakes ==
  ASSUME NEW list \in Seq(Alloc), NEW e \in Alloc, NEW at \in 1..(Len(list) + 1)
  PROVE  Bytes(InsertAt(list, at, e)) = Bytes(list) \cup BytesOf(e)
<1> DEFINE ins == InsertAt(list, at, e)
<1>1. /\ ins \in Seq(Alloc) /\ Len(ins) = Len(list) + 1
      /\ \A j \in 1..(Len(list) + 1) :
           ins[j] = IF j < at THEN list[j] ELSE IF j = at THEN e ELSE list[j - 1]
  BY InsertAtFacts
<1> HIDE DEF ins
<1>2. Len(list) \in Nat
  OBVIOUS
<1>3. ASSUME NEW b, b \in Bytes(ins) PROVE b \in Bytes(list) \cup BytesOf(e)
  <2>1. PICK j \in 1..(Len(list) + 1) : b \in BytesOf(ins[j])
    BY <1>1, <1>3, TakenBytes
  <2>2. CASE j = at
    BY <1>1, <2>1, <2>2
  <2>3. CASE j # at
    <3>1. PICK i \in 1..Len(list) : ins[j] = list[i]
      BY <1>1, <1>2, <2>1, <2>3
    <3> QED
      BY <2>1, <3>1, TakenBytes
  <2> QED
    BY <2>2, <2>3
<1>4. ASSUME NEW b, b \in BytesOf(e) PROVE b \in Bytes(ins)
  <2>1. at \in 1..Len(ins) /\ ins[at] = e
    BY <1>1
  <2> QED
    BY <1>1, <1>4, <2>1, TakenBytes
<1>5. ASSUME NEW b, b \in Bytes(list) PROVE b \in Bytes(ins)
  <2>1. PICK i \in 1..Len(list) : b \in BytesOf(list[i])
    BY <1>5, TakenBytes
  <2>2. PICK j \in 1..(Len(list) + 1) : ins[j] = list[i]
    <3>1. CASE i < at
      BY <3>1, <1>1, <1>2
    <3>2. CASE i >= at
      <4>1. i + 1 \in 1..(Len(list) + 1) /\ ~(i + 1 < at) /\ i + 1 # at /\ (i + 1) - 1 = i
        BY <3>2, <1>2
      <4> QED
        BY <4>1, <1>1
    <3> QED
      BY <3>1, <3>2
  <2> QED
    BY <1>1, <2>1, <2>2, TakenBytes
<1> QED
  BY <1>3, <1>4, <1>5 DEF ins

\* The bytes of an alias are taken already, those of a symbol that is apart from
\* every other one are not.
LEMMA InsertCounts ==
  ASSUME NEW k \in Paged, NEW list \in Seq(Alloc), \A i \in DOMAIN list : InSegment(k, list[i]),
         NEW e \in Alloc, NEW at \in 1..(Len(list) + 1)
  PROVE  LET count == Cardinality(Bytes(list))
             counted == Cardinality(Bytes(InsertAt(list, at, e))) IN
         /\ count \in Nat
         /\ (\E i \in DOMAIN list : SameSpot(list[i], e)) => counted = count
         /\ (\A i \in DOMAIN list : Apart(list[i], e)) => counted = count + e.size
<1> DEFINE old == Bytes(list)
           new == BytesOf(e)
<1>1. Bytes(InsertAt(list, at, e)) = old \cup new
  BY InsertTakes
<1>2. IsFiniteSet(old) /\ IsFiniteSet(new) /\ Cardinality(new) = e.size
  BY TakenInSegment, BytesOfFacts
<1>3. Cardinality(old) \in Nat /\ e.size \in Nat
  BY <1>2, FS_CardinalityType DEF Alloc
<1>4. ASSUME NEW i \in DOMAIN list, SameSpot(list[i], e) PROVE new \subseteq old
  <2>1. i \in 1..Len(list) /\ BytesOf(list[i]) = new
    BY <1>4 DEF SameSpot, BytesOf, End
  <2> QED
    BY <2>1, TakenBytes
<1>5. ASSUME \A i \in DOMAIN list : Apart(list[i], e) PROVE old \cap new = {}
  <2> SUFFICES ASSUME NEW b, b \in old, b \in new PROVE FALSE
    OBVIOUS
  <2>1. PICK i \in 1..Len(list) : b \in BytesOf(list[i])
    BY TakenBytes
  <2>2. list[i] \in Alloc /\ End(list[i]) \in Nat /\ list[i].address \in Nat
    BY AllocEnds
  <2>3. e.address \in Nat /\ End(e) \in Nat
    BY DEF Alloc, End
  <2>4. b \in Int /\ list[i].address <= b /\ b < End(list[i]) /\ e.address <= b /\ b < End(e)
    BY <2>1, <2>2, BytesOfFacts
  <2>5. Apart(list[i], e)
    BY <1>5
  <2> QED
    BY <2>2, <2>3, <2>4, <2>5 DEF Apart
<1> HIDE DEF old, new
<1>6. ASSUME new \subseteq old PROVE old \cup new = old
  BY <1>6
<1>7. ASSUME old \cap new = {} PROVE Cardinality(old \cup new) = Cardinality(old) + e.size
  <2>1. Cardinality(old \cup new) = Cardinality(old) + Cardinality(new) - Cardinality(old \cap new)
    BY <1>2, FS_Union
  <2>2. Cardinality(old \cap new) = 0
    BY <1>7, FS_EmptySet, Zenon
  <2> QED
    BY <1>2, <1>3, <2>1, <2>2
<1> QED
  BY <1>1, <1>3, <1>4, <1>5, <1>6, <1>7 DEF old
-----------------------------------------------------------------------------
(***************************************************************************)
(* `used`.                                                                 *)
(***************************************************************************)

\* The counter of a segment is right as long as nothing left the segment: the
\* lists only grow, so nothing had left it before either, its list was separated
\* and the search found the bytes of the new symbol free or exactly taken.
AccountInv == TypeOK /\ PlacementSafe /\ UsedAccounts

\* Recording a symbol keeps the counters right.
LEMMA RecordsAccount ==
  ASSUME CollidingPins = FALSE, AccountInv, NEW alloc \in Alloc, Records(alloc)
  PROVE  UsedAccounts'
<1> DEFINE k == alloc.segment
           list == seg[k].allocs
<1>1. CASE UNCHANGED seg
  BY <1>1 DEF AccountInv, UsedAccounts, WithinSegment, Bytes
<1>2. CASE k \in Paged /\ Accounts(k, alloc) /\ \E at \in Nat : Inserts(k, at, alloc)
  <2>1. PICK at \in Nat : Inserts(k, at, alloc)
    BY <1>2
  <2>2. list \in Seq(Alloc) /\ seg[k].used \in Nat /\ Base(k) \in Nat
    BY <1>2, LimitsAssumption DEF AccountInv, TypeOK, Base
  <2>3. at \in 1..(Len(list) + 1) /\ seg'[k].allocs = InsertAt(list, at, alloc)
    BY <2>1 DEF Inserts
  <2>4. ASSUME WithinSegment(k)'
        PROVE  seg'[k].used = Base(k) + Cardinality(Bytes(seg'[k].allocs))
    <3>1. \A j \in DOMAIN seg'[k].allocs : InSegment(k, seg'[k].allocs[j])
      BY <2>4 DEF WithinSegment, InSegment
    <3>2. WithinSegment(k) /\ InSegment(k, alloc)
      BY <3>1, <2>1, <1>2, InsertsElements DEF WithinSegment, AccountInv
    <3>3. Separated(list) /\ seg[k].used = Base(k) + Cardinality(Bytes(list))
      BY <3>2, <1>2 DEF AccountInv, PlacementSafe, UsedAccounts
    <3>4. \A i \in DOMAIN list : InSegment(k, list[i])
      BY <3>2 DEF WithinSegment
    <3>5. \/ /\ seg'[k].used = seg[k].used
             /\ \E i \in DOMAIN list : SameSpot(list[i], alloc)
          \/ /\ seg'[k].used = seg[k].used + alloc.size
             /\ \A i \in DOMAIN list : Apart(list[i], alloc)
      BY <3>2, <3>3, <1>2 DEF Accounts
    <3> DEFINE count == Cardinality(Bytes(list))
               counted == Cardinality(Bytes(InsertAt(list, at, alloc)))
    <3>6. /\ count \in Nat
          /\ (\E i \in DOMAIN list : SameSpot(list[i], alloc)) => counted = count
          /\ (\A i \in DOMAIN list : Apart(list[i], alloc)) => counted = count + alloc.size
      <4> HIDE DEF list
      <4> QED
        BY <1>2, <2>2, <2>3, <3>4, InsertCounts
    <3>7. alloc.size \in Nat
      BY DEF Alloc
    <3>8. seg'[k].used = Base(k) + counted
      <4> HIDE DEF list, counted, count
      <4>1. seg[k].used = Base(k) + count
        BY <3>3 DEF count
      <4> QED
        BY <2>2, <4>1, <3>5, <3>6, <3>7
    <3> QED
      BY <2>3, <3>8
  <2>5. ASSUME NEW m \in Paged, WithinSegment(m)', m # k
        PROVE  seg'[m].used = Base(m) + Cardinality(Bytes(seg'[m].allocs))
    <3>1. seg'[m] = seg[m]
      BY <2>1, <2>5 DEF Inserts
    <3>2. WithinSegment(m)
      BY <3>1, <2>5 DEF WithinSegment, InSegment
    <3> QED
      BY <3>1, <3>2 DEF AccountInv, UsedAccounts
  <2>6. ASSUME NEW m \in Paged, WithinSegment(m)'
        PROVE  seg'[m].used = Base(m) + Cardinality(Bytes(seg'[m].allocs))
    BY <2>4, <2>5, <2>6
  <2> QED
    BY <2>6 DEF UsedAccounts, Bytes
<1> QED
  BY <1>1, <1>2 DEF Records

\* Every step records one symbol or leaves the segments alone.
LEMMA StepAccount ==
  ASSUME CollidingPins = FALSE, AccountInv, [Next]_vars
  PROVE  AccountInv'
<1>1. CASE UNCHANGED seg
  BY <1>1, StepType, StepPlacement DEF AccountInv, UsedAccounts, WithinSegment, Bytes
<1> QED
  BY <1>1, StepType, StepPlacement, StepRecords, RecordsAccount DEF AccountInv

\* Nothing is taken in a new program.
LEMMA InitAccount ==
  ASSUME Init PROVE AccountInv
<1>1. \A k \in Paged : seg[k].allocs = <<>> /\ seg[k].used = Base(k) /\ Base(k) \in Nat
  BY LimitsAssumption DEF Init, Base
<1>2. Bytes(<<>>) = {}
  BY DEF Bytes
<1>3. Cardinality({}) = 0
  BY FS_EmptySet, Zenon
<1>4. ASSUME NEW k \in Paged
      PROVE  Separated(seg[k].allocs) /\ seg[k].used = Base(k) + Cardinality(Bytes(seg[k].allocs))
  <2>1. seg[k].used = Base(k) + Cardinality(Bytes(seg[k].allocs))
    <3>1. Bytes(seg[k].allocs) = {}
      BY <1>1, <1>2, Zenon
    <3>2. Cardinality(Bytes(seg[k].allocs)) = 0
      BY <1>3, <3>1
    <3> QED
      BY <1>1, <3>2
  <2> QED
    BY <1>1, <2>1 DEF Separated
<1> QED
  BY <1>4, InitType DEF AccountInv, PlacementSafe, UsedAccounts

\* `used` is the number of bytes that are taken, for every program that pins
\* symbols on free bytes or exact aliases, in whatever order pins, aliases and first
\* fits come, until one of them leaves its segment.
THEOREM UsedCorrect ==
  ASSUME CollidingPins = FALSE PROVE Spec => []UsedAccounts
<1>1. Init => AccountInv
  BY InitAccount
<1>2. AccountInv /\ [Next]_vars => AccountInv'
  BY StepAccount
<1>3. AccountInv => UsedAccounts
  BY DEF AccountInv
<1> QED
  BY <1>1, <1>2, <1>3, PTL DEF Spec
-----------------------------------------------------------------------------
(***************************************************************************)
(* Refusals.                                                               *)
(***************************************************************************)

\* A variable that is refused for lack of space had no place in its segment.
LEMMA RefusedHadNoPlace ==
  ASSUME TypeOK, Next, NEW k \in Paged, NEW decl \in AutoRefusals(k)
  PROVE  /\ Request(decl) \in Alloc /\ Request(decl).size = decl.type.size
         /\ Places(k, Request(decl), FALSE) = {}
<1>1. /\ errors \in Nat /\ zir \in Seq(ZirInstr) /\ errors' > errors
      /\ ~RequestRejected(decl.attrs) /\ ~UsesAddress(decl.attrs)
      /\ TargetSegment(decl.attrs) = k
  BY DEF AutoRefusals, TypeOK
<1>2. VisitVariable
  <2>1. CASE VisitCast \/ VisitIfFalse \/ VisitJump \/ Finish
    <3>1. errors' = errors
      BY <2>1 DEF VisitCast, VisitIfFalse, VisitJump, VisitBranch, Finish
    <3> QED
      BY <3>1, <1>1
  <2> QED
    BY <2>1 DEF Next
<1>3. PICK n \in Names \ Declared, s \in Sources, t \in Types, a \in Attributes :
        LET d == Instr("variable", n, s, t, a) IN
        VisitPaged(d) \/ VisitText(d) \/ VisitRejected(d)
  BY <1>2 DEF VisitVariable
<1> DEFINE d == Instr("variable", n, s, t, a)
<1>4. d \in ZirInstr /\ d.dest \in Symbols /\ d.type \in Types
  <2>1. n \in Symbols
    BY DEF Symbols
  <2> QED
    BY <2>1, InstrType DEF Instr
<1> HIDE DEF d
<1>5. Visit(d)
  BY <1>3 DEF d, VisitPaged, VisitText, VisitRejected
<1>6. decl = d
  <2>1. zir' = Append(zir, d)
    BY <1>5 DEF Visit
  <2>2. PICK i \in DOMAIN zir' \ DOMAIN zir : decl = zir'[i]
    BY DEF AutoRefusals
  <2>3. i = Len(zir) + 1
    BY <1>1, <2>1, <2>2
  <2> QED
    BY <1>1, <2>1, <2>2, <2>3
<1>7. VisitPaged(d)
  BY <1>1, <1>3, <1>6 DEF d, VisitText, VisitRejected
<1> DEFINE req == Request(d)
<1>8. req \in Alloc /\ req.size = d.type.size /\ req.segment = k
  BY <1>1, <1>4, <1>6, RequestType DEF Request
<1> HIDE DEF req
<1>9. Places(k, req, UsesAddress(d.attrs)) = {}
  <2>1. ASSUME NEW place \in Places(k, req, UsesAddress(d.attrs)), Put(k, req, place, d.source)
        PROVE  FALSE
    BY <1>1, <2>1 DEF Put
  <2> QED
    BY <1>7, <1>8, <2>1 DEF VisitPaged, req
<1>10. Places(k, req, FALSE) = {}
  BY <1>1, <1>6, <1>9 DEF Places, Admits
<1> QED
  BY <1>6, <1>8, <1>10 DEF req

\* The walk loses no gap.  It gives up at a node i because even the bytes right
\* after node i - 1 would pass the limit: a free range is before that node,
\* so there is a first node it is before, and the walk had found its gap.
LEMMA WalkMissesNothing ==
  ASSUME NEW k \in Paged, NEW list \in Seq(Alloc), \A i \in DOMAIN list : End(list[i]) <= Top(k),
         NEW e \in Alloc, Base(k) <= e.address, End(e) <= Top(k),
         \A i \in DOMAIN list : Apart(list[i], e)
  PROVE  AutoPlaces(k, list, e.size) # {}
<1> DEFINE need == e.size
           Stops == {i \in 1..Len(list) : AutoStopsAt(k, list, need, i)}
<1>1. /\ e.address \in Nat /\ need \in Nat /\ End(e) = e.address + need
      /\ Base(k) \in Nat /\ Top(k) \in Nat
  BY LimitsAssumption DEF Alloc, End, Base, Top
<1>2. \A i \in 1..Len(list) :
        /\ list[i].address \in Nat /\ list[i].size \in Nat
        /\ End(list[i]) = list[i].address + list[i].size
        /\ End(list[i]) \in Nat /\ End(list[i]) <= Top(k) /\ Apart(list[i], e)
  <2> SUFFICES ASSUME NEW i \in 1..Len(list)
               PROVE  /\ list[i].address \in Nat /\ list[i].size \in Nat
                      /\ End(list[i]) = list[i].address + list[i].size
                      /\ End(list[i]) \in Nat /\ End(list[i]) <= Top(k) /\ Apart(list[i], e)
    OBVIOUS
  <2> QED
    BY AllocEnds DEF End
<1>3. ASSUME list = <<>> PROVE AutoPlaces(k, list, need) # {}
  BY <1>3 DEF AutoPlaces
<1>4. ASSUME list # <<>>, NEW i \in 1..Len(list),
             \A j \in 1..(i - 1) : ~AutoStopsAt(k, list, need, j),
             ~AddOverflows(Probe(k, list, i), need, Top(k)),
             i = Len(list) \/ FitsInGap(k, list, need, i)
      PROVE  AutoPlaces(k, list, need) # {}
  <2>1. i \in DOMAIN list
    OBVIOUS
  <2>2. CASE i = Len(list)
    <3>1. Place(i + 1, End(list[i]) % (AddrMax + 1), FALSE) \in AutoPlaces(k, list, need)
      BY <1>4, <2>1, <2>2 DEF AutoPlaces
    <3> QED
      BY <3>1
  <2>3. CASE i # Len(list)
    <3>1. Place(i, Probe(k, list, i), FALSE) \in AutoPlaces(k, list, need)
      BY <1>4, <2>1, <2>3 DEF AutoPlaces
    <3> QED
      BY <3>1
  <2> QED
    BY <2>2, <2>3
<1>5. ASSUME list # <<>> PROVE AutoPlaces(k, list, need) # {}
  <2>1. Len(list) \in 1..Len(list) /\ Len(list) \in Nat
    BY <1>5
  <2>2. Len(list) \in Stops
    BY <2>1 DEF AutoStopsAt
  <2>3. Stops \subseteq Nat
    OBVIOUS
  <2>4. PICK i \in Stops : \A j \in Stops : i <= j
    BY <2>2, <2>3, LeastElement
  <2>5. i \in 1..Len(list) /\ AutoStopsAt(k, list, need, i)
    BY <2>4
  <2>6. ASSUME NEW j \in 1..(i - 1) PROVE j \in 1..Len(list) /\ ~AutoStopsAt(k, list, need, j)
    BY <2>4, <2>5
  <2> HIDE DEF Stops
  <2>7. ~AddOverflows(list[i].address, list[i].size, Top(k))
    BY <1>1, <1>2, <2>5 DEF AddOverflows
  <2>8. ~AddOverflows(Probe(k, list, i), need, Top(k))
    <3> SUFFICES ASSUME AddOverflows(Probe(k, list, i), need, Top(k)) PROVE FALSE
      OBVIOUS
    <3>1. i # 1
      BY <1>1 DEF AddOverflows, Probe
    <3>2. i - 1 \in 1..Len(list) /\ End(list[i - 1]) + need > Top(k)
      BY <2>5, <3>1 DEF AddOverflows, Probe
    <3>3. e.address < End(list[i - 1])
      BY <1>1, <1>2, <3>2
    <3> DEFINE Later == {j \in 1..(i - 1) : End(e) <= list[j].address}
    <3>4. i - 1 \in Later
      BY <1>1, <1>2, <2>5, <3>2, <3>3 DEF Apart
    <3>5. PICK j \in Later : \A m \in Later : j <= m
      <4>1. Later \subseteq Nat /\ Later # {}
        BY <3>4
      <4> HIDE DEF Later
      <4> QED
        BY <4>1, LeastElement
    <3>6. j \in 1..(i - 1) /\ j \in 1..Len(list) /\ End(e) <= list[j].address
      BY <2>6, <3>5
    <3>7. Probe(k, list, j) <= e.address /\ Probe(k, list, j) \in Nat
      <4>1. CASE j = 1
        BY <1>1, <4>1 DEF Probe
      <4>2. CASE j # 1
        <5>1. j - 1 \in 1..(i - 1) /\ j - 1 \in 1..Len(list) /\ j - 1 \notin Later
          BY <2>5, <3>5, <3>6, <4>2
        <5>2. End(list[j - 1]) <= e.address
          BY <1>2, <5>1 DEF Apart
        <5> QED
          BY <1>2, <4>2, <5>1, <5>2 DEF Probe
      <4> QED
        BY <4>1, <4>2
    <3>8. FitsInGap(k, list, need, j)
      BY <1>1, <1>2, <3>6, <3>7 DEF FitsInGap
    <3> QED
      BY <2>6, <3>6, <3>8 DEF AutoStopsAt
  <2>9. i = Len(list) \/ FitsInGap(k, list, need, i)
    BY <2>5, <2>7, <2>8 DEF AutoStopsAt
  <2> QED
    BY <1>4, <1>5, <2>5, <2>6, <2>8, <2>9
<1> QED
  BY <1>3, <1>5

\* The zero page is not declared full while a free range is big enough: `used`
\* is the number of the other bytes.
LEMMA CounterMissesNothing ==
  ASSUME AccountInv, NEW e \in Alloc, End(e) <= ZpMax,
         \A i \in DOMAIN seg["zp"].allocs : End(seg["zp"].allocs[i]) <= ZpMax,
         \A i \in DOMAIN seg["zp"].allocs : Apart(seg["zp"].allocs[i], e)
  PROVE  seg["zp"].used + e.size <= ZpMax
<1> DEFINE list == seg["zp"].allocs
           page == 0..(ZpMax - 1)
<1>1. list \in Seq(Alloc) /\ ZpMax \in Nat
  BY LimitsAssumption DEF AccountInv, TypeOK, Paged
<1>2. ASSUME NEW i \in 1..Len(list)
      PROVE  list[i] \in Alloc /\ list[i].address \in Nat /\ End(list[i]) \in Nat /\ End(list[i]) <= ZpMax
  <2> HIDE DEF list
  <2>1. list[i] \in Alloc /\ list[i].address \in Nat /\ End(list[i]) \in Nat
    BY <1>1, AllocEnds
  <2> QED
    BY <2>1 DEF list
<1>3. e.address \in Nat /\ e.size \in Nat /\ End(e) \in Nat
  BY DEF Alloc, End
<1>4. WithinSegment("zp") /\ \A i \in DOMAIN list : InSegment("zp", list[i])
  BY <1>1, <1>2 DEF WithinSegment, InSegment, Base, Top
<1>5. seg["zp"].used = 0 + Cardinality(Bytes(list))
  BY <1>4 DEF AccountInv, UsedAccounts, Base, Paged
<1> HIDE DEF list
<1>6. Bytes(list) \cup BytesOf(e) \subseteq page
  <2>1. ASSUME NEW b \in Bytes(list) PROVE b \in page
    <3>1. PICK i \in 1..Len(list) : b \in BytesOf(list[i])
      BY <1>1, TakenBytes
    <3> QED
      BY <1>1, <1>2, <3>1, BytesOfFacts
  <2>2. ASSUME NEW b \in BytesOf(e) PROVE b \in page
    BY <1>1, <1>3, BytesOfFacts
  <2> QED
    BY <2>1, <2>2
<1>7. IsFiniteSet(page) /\ Cardinality(page) = ZpMax
  <2>1. ZpMax - 1 \in Int
    BY <1>1
  <2>2. IsFiniteSet(page) /\ Cardinality(page) = IF 0 > ZpMax - 1 THEN 0 ELSE (ZpMax - 1) - 0 + 1
    BY <2>1, FS_Interval
  <2> HIDE DEF page
  <2> QED
    BY <1>1, <2>2
<1> HIDE DEF page
<1>8. Cardinality(Bytes(list) \cup BytesOf(e)) <= ZpMax
  BY <1>6, <1>7, FS_Subset
<1>9. /\ Cardinality(Bytes(list)) \in Nat
      /\ Cardinality(Bytes(list) \cup BytesOf(e)) = Cardinality(Bytes(list)) + e.size
  <2>1. \A i \in DOMAIN list : Apart(list[i], e)
    BY DEF list
  <2>2. 1 \in 1..(Len(list) + 1) /\ "zp" \in Paged
    BY <1>1 DEF Paged
  <2> QED
    BY <1>1, <1>4, <2>1, <2>2, InsertCounts, InsertTakes
<1> QED
  BY <1>1, <1>3, <1>5, <1>8, <1>9

\* Neither the walk nor the counter refuses a symbol that a free range could hold.
LEMMA StepRefuses ==
  ASSUME AccountInv, Next
  PROVE  RefusesWhenFull
<1> SUFFICES ASSUME NEW k \in Paged,
                    \A i \in DOMAIN seg[k].allocs : End(seg[k].allocs[i]) <= Top(k),
                    NEW decl \in AutoRefusals(k), HasRoom(k, decl.type.size)
             PROVE  FALSE
  BY DEF RefusesWhenFull
<1> DEFINE req == Request(decl)
           list == seg[k].allocs
<1>1. req \in Alloc /\ req.size = decl.type.size /\ Places(k, req, FALSE) = {}
  BY RefusedHadNoPlace DEF AccountInv
<1> HIDE DEF req
<1>2. list \in Seq(Alloc)
  BY DEF AccountInv, TypeOK
<1>3. PICK address \in Base(k)..(Top(k) - req.size) :
        \A i \in DOMAIN list : Apart(list[i], [address |-> address, size |-> req.size])
  BY <1>1 DEF HasRoom
<1>4. Base(k) \in Nat /\ Top(k) \in Nat /\ req.size \in Nat
  BY <1>1, LimitsAssumption DEF Base, Top, Alloc
<1>5. address \in Nat /\ Base(k) <= address /\ address + req.size <= Top(k)
  BY <1>3, <1>4
<1> DEFINE e == [req EXCEPT !.address = address]
<1>6. e \in Alloc /\ e.address = address /\ e.size = req.size
  BY <1>1, <1>5 DEF Alloc
<1> HIDE DEF e
<1>7. Base(k) <= e.address /\ End(e) <= Top(k) /\ \A i \in DOMAIN list : Apart(list[i], e)
  BY <1>3, <1>5, <1>6 DEF End, Apart
<1>8. AutoPlaces(k, list, req.size) # {}
  <2>1. \A i \in DOMAIN list : End(list[i]) <= Top(k)
    OBVIOUS
  <2> HIDE DEF list
  <2> QED
    BY <1>2, <1>6, <1>7, <2>1, WalkMissesNothing
<1>9. Admits(k, seg[k].used, req, FALSE)
  BY <1>6, <1>7, CounterMissesNothing DEF Admits, Top
<1> QED
  BY <1>1, <1>8, <1>9 DEF Places

\* An automatic symbol is refused only when no free range of its segment could hold
\* it, for every program that pins symbols on free bytes or exact aliases: giving
\* up the walk at the first sum that overflows loses no gap, and `used` never
\* declares the zero page full too early.
THEOREM RefusalsCorrect ==
  ASSUME CollidingPins = FALSE PROVE Spec => RefusedOnlyWhenFull
<1>1. Init => AccountInv
  BY InitAccount
<1>2. AccountInv /\ [Next]_vars => AccountInv'
  BY StepAccount
<1>3. AccountInv /\ [Next]_vars => [RefusesWhenFull]_vars
  BY StepRefuses
<1> QED
  BY <1>1, <1>2, <1>3, PTL DEF Spec, RefusedOnlyWhenFull
=============================================================================

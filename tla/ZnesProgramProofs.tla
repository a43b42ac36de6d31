------------------------- MODULE ZnesProgramProofs -------------------------
(***************************************************************************)
(* Proofs about ZnesProgram, for every set of names, types and attributes, *)
(* every program length and every size of the segments: the state stays    *)
(* well typed, and the first-fit search keeps the segments free of partial *)
(* overlaps (PlacementSafe).                                               *)
(***************************************************************************)
EXTENDS ZnesProgram, SequenceTheorems, TLAPS

USE DEF Paged

(***************************************************************************)
(* Inserting in a sequence.                                                *)
(***************************************************************************)

\* What fl_list_insert_before and fl_list_append do to the list of a segment.
LEMMA InsertAtFacts ==
  ASSUME NEW S, NEW s \in Seq(S), NEW i \in 1..(Len(s) + 1), NEW e \in S
  PROVE  /\ InsertAt(s, i, e) \in Seq(S)
         /\ Len(InsertAt(s, i, e)) = Len(s) + 1
         /\ \A j \in 1..(Len(s) + 1) :
              InsertAt(s, i, e)[j] = IF j < i THEN s[j] ELSE IF j = i THEN e ELSE s[j - 1]
<1> DEFINE front == SubSeq(s, 1, i - 1)
           back == SubSeq(s, i, Len(s))
           head == front \o <<e>>
           ins == head \o back
<1>1. InsertAt(s, i, e) = ins
  BY DEF InsertAt
<1>2. /\ front \in Seq(S) /\ Len(front) = i - 1
      /\ \A j \in 1..(i - 1) : front[j] = s[j]
  OBVIOUS
<1>3. /\ back \in Seq(S) /\ Len(back) = Len(s) - i + 1
      /\ \A j \in 1..(Len(s) - i + 1) : back[j] = s[i + j - 1]
  OBVIOUS
<1> HIDE DEF front, back
<1>4. /\ head \in Seq(S) /\ Len(head) = i
      /\ \A m \in 1..i : head[m] = IF m < i THEN front[m] ELSE e
  BY <1>2
<1> HIDE DEF head
<1>5. /\ ins \in Seq(S) /\ Len(ins) = Len(s) + 1
      /\ \A j \in 1..(Len(s) + 1) : ins[j] = IF j <= i THEN head[j] ELSE back[j - i]
  <2>1. Len(head) + Len(back) = Len(s) + 1
    BY <1>3, <1>4
  <2>2. /\ ins \in Seq(S) /\ Len(ins) = Len(head) + Len(back)
        /\ \A j \in 1..(Len(head) + Len(back)) :
             ins[j] = IF j <= Len(head) THEN head[j] ELSE back[j - Len(head)]
    BY <1>3, <1>4, ConcatProperties
  <2> QED
    BY <2>1, <2>2, <1>4
<1> HIDE DEF ins
<1>6. ASSUME NEW j \in 1..(Len(s) + 1)
      PROVE  ins[j] = IF j < i THEN s[j] ELSE IF j = i THEN e ELSE s[j - 1]
  <2>1. CASE j <= i
    BY <2>1, <1>2, <1>4, <1>5
  <2>2. CASE j > i
    <3>1. j - i \in 1..(Len(s) - i + 1) /\ i + (j - i) - 1 = j - 1
      BY <2>2
    <3>2. back[j - i] = s[j - 1]
      BY <1>3, <3>1
    <3> QED
      BY <2>2, <3>2, <1>5
  <2> QED
    BY <2>1, <2>2
<1> QED
  BY <1>1, <1>5, <1>6
-----------------------------------------------------------------------------
(***************************************************************************)
(* Types.                                                                  *)
(***************************************************************************)

\* The request built from the attributes of a variable is a well typed
\* allocation of ZP, DATA or TEXT (znes_alloc_request_init).
LEMMA RequestType ==
  ASSUME NEW decl \in ZirInstr, decl.dest \in Symbols, decl.type \in Types,
         ~RequestRejected(decl.attrs)
  PROVE  /\ Request(decl) \in Alloc
         /\ Request(decl).segment \in Paged \cup {"text"}
         /\ Request(decl).name = decl.dest
<1>1. decl.attrs \in AttributeMaps
  BY DEF ZirInstr
<1>2. decl.type.kind \in AllocKinds /\ decl.type.size \in Nat
  BY TypesAssumption
<1>3. decl.attrs.address.value \in Nat
  BY <1>1, LimitsAssumption DEF AttributeMaps
<1>4. TargetSegment(decl.attrs) \in Paged \cup {"text"}
  BY <1>1 DEF AttributeMaps, TargetSegment, RequestRejected
<1> HIDE DEF TargetSegment, UsesAddress
<1>5. (IF UsesAddress(decl.attrs) THEN decl.attrs.address.value ELSE 0) \in Nat
  BY <1>3
<1> QED
  BY <1>2, <1>4, <1>5 DEF Request, Alloc

\* The bounds of the allocations of a list.
LEMMA AllocEnds ==
  ASSUME NEW list \in Seq(Alloc), NEW i \in 1..Len(list)
  PROVE  /\ list[i] \in Alloc
         /\ list[i].address \in Nat /\ list[i].size \in Nat
         /\ End(list[i]) \in Nat
         /\ list[i].address <= End(list[i])
<1>1. list[i] \in Alloc
  OBVIOUS
<1>2. list[i].address \in Nat /\ list[i].size \in Nat
  BY <1>1 DEF Alloc
<1> QED
  BY <1>1, <1>2 DEF End

\* The search returns a position of the list, or the one after its end, and a
\* natural number as the address.
LEMMA AutoPlacesType ==
  ASSUME NEW k \in Paged, NEW list \in Seq(Alloc), NEW need \in Nat,
         NEW place \in AutoPlaces(k, list, need)
  PROVE  /\ place.at \in 1..(Len(list) + 1)
         /\ place.address \in Nat
         /\ place.aliased = FALSE
<1>1. \A i \in 1..Len(list) : End(list[i]) \in Nat
  BY AllocEnds
<1>2. Base(k) \in Nat
  BY LimitsAssumption DEF Base
<1>3. \A i \in 1..Len(list) : Probe(k, list, i) \in Nat
  BY <1>1, <1>2 DEF Probe
<1>4. \A i \in 1..Len(list) : End(list[i]) % (AddrMax + 1) \in Nat
  BY <1>1, LimitsAssumption
<1>5. CASE list = <<>>
  <2>1. place = Place(1, Base(k), FALSE)
    BY <1>5 DEF AutoPlaces
  <2> QED
    BY <1>2, <2>1 DEF Place
<1>6. CASE list # <<>>
  <2>1. PICK i \in DOMAIN list :
           \/ place = Place(i, Probe(k, list, i), FALSE)
           \/ place = Place(i + 1, End(list[i]) % (AddrMax + 1), FALSE)
    BY <1>6 DEF AutoPlaces
  <2>2. i \in 1..Len(list)
    OBVIOUS
  <2> QED
    BY <2>1, <2>2, <1>3, <1>4 DEF Place
<1> QED
  BY <1>5, <1>6

\* The same for a pinned symbol, which keeps the address it was pinned at.
LEMMA PinPlacesType ==
  ASSUME NEW list \in Seq(Alloc), NEW req \in Alloc,
         NEW place \in PinPlaces(list, req)
  PROVE  /\ place.at \in 1..(Len(list) + 1)
         /\ place.address = req.address
         /\ place.aliased \in BOOLEAN
<1>1. CASE list = <<>>
  <2>1. place = Place(1, req.address, FALSE)
    BY <1>1 DEF PinPlaces
  <2> QED
    BY <2>1 DEF Place
<1>2. CASE list # <<>>
  <2>1. PICK i \in DOMAIN list :
           place = Place(IF ~SameSpot(list[i], req) /\ PinFitsAtEnd(list, req, i)
                         THEN i + 1 ELSE i, req.address, SameSpot(list[i], req))
    BY <1>2 DEF PinPlaces
  <2>2. SameSpot(list[i], req) \in BOOLEAN
    BY DEF SameSpot
  <2> QED
    BY <2>1, <2>2 DEF Place
<1> QED
  BY <1>1, <1>2

\* Emitting keeps the startup segment a sequence of NES IR instructions.
LEMMA EmitType ==
  ASSUME TypeOK, NEW op \in {"alloc", "if_false", "jump"},
         NEW dest \in Symbols \cup {NoName}, NEW source \in Symbols \cup {NoName}
  PROVE  Emit(op, dest, source) \in Seq(ZnesInstr)
<1>1. Operand(source) \in Symbols \cup {Literal, Null}
  BY DEF Operand
<1>2. [op |-> op, dest |-> dest, source |-> Operand(source)] \in ZnesInstr
  BY <1>1 DEF ZnesInstr
<1>3. text.instructions \in Seq(ZnesInstr)
  BY DEF TypeOK
<1> QED
  BY <1>2, <1>3, AppendProperties DEF Emit

\* The table of names maps names of symbols to allocations.
LEMMA RegisterType ==
  ASSUME TypeOK, NEW alloc \in Alloc, Register(alloc)
  PROVE  /\ DOMAIN allocations' \subseteq Symbols
         /\ \A n \in DOMAIN allocations' : allocations'[n] \in Alloc
<1>1. alloc.name \in Symbols
  BY DEF Alloc
<1>2. DOMAIN allocations \subseteq Symbols /\ \A n \in DOMAIN allocations : allocations[n] \in Alloc
  BY DEF TypeOK
<1> QED
  BY <1>1, <1>2 DEF Register

\* Visiting one more instruction.
LEMMA VisitType ==
  ASSUME TypeOK, NEW instr \in ZirInstr, Visit(instr)
  PROVE  zir' \in Seq(ZirInstr) /\ result' \in {"running", "ok", "failed"}
<1>1. zir \in Seq(ZirInstr) /\ result \in {"running", "ok", "failed"}
  BY DEF TypeOK
<1> QED
  BY <1>1, AppendProperties DEF Visit

\* A segment takes a request at a place that its search returned.
LEMMA PutType ==
  ASSUME TypeOK, NEW k \in Paged, NEW req \in Alloc, NEW pinned \in BOOLEAN,
         NEW place \in Places(k, req, pinned), NEW source \in Symbols \cup {NoName},
         Put(k, req, place, source)
  PROVE  /\ [req EXCEPT !.address = place.address] \in Alloc
         /\ seg' \in [Paged -> [allocs : Seq(Alloc), used : Nat]]
         /\ text' \in [instructions : Seq(ZnesInstr), allocs : Seq(Alloc), used : Nat]
         /\ DOMAIN allocations' \subseteq Symbols
         /\ \A n \in DOMAIN allocations' : allocations'[n] \in Alloc
         /\ errors' \in Nat
<1> DEFINE list == seg[k].allocs
           alloc == [req EXCEPT !.address = place.address]
<1>1. /\ list \in Seq(Alloc) /\ seg[k].used \in Nat
      /\ seg \in [Paged -> [allocs : Seq(Alloc), used : Nat]]
      /\ text \in [instructions : Seq(ZnesInstr), allocs : Seq(Alloc), used : Nat]
      /\ errors \in Nat
  BY DEF TypeOK
<1>2. req.size \in Nat /\ req.address \in Nat /\ req.name \in Symbols
  BY DEF Alloc
<1>3. place.at \in 1..(Len(list) + 1) /\ place.address \in Nat /\ place.aliased \in BOOLEAN
  <2> HIDE DEF alloc
  <2>1. CASE place \in PinPlaces(list, req)
    BY <2>1, <1>1, <1>2, PinPlacesType
  <2>2. CASE place \in AutoPlaces(k, list, req.size)
    BY <2>2, <1>1, <1>2, AutoPlacesType
  <2> QED
    BY <2>1, <2>2 DEF Places
<1>4. alloc \in Alloc
  BY <1>3 DEF Alloc
<1>5. InsertAt(list, place.at, alloc) \in Seq(Alloc)
  BY <1>1, <1>3, <1>4, InsertAtFacts
<1>6. UsedAfter(k, req, place) \in Nat
  BY <1>1, <1>2, <1>3 DEF UsedAfter
<1>7. seg' \in [Paged -> [allocs : Seq(Alloc), used : Nat]]
  <2>1. seg' = [seg EXCEPT ![k] = [allocs |-> InsertAt(list, place.at, alloc),
                                  used |-> UsedAfter(k, req, place)]]
    BY DEF Put
  <2> HIDE DEF alloc, list
  <2> QED
    BY <2>1, <1>1, <1>5, <1>6
<1>8. text' \in [instructions : Seq(ZnesInstr), allocs : Seq(Alloc), used : Nat]
  <2>1. Emit("alloc", req.name, source) \in Seq(ZnesInstr)
    BY <1>2, EmitType
  <2>2. text' = [text EXCEPT !.instructions = Emit("alloc", req.name, source)]
    BY DEF Put
  <2> QED
    BY <2>1, <2>2, <1>1
<1>9. errors' \in Nat
  BY <1>1 DEF Put
<1>10. Register(alloc)
  BY DEF Put
<1> QED
  BY <1>4, <1>7, <1>8, <1>9, <1>10, RegisterType

\* The instructions a step may visit are well typed.
LEMMA InstrType ==
  ASSUME TypeOK, NEW s \in Sources
  PROVE  /\ s \in Symbols \cup {NoName}
         /\ \A n \in Symbols, t \in Types, a \in Attributes, op \in {"variable", "cast"} :
              Instr(op, n, s, t, a) \in ZirInstr
         /\ \A n \in Symbols, t \in Types :
              Instr("cast", n, s, t, NoAttributes) \in ZirInstr
         /\ \A op \in {"if_false", "jump"} :
              Instr(op, NoName, s, NoType, NoAttributes) \in ZirInstr
<1>1. zir \in Seq(ZirInstr)
  BY DEF TypeOK
<1>2. \A i \in DOMAIN zir : zir[i].dest \in Symbols \cup {NoName}
  <2>1. \A i \in DOMAIN zir : zir[i] \in ZirInstr
    BY <1>1
  <2> QED
    BY <2>1 DEF ZirInstr
<1>3. s \in Symbols \cup {NoName}
  BY <1>2 DEF Sources, Declared
<1>4. NoAttributes \in AttributeMaps
  BY LimitsAssumption DEF NoAttributes, AttributeMaps
<1>5. Attributes \subseteq AttributeMaps
  BY AttributesAssumption
<1> QED
  BY <1>3, <1>4, <1>5 DEF Instr, ZirInstr

\* Nothing is placed at first.
LEMMA InitType ==
  ASSUME Init PROVE TypeOK
<1>1. zir \in Seq(ZirInstr) /\ errors \in Nat /\ result \in {"running", "ok", "failed"}
  BY DEF Init
<1>2. seg \in [Paged -> [allocs : Seq(Alloc), used : Nat]]
  <2>1. \A k \in Paged : Base(k) \in Nat
    BY LimitsAssumption DEF Base
  <2> QED
    BY <2>1 DEF Init
<1>3. text \in [instructions : Seq(ZnesInstr), allocs : Seq(Alloc), used : Nat]
  BY DEF Init
<1>4. DOMAIN allocations = {}
  BY DEF Init
<1> QED
  BY <1>1, <1>2, <1>3, <1>4 DEF TypeOK

\* Every step, the refusals included, keeps the state well typed.
LEMMA StepType ==
  ASSUME TypeOK, [Next]_vars PROVE TypeOK'
<1>0. /\ seg \in [Paged -> [allocs : Seq(Alloc), used : Nat]]
      /\ text \in [instructions : Seq(ZnesInstr), allocs : Seq(Alloc), used : Nat]
      /\ DOMAIN allocations \subseteq Symbols
      /\ \A n \in DOMAIN allocations : allocations[n] \in Alloc
      /\ errors \in Nat
  BY DEF TypeOK
<1>1. ASSUME NEW n \in Names \ Declared, NEW s \in Sources, NEW t \in Types, NEW a \in Attributes,
             \/ VisitPaged(Instr("variable", n, s, t, a))
             \/ VisitText(Instr("variable", n, s, t, a))
             \/ VisitRejected(Instr("variable", n, s, t, a))
      PROVE  TypeOK'
  <2> DEFINE decl == Instr("variable", n, s, t, a)
             req == Request(decl)
  <2>1. decl \in ZirInstr /\ decl.dest \in Symbols /\ decl.type \in Types
        /\ decl.source \in Symbols \cup {NoName} /\ s \in Symbols \cup {NoName}
    <3>1. n \in Symbols
      BY DEF Symbols
    <3>2. decl \in ZirInstr /\ s \in Symbols \cup {NoName}
      BY <3>1, InstrType
    <3> QED
      BY <3>1, <3>2 DEF Instr
  <2> HIDE DEF decl
  <2>2. CASE VisitPaged(decl)
    <3>1. Visit(decl) /\ req \in Alloc /\ req.segment \in Paged
      BY <2>1, <2>2, RequestType DEF VisitPaged
    <3>2. zir' \in Seq(ZirInstr) /\ result' \in {"running", "ok", "failed"}
      BY <3>1, <2>1, VisitType
    <3> DEFINE pinned == UsesAddress(decl.attrs)
    <3>3. pinned \in BOOLEAN
      BY DEF UsesAddress
    <3> HIDE DEF req, pinned
    <3>4. CASE \E place \in Places(req.segment, req, pinned) :
                 Put(req.segment, req, place, decl.source)
      <4>1. PICK place \in Places(req.segment, req, pinned) :
               Put(req.segment, req, place, decl.source)
        BY <3>4
      <4>2. /\ seg' \in [Paged -> [allocs : Seq(Alloc), used : Nat]]
            /\ text' \in [instructions : Seq(ZnesInstr), allocs : Seq(Alloc), used : Nat]
            /\ DOMAIN allocations' \subseteq Symbols
            /\ \A m \in DOMAIN allocations' : allocations'[m] \in Alloc
            /\ errors' \in Nat
        BY <4>1, <3>1, <3>3, <2>1, PutType
      <4> QED
        BY <4>2, <3>2 DEF TypeOK
    <3>5. CASE Fails
      BY <3>5, <3>2, <1>0 DEF Fails, TypeOK
    <3> QED
      BY <2>2, <3>4, <3>5 DEF VisitPaged, req, pinned
  <2>3. CASE VisitText(decl)
    <3>1. Visit(decl) /\ req \in Alloc /\ req.name = decl.dest
      BY <2>1, <2>3, RequestType DEF VisitText
    <3>2. zir' \in Seq(ZirInstr) /\ result' \in {"running", "ok", "failed"}
      BY <3>1, <2>1, VisitType
    <3>3. DOMAIN allocations' \subseteq Symbols
          /\ \A m \in DOMAIN allocations' : allocations'[m] \in Alloc
      BY <3>1, <2>3, RegisterType DEF VisitText
    <3>4. text' \in [instructions : Seq(ZnesInstr), allocs : Seq(Alloc), used : Nat]
      <4>1. Emit("alloc", req.name, decl.source) \in Seq(ZnesInstr)
        BY <3>1, <2>1, EmitType
      <4>2. Append(text.allocs, req) \in Seq(Alloc)
        BY <1>0, <3>1, AppendProperties
      <4>3. text.used + req.size \in Nat
        BY <1>0, <3>1 DEF Alloc
      <4>4. text' = [instructions |-> Emit("alloc", req.name, decl.source),
                     allocs |-> Append(text.allocs, req), used |-> text.used + req.size]
        BY <2>3 DEF VisitText
      <4> QED
        BY <4>1, <4>2, <4>3, <4>4
    <3> QED
      BY <3>2, <3>3, <3>4, <2>3, <1>0 DEF VisitText, TypeOK
  <2>4. CASE VisitRejected(decl)
    <3>1. zir' \in Seq(ZirInstr) /\ result' \in {"running", "ok", "failed"}
      BY <2>1, <2>4, VisitType DEF VisitRejected
    <3> QED
      BY <3>1, <2>4, <1>0 DEF VisitRejected, Fails, TypeOK
  <2> QED
    BY <1>1, <2>2, <2>3, <2>4 DEF decl
<1>2. CASE VisitVariable
  BY <1>1, <1>2 DEF VisitVariable
<1>3. CASE VisitCast
  <2>1. PICK n \in Temps \ Declared, s \in Sources, t \in Types :
           LET alloc == [name |-> n, type |-> "temp", segment |-> "temp",
                         size |-> t.size, address |-> 0] IN
           /\ Visit(Instr("cast", n, s, t, NoAttributes))
           /\ Register(alloc)
           /\ text' = [text EXCEPT !.instructions = Emit("alloc", n, s)]
           /\ UNCHANGED <<seg, errors>>
    BY <1>3 DEF VisitCast
  <2> DEFINE alloc == [name |-> n, type |-> "temp", segment |-> "temp",
                       size |-> t.size, address |-> 0]
             instr == Instr("cast", n, s, t, NoAttributes)
  <2>2. n \in Symbols /\ instr \in ZirInstr /\ s \in Symbols \cup {NoName}
    BY InstrType DEF Symbols
  <2>3. alloc \in Alloc
    BY <2>2, TypesAssumption DEF Alloc, AllocKinds
  <2> HIDE DEF instr
  <2>4. zir' \in Seq(ZirInstr) /\ result' \in {"running", "ok", "failed"}
    BY <2>1, <2>2, VisitType DEF instr
  <2> HIDE DEF alloc
  <2>5. Register(alloc)
    BY <2>1 DEF alloc
  <2>6. DOMAIN allocations' \subseteq Symbols
        /\ \A m \in DOMAIN allocations' : allocations'[m] \in Alloc
    BY <2>3, <2>5, RegisterType
  <2>7. text' \in [instructions : Seq(ZnesInstr), allocs : Seq(Alloc), used : Nat]
    BY <2>1, <2>2, <1>0, EmitType
  <2> QED
    BY <2>1, <2>4, <2>6, <2>7, <1>0 DEF TypeOK
<1>4. ASSUME NEW op \in {"if_false", "jump"}, NEW s \in Sources, VisitBranch(op, s)
      PROVE  TypeOK'
  <2>1. Instr(op, NoName, s, NoType, NoAttributes) \in ZirInstr /\ s \in Symbols \cup {NoName}
    BY InstrType
  <2>2. zir' \in Seq(ZirInstr) /\ result' \in {"running", "ok", "failed"}
    BY <1>4, <2>1, VisitType DEF VisitBranch
  <2>3. text' \in [instructions : Seq(ZnesInstr), allocs : Seq(Alloc), used : Nat]
    BY <1>4, <2>1, <1>0, EmitType DEF VisitBranch
  <2> QED
    BY <1>4, <2>2, <2>3, <1>0 DEF VisitBranch, TypeOK
<1>5. CASE VisitIfFalse
  BY <1>4, <1>5 DEF VisitIfFalse
<1>6. CASE VisitJump
  BY <1>4, <1>6 DEF VisitJump, Sources
<1>7. CASE Finish
  BY <1>7 DEF Finish, TypeOK
<1>8. CASE UNCHANGED vars
  BY <1>8 DEF vars, TypeOK
<1> QED
  BY <1>2, <1>3, <1>5, <1>6, <1>7, <1>8 DEF Next

\* The state of the pass is well typed after any program: no search returns an
\* address that is not one, and no branch of znes_generate_program leaves a
\* record half built.
THEOREM TypeCorrect == Spec => []TypeOK
<1>1. Init => TypeOK
  BY InitType
<1>2. TypeOK /\ [Next]_vars => TypeOK'
  BY StepType
<1> QED
  BY <1>1, <1>2, PTL DEF Spec
-----------------------------------------------------------------------------
(***************************************************************************)
(* Placement.  While every symbol lies inside its segment, a place that    *)
(* the search returns keeps the list separated: earlier nodes end before   *)
(* the new symbol, it ends before the later ones, and the exceptions are   *)
(* exact aliases.                                                          *)
(***************************************************************************)

\* A separated list is in address order, by its first bytes and by its ends.
LEMMA SeparatedMonotone ==
  ASSUME NEW list \in Seq(Alloc), Separated(list),
         NEW i \in 1..Len(list), NEW j \in 1..Len(list), i <= j
  PROVE  list[i].address <= list[j].address /\ End(list[i]) <= End(list[j])
<1>1. /\ list[i].address \in Nat /\ End(list[i]) \in Nat /\ list[i].address <= End(list[i])
      /\ list[j].address \in Nat /\ End(list[j]) \in Nat /\ list[j].address <= End(list[j])
  BY AllocEnds
<1>2. CASE i = j
  BY <1>1, <1>2
<1>3. CASE i < j
  <2>1. End(list[i]) <= list[j].address \/ SameSpot(list[i], list[j])
    BY <1>3 DEF Separated
  <2>2. SameSpot(list[i], list[j]) =>
          list[i].address = list[j].address /\ End(list[i]) = End(list[j])
    BY DEF SameSpot, End
  <2> QED
    BY <2>1, <2>2, <1>1
<1> QED
  BY <1>2, <1>3

\* A symbol fits at a position of a list when the nodes before it end at or
\* before its address and the others start at or after its end, except for the
\* nodes that it is an alias of.
FitsAt(list, at, e) ==
  /\ \A j \in 1..(at - 1) : End(list[j]) <= e.address \/ SameSpot(list[j], e)
  /\ \A j \in at..Len(list) : End(e) <= list[j].address \/ SameSpot(e, list[j])

\* Inserting a symbol where it fits keeps the list separated.
LEMMA SeparatedInsert ==
  ASSUME NEW list \in Seq(Alloc), NEW e \in Alloc, NEW at \in 1..(Len(list) + 1),
         Separated(list), FitsAt(list, at, e)
  PROVE  Separated(InsertAt(list, at, e))
<1> DEFINE ins == InsertAt(list, at, e)
<1>1. /\ ins \in Seq(Alloc) /\ Len(ins) = Len(list) + 1
      /\ \A j \in 1..(Len(list) + 1) :
           ins[j] = IF j < at THEN list[j] ELSE IF j = at THEN e ELSE list[j - 1]
  BY InsertAtFacts
<1> HIDE DEF ins
<1> SUFFICES ASSUME NEW i \in 1..(Len(list) + 1), NEW j \in 1..(Len(list) + 1), i < j
             PROVE  End(ins[i]) <= ins[j].address \/ SameSpot(ins[i], ins[j])
  <2>1. DOMAIN ins = 1..(Len(list) + 1)
    BY <1>1
  <2> QED
    BY <2>1 DEF Separated, ins
<1>2. \A a, b \in 1..Len(list) :
        a < b => End(list[a]) <= list[b].address \/ SameSpot(list[a], list[b])
  BY DEF Separated
<1>3. CASE i < at /\ j < at
  <2>1. ins[i] = list[i] /\ ins[j] = list[j] /\ i \in 1..Len(list) /\ j \in 1..Len(list)
    BY <1>1, <1>3
  <2> QED
    BY <2>1, <1>2
<1>4. CASE i < at /\ j = at
  <2>1. ins[i] = list[i] /\ ins[j] = e /\ i \in 1..(at - 1)
    BY <1>1, <1>4
  <2> QED
    BY <2>1 DEF FitsAt
<1>5. CASE i < at /\ j > at
  <2>1. ins[i] = list[i] /\ ins[j] = list[j - 1]
        /\ i \in 1..Len(list) /\ j - 1 \in 1..Len(list) /\ i < j - 1
    BY <1>1, <1>5
  <2> QED
    BY <2>1, <1>2
<1>6. CASE i = at
  <2>1. ins[i] = e /\ ins[j] = list[j - 1] /\ j - 1 \in at..Len(list)
    BY <1>1, <1>6
  <2> QED
    BY <2>1 DEF FitsAt
<1>7. CASE i > at
  <2>1. ins[i] = list[i - 1] /\ ins[j] = list[j - 1]
        /\ i - 1 \in 1..Len(list) /\ j - 1 \in 1..Len(list) /\ i - 1 < j - 1
    BY <1>1, <1>7
  <2> QED
    BY <2>1, <1>2
<1> QED
  BY <1>3, <1>4, <1>5, <1>6, <1>7

\* An address that fits in 16 bits is not changed by the cast to uint16_t.
LEMMA NoWrap ==
  ASSUME NEW a \in Nat, NEW b \in Nat, a < b PROVE a % b = a
  BY SMT

\* An automatic symbol that ends up inside its segment fits where the search
\* puts it, and it is no alias.  The only append that could break the order is the one that wraps
\* around the address space, and it leaves DATA.
LEMMA AutoFits ==
  ASSUME NEW k \in Paged, NEW list \in Seq(Alloc), Separated(list),
         \A i \in DOMAIN list : InSegment(k, list[i]),
         NEW e \in Alloc, InSegment(k, e),
         NEW place \in AutoPlaces(k, list, e.size), e.address = place.address
  PROVE  FitsAt(list, place.at, e) /\ \A j \in DOMAIN list : Apart(list[j], e)
<1>1. \A i \in 1..Len(list) :
        /\ list[i].address \in Nat /\ End(list[i]) \in Nat
        /\ list[i].address <= End(list[i]) /\ End(list[i]) <= Top(k) + 1
  BY AllocEnds DEF InSegment
<1>2. e.address \in Nat /\ e.size \in Nat /\ End(e) = e.address + e.size /\ Base(k) <= e.address
  BY DEF Alloc, End, InSegment
<1>3. Base(k) \in Nat
  BY LimitsAssumption DEF Base
<1>4. CASE list = <<>>
  <2>1. place.at = 1
    BY <1>4 DEF AutoPlaces, Place
  <2> QED
    BY <1>4, <2>1 DEF FitsAt
<1>5. ASSUME NEW i \in DOMAIN list, i # Len(list), FitsInGap(k, list, e.size, i),
             place = Place(i, Probe(k, list, i), FALSE)
      PROVE  FitsAt(list, place.at, e) /\ \A j \in DOMAIN list : Apart(list[j], e)
  <2>1. i \in 1..Len(list)
    OBVIOUS
  <2>2. place.at = i /\ e.address = Probe(k, list, i) /\ End(e) <= list[i].address
    BY <1>2, <1>5 DEF Place, FitsInGap
  <2>3. ASSUME NEW j \in 1..(i - 1) PROVE End(list[j]) <= e.address
    <3>1. i - 1 \in 1..Len(list) /\ j \in 1..Len(list) /\ j <= i - 1
      BY <2>1
    <3>2. e.address = End(list[i - 1])
      BY <2>1, <2>2, <3>1 DEF Probe
    <3> QED
      BY <3>1, <3>2, SeparatedMonotone
  <2>4. ASSUME NEW j \in i..Len(list) PROVE End(e) <= list[j].address
    <3>1. j \in 1..Len(list) /\ i <= j
      BY <2>1
    <3>2. list[i].address <= list[j].address
      BY <2>1, <3>1, SeparatedMonotone
    <3> QED
      BY <1>1, <1>2, <2>1, <2>2, <3>1, <3>2
  <2>5. ASSUME NEW j \in DOMAIN list PROVE j \in 1..(i - 1) \/ j \in i..Len(list)
    BY <2>1
  <2> QED
    BY <2>2, <2>3, <2>4, <2>5 DEF FitsAt, Apart
<1>6. ASSUME NEW i \in DOMAIN list, i = Len(list),
             place = Place(i + 1, End(list[i]) % (AddrMax + 1), FALSE)
      PROVE  FitsAt(list, place.at, e) /\ \A j \in DOMAIN list : Apart(list[j], e)
  <2>1. i \in 1..Len(list)
    OBVIOUS
  <2>2. place.at = Len(list) + 1 /\ e.address = End(list[i]) % (AddrMax + 1)
    BY <1>6 DEF Place
  <2>3. e.address = End(list[i])
    <3>1. CASE k = "zp"
      <4>1. End(list[i]) <= ZpMax + 1
        BY <1>1, <2>1, <3>1 DEF Top
      <4>2. End(list[i]) \in Nat /\ AddrMax + 1 \in Nat /\ End(list[i]) < AddrMax + 1
        BY <4>1, <1>1, <2>1, LimitsAssumption
      <4> QED
        BY <4>2, <2>2, NoWrap
    <3>2. CASE k = "data"
      <4>1. End(list[i]) <= AddrMax + 1 /\ DataBase <= e.address /\ DataBase > 0
        BY <1>1, <1>2, <2>1, <3>2, LimitsAssumption DEF Top, Base
      <4>2. End(list[i]) # AddrMax + 1
        BY <4>1, <2>2, LimitsAssumption
      <4>3. End(list[i]) \in Nat /\ AddrMax + 1 \in Nat /\ End(list[i]) < AddrMax + 1
        <5>1. End(list[i]) \in Nat
          BY <1>1, <2>1
        <5>2. AddrMax \in Nat
          BY LimitsAssumption
        <5> QED
          BY <5>1, <5>2, <4>1, <4>2
      <4> QED
        BY <4>3, <2>2, NoWrap
    <3> QED
      BY <3>1, <3>2
  <2>4. ASSUME NEW j \in 1..Len(list) PROVE End(list[j]) <= e.address
    <3>1. j <= i
      BY <1>6
    <3> QED
      BY <3>1, <2>1, <2>3, SeparatedMonotone
  <2> QED
    BY <2>2, <2>4 DEF FitsAt, Apart
<1> QED
  <2>1. CASE list # <<>>
    BY <2>1, <1>5, <1>6 DEF AutoPlaces
  <2> QED
    BY <2>1, <1>4

\* A pinned symbol that meets every node on its own bytes or as an exact alias
\* fits where the search puts it, which knows the aliases: a node that did not stop the search is free
\* of the symbol and not after it, so it is before it.
LEMMA PinFits ==
  ASSUME NEW list \in Seq(Alloc), Separated(list), NEW req \in Alloc,
         \A i \in DOMAIN list : SameSpot(list[i], req) \/ Apart(list[i], req),
         NEW place \in PinPlaces(list, req)
  PROVE  /\ FitsAt(list, place.at, req)
         /\ place.aliased => \E i \in DOMAIN list : SameSpot(list[i], req)
         /\ ~place.aliased => \A j \in DOMAIN list : Apart(list[j], req)
<1>1. \A i \in 1..Len(list) :
        /\ list[i].address \in Nat /\ End(list[i]) \in Nat
        /\ list[i].address <= End(list[i])
  BY AllocEnds
<1>2. req.address \in Nat /\ End(req) \in Nat /\ req.address <= End(req)
  BY DEF Alloc, End
<1>3. CASE list = <<>>
  <2>1. place.at = 1 /\ ~place.aliased
    BY <1>3 DEF PinPlaces, Place
  <2> QED
    BY <1>3, <2>1 DEF FitsAt
<1>4. CASE list # <<>>
  <2>1. PICK i \in DOMAIN list :
          /\ PinStopsAt(list, req, i)
          /\ \A j \in 1..(i - 1) : ~PinStopsAt(list, req, j)
          /\ place = Place(IF ~SameSpot(list[i], req) /\ PinFitsAtEnd(list, req, i)
                           THEN i + 1 ELSE i, req.address, SameSpot(list[i], req))
    BY <1>4 DEF PinPlaces
  <2>2. i \in 1..Len(list)
    OBVIOUS
  <2>3. ASSUME NEW j \in 1..(i - 1) PROVE End(list[j]) <= req.address
    <3>1. j \in DOMAIN list
      BY <2>2
    <3>2. ~SameSpot(list[j], req) /\ ~PinFitsBefore(list, req, j)
      BY <2>1 DEF PinStopsAt
    <3> QED
      BY <3>1, <3>2 DEF Apart, PinFitsBefore
  <2>4. ASSUME NEW j \in i..Len(list)
        PROVE  /\ j \in 1..Len(list)
               /\ list[i].address <= list[j].address
               /\ End(list[i]) <= list[j].address \/ SameSpot(list[i], list[j])
    <3>1. j \in 1..Len(list) /\ i <= j
      BY <2>2
    <3>2. list[i].address <= list[j].address
      BY <2>2, <3>1, SeparatedMonotone
    <3>3. End(list[i]) <= list[j].address \/ SameSpot(list[i], list[j])
      BY <2>2, <3>1 DEF Separated, SameSpot
    <3> QED
      BY <3>1, <3>2, <3>3
  <2>5. CASE SameSpot(list[i], req)
    <3>1. place.at = i /\ place.aliased
      BY <2>1, <2>5 DEF Place
    <3>2. ASSUME NEW j \in i..Len(list)
          PROVE  End(req) <= list[j].address \/ SameSpot(req, list[j])
      BY <2>4, <2>5 DEF SameSpot, End
    <3> QED
      BY <3>1, <3>2, <2>3, <2>5 DEF FitsAt
  <2>6. CASE ~SameSpot(list[i], req) /\ PinFitsAtEnd(list, req, i)
    <3>1. place.at = i + 1 /\ ~place.aliased /\ i = Len(list) /\ End(list[i]) <= req.address
      BY <2>1, <2>2, <2>6, <1>1, <1>2 DEF Place, PinFitsAtEnd
    <3>2. \A j \in 1..i : End(list[j]) <= req.address
      BY <3>1, <2>2, <2>3
    <3> QED
      BY <3>1, <3>2, <2>2 DEF FitsAt, Apart
  <2>7. CASE ~SameSpot(list[i], req) /\ ~PinFitsAtEnd(list, req, i)
    <3>1. place.at = i /\ ~place.aliased
      BY <2>1, <2>7 DEF Place
    <3>2. End(req) <= list[i].address
      BY <2>1, <2>7 DEF PinStopsAt, PinFitsBefore
    <3>3. ASSUME NEW j \in i..Len(list) PROVE End(req) <= list[j].address
      BY <2>2, <2>4, <3>2, <1>1, <1>2
    <3>4. ASSUME NEW j \in DOMAIN list PROVE j \in 1..(i - 1) \/ j \in i..Len(list)
      BY <2>2
    <3> QED
      BY <3>1, <3>3, <3>4, <2>3 DEF FitsAt, Apart
  <2> QED
    BY <2>5, <2>6, <2>7
<1> QED
  BY <1>3, <1>4

\* A step that leaves the segments alone keeps them separated.
LEMMA PlacementUnchanged ==
  ASSUME PlacementSafe, UNCHANGED seg PROVE PlacementSafe'
  BY DEF PlacementSafe, WithinSegment, Separated

\* Segment k takes an allocation at position `at` of its list.
Inserts(k, at, alloc) ==
  /\ at \in 1..(Len(seg[k].allocs) + 1)
  /\ seg'[k].allocs = InsertAt(seg[k].allocs, at, alloc)
  /\ \A m \in Paged \ {k} : seg'[m] = seg[m]

\* The position is right if the list was in order, nothing is outside the
\* segment and programs pin symbols on free bytes or exact aliases.
Fits(k, at, alloc) ==
  CollidingPins = FALSE /\ Separated(seg[k].allocs) /\ WithinSegment(k) /\ InSegment(k, alloc)
    => FitsAt(seg[k].allocs, at, alloc)

\* Under the same conditions, `used` grows by the size of a symbol on free bytes and
\* does not change for an alias.
Accounts(k, alloc) ==
  CollidingPins = FALSE /\ Separated(seg[k].allocs) /\ WithinSegment(k) /\ InSegment(k, alloc)
    => \/ /\ seg'[k].used = seg[k].used
          /\ \E i \in DOMAIN seg[k].allocs : SameSpot(seg[k].allocs[i], alloc)
       \/ /\ seg'[k].used = seg[k].used + alloc.size
          /\ \A i \in DOMAIN seg[k].allocs : Apart(seg[k].allocs[i], alloc)

\* What a step that gives a symbol a place does to the table of names and to the lists.
Records(alloc) ==
  /\ alloc \in Alloc
  /\ alloc.name \notin Declared
  /\ Declared \cup {alloc.name} \subseteq Declared'
  /\ Register(alloc)
  /\ \/ alloc.segment \notin Paged /\ UNCHANGED seg
     \/ /\ alloc.segment \in Paged
        /\ \E at \in Nat : Inserts(alloc.segment, at, alloc) /\ Fits(alloc.segment, at, alloc)
        /\ Accounts(alloc.segment, alloc)

\* Visiting an instruction declares its destination.
LEMMA VisitDeclares ==
  ASSUME TypeOK, NEW instr \in ZirInstr, Visit(instr)
  PROVE  /\ Declared \subseteq Declared'
         /\ instr.dest # NoName => instr.dest \in Declared'
<1>1. zir \in Seq(ZirInstr) /\ zir' = Append(zir, instr)
  BY DEF TypeOK, Visit
<1>2. /\ DOMAIN zir = 1..Len(zir) /\ DOMAIN zir' = 1..(Len(zir) + 1) /\ Len(zir) \in Nat
      /\ \A i \in 1..Len(zir) : zir'[i] = zir[i]
      /\ zir'[Len(zir) + 1] = instr
  BY <1>1
<1> QED
  BY <1>2 DEF Declared

\* Putting a request at the place that the search returned is a recording.
LEMMA PutRecords ==
  ASSUME TypeOK, NEW req \in Alloc, req.segment \in Paged, NEW pinned \in BOOLEAN,
         pinned => PinAllowed(req.segment, req),
         NEW place \in Places(req.segment, req, pinned), NEW source \in Symbols \cup {NoName},
         Put(req.segment, req, place, source),
         req.name \notin Declared, Declared \cup {req.name} \subseteq Declared'
  PROVE  Records([req EXCEPT !.address = place.address])
<1> DEFINE k == req.segment
           list == seg[k].allocs
           alloc == [req EXCEPT !.address = place.address]
<1>1. /\ list \in Seq(Alloc)
      /\ seg \in [Paged -> [allocs : Seq(Alloc), used : Nat]]
  BY DEF TypeOK
<1>2. alloc \in Alloc
  BY PutType
<1>3. /\ alloc.address = place.address /\ alloc.size = req.size /\ alloc.type = req.type
      /\ alloc.name = req.name /\ alloc.segment = k
  BY DEF Alloc
<1>4. place.at \in 1..(Len(list) + 1)
  <2>1. req.size \in Nat
    BY DEF Alloc
  <2>2. CASE place \in PinPlaces(list, req)
    BY <2>2, <1>1, PinPlacesType
  <2>3. CASE place \in AutoPlaces(k, list, req.size)
    BY <2>1, <2>3, <1>1, AutoPlacesType
  <2> QED
    BY <2>2, <2>3 DEF Places
<1>5. /\ seg'[k].allocs = InsertAt(list, place.at, alloc)
      /\ \A m \in Paged \ {k} : seg'[m] = seg[m]
      /\ Register(alloc)
      /\ seg'[k].used = UsedAfter(k, req, place)
  BY <1>1 DEF Put
<1> HIDE DEF alloc
<1>6. Inserts(k, place.at, alloc)
  BY <1>4, <1>5 DEF Inserts
<1>7. Fits(k, place.at, alloc) /\ Accounts(k, alloc)
  <2> SUFFICES ASSUME CollidingPins = FALSE, Separated(list), WithinSegment(k), InSegment(k, alloc)
               PROVE  /\ FitsAt(list, place.at, alloc)
                      /\ place.aliased => \E i \in DOMAIN list : SameSpot(list[i], alloc)
                      /\ ~place.aliased => \A i \in DOMAIN list : Apart(list[i], alloc)
    BY <1>3, <1>5 DEF Fits, Accounts, UsedAfter
  <2>1. CASE pinned
    <3>1. place \in PinPlaces(list, req)
      BY <2>1 DEF Places
    <3>2. place.address = req.address
      BY <3>1, <1>1, PinPlacesType
    <3>3. \A i \in DOMAIN list : SameSpot(list[i], req) \/ Apart(list[i], req)
      BY <2>1 DEF PinAllowed
    <3> HIDE DEF list
    <3>4. /\ FitsAt(list, place.at, req)
          /\ place.aliased => \E i \in DOMAIN list : SameSpot(list[i], req)
          /\ ~place.aliased => \A i \in DOMAIN list : Apart(list[i], req)
      BY <3>1, <3>3, <1>1, PinFits
    <3> QED
      BY <3>2, <3>4, <1>3 DEF FitsAt, SameSpot, Apart, End
  <2>2. CASE ~pinned
    <3>1. place \in AutoPlaces(k, list, req.size)
      BY <2>2 DEF Places
    <3>2. \A i \in DOMAIN list : InSegment(k, list[i])
      BY DEF WithinSegment
    <3>3. req.size \in Nat
      BY DEF Alloc
    <3> HIDE DEF list
    <3>4. ~place.aliased
      BY <3>1, <3>3, <1>1, AutoPlacesType
    <3> QED
      BY <3>1, <3>2, <3>4, <1>1, <1>2, <1>3, AutoFits
  <2> QED
    BY <2>1, <2>2
<1>8. place.at \in Nat
  BY <1>4, <1>1
<1> QED
  BY <1>2, <1>3, <1>5, <1>6, <1>7, <1>8 DEF Records, alloc

\* A step records one symbol or leaves the lists and the table of names alone.
LEMMA StepRecords ==
  ASSUME TypeOK, [Next]_vars
  PROVE  \/ UNCHANGED <<seg, allocations>> /\ Declared \subseteq Declared'
         \/ \E alloc \in Alloc : Records(alloc)
<1>1. ASSUME NEW n \in Names \ Declared, NEW s \in Sources, NEW t \in Types, NEW a \in Attributes,
             \/ VisitPaged(Instr("variable", n, s, t, a))
             \/ VisitText(Instr("variable", n, s, t, a))
             \/ VisitRejected(Instr("variable", n, s, t, a))
      PROVE  \/ UNCHANGED <<seg, allocations>> /\ Declared \subseteq Declared'
             \/ \E alloc \in Alloc : Records(alloc)
  <2> DEFINE decl == Instr("variable", n, s, t, a)
             req == Request(decl)
             pinned == UsesAddress(decl.attrs)
  <2>1. /\ decl \in ZirInstr /\ decl.dest = n /\ n \in Symbols /\ n # NoName
        /\ decl.type \in Types /\ decl.source \in Symbols \cup {NoName}
    <3>1. n \in Symbols
      BY DEF Symbols
    <3>2. decl \in ZirInstr /\ s \in Symbols \cup {NoName}
      BY <3>1, InstrType
    <3> QED
      BY <3>1, <3>2, NamesAssumption DEF Instr, Symbols
  <2> HIDE DEF decl
  <2>2. Visit(decl)
    BY <1>1 DEF decl, VisitPaged, VisitText, VisitRejected
  <2>3. Declared \subseteq Declared' /\ n \in Declared'
    BY <2>1, <2>2, VisitDeclares
  <2>4. pinned \in BOOLEAN
    BY DEF UsesAddress
  <2>5. ASSUME ~RequestRejected(decl.attrs)
        PROVE  req \in Alloc /\ req.name = n
    BY <2>1, <2>5, RequestType
  <2> HIDE DEF pinned, req
  <2>6. CASE VisitRejected(decl)
    BY <2>6, <2>3 DEF VisitRejected, Fails
  <2>7. CASE VisitText(decl)
    <3>1. /\ ~RequestRejected(decl.attrs) /\ req.segment = "text"
          /\ Register(req) /\ UNCHANGED seg
      BY <2>7 DEF VisitText, req
    <3>2. Records(req)
      BY <3>1, <2>3, <2>5 DEF Records
    <3> QED
      BY <3>1, <3>2, <2>5
  <2>8. CASE VisitPaged(decl)
    <3>1. /\ ~RequestRejected(decl.attrs) /\ req.segment \in Paged
          /\ pinned => PinAllowed(req.segment, req)
          /\ \/ \E place \in Places(req.segment, req, pinned) :
                  Put(req.segment, req, place, decl.source)
             \/ Fails
      BY <2>8 DEF VisitPaged, req, pinned
    <3>2. CASE Fails
      BY <3>2, <2>3 DEF Fails
    <3>3. ASSUME NEW place \in Places(req.segment, req, pinned),
                 Put(req.segment, req, place, decl.source)
          PROVE  \E alloc \in Alloc : Records(alloc)
      <4>1. Records([req EXCEPT !.address = place.address])
        BY <3>1, <3>3, <2>1, <2>3, <2>4, <2>5, PutRecords
      <4> QED
        BY <4>1 DEF Records
    <3> QED
      BY <3>1, <3>2, <3>3
  <2> QED
    BY <1>1, <2>6, <2>7, <2>8 DEF decl
<1>2. CASE VisitVariable
  BY <1>1, <1>2 DEF VisitVariable
<1>3. CASE VisitCast
  <2>1. PICK n \in Temps \ Declared, s \in Sources, t \in Types :
           LET alloc == [name |-> n, type |-> "temp", segment |-> "temp",
                         size |-> t.size, address |-> 0] IN
           /\ Visit(Instr("cast", n, s, t, NoAttributes))
           /\ Register(alloc)
           /\ UNCHANGED <<seg, errors>>
    BY <1>3 DEF VisitCast
  <2> DEFINE alloc == [name |-> n, type |-> "temp", segment |-> "temp",
                       size |-> t.size, address |-> 0]
             instr == Instr("cast", n, s, t, NoAttributes)
  <2>2. instr \in ZirInstr /\ instr.dest = n /\ n # NoName
    BY InstrType, NamesAssumption DEF Instr, Symbols
  <2>3. alloc \in Alloc
    BY TypesAssumption DEF Alloc, AllocKinds, Symbols
  <2> HIDE DEF instr
  <2>4. Declared \subseteq Declared' /\ n \in Declared'
    BY <2>1, <2>2, VisitDeclares DEF instr
  <2>5. Records(alloc)
    BY <2>1, <2>3, <2>4 DEF Records
  <2> QED
    BY <2>3, <2>5
<1>4. ASSUME NEW op \in {"if_false", "jump"}, NEW s \in Sources, VisitBranch(op, s)
      PROVE  UNCHANGED <<seg, allocations>> /\ Declared \subseteq Declared'
  BY <1>4, InstrType, VisitDeclares DEF VisitBranch
<1>5. CASE VisitIfFalse
  BY <1>4, <1>5 DEF VisitIfFalse
<1>6. CASE VisitJump
  BY <1>4, <1>6 DEF VisitJump, Sources
<1>7. CASE Finish \/ UNCHANGED vars
  BY <1>7 DEF Finish, vars, Declared
<1> QED
  BY <1>2, <1>3, <1>5, <1>6, <1>7 DEF Next

\* What is in a list after an insertion: the new allocation and the old ones.
LEMMA InsertsElements ==
  ASSUME TypeOK, NEW k \in Paged, NEW alloc \in Alloc, NEW at \in Nat, Inserts(k, at, alloc)
  PROVE  /\ \A i \in DOMAIN seg[k].allocs :
              \E j \in DOMAIN seg'[k].allocs : seg'[k].allocs[j] = seg[k].allocs[i]
         /\ \A j \in DOMAIN seg'[k].allocs :
              \/ seg'[k].allocs[j] = alloc
              \/ \E i \in DOMAIN seg[k].allocs : seg'[k].allocs[j] = seg[k].allocs[i]
         /\ \E j \in DOMAIN seg'[k].allocs : seg'[k].allocs[j] = alloc
<1> DEFINE list == seg[k].allocs
           ins == seg'[k].allocs
<1>1. list \in Seq(Alloc) /\ at \in 1..(Len(list) + 1) /\ ins = InsertAt(list, at, alloc)
  BY DEF TypeOK, Inserts
<1> HIDE DEF list, ins
<1>2. /\ ins \in Seq(Alloc) /\ Len(ins) = Len(list) + 1
      /\ \A j \in 1..(Len(list) + 1) :
           ins[j] = IF j < at THEN list[j] ELSE IF j = at THEN alloc ELSE list[j - 1]
  BY <1>1, InsertAtFacts
<1>3. Len(list) \in Nat /\ DOMAIN list = 1..Len(list) /\ DOMAIN ins = 1..(Len(list) + 1)
  BY <1>1, <1>2
<1>4. ASSUME NEW i \in 1..Len(list) PROVE \E j \in 1..(Len(list) + 1) : ins[j] = list[i]
  <2>1. CASE i < at
    <3>1. ins[i] = list[i] /\ i \in 1..(Len(list) + 1)
      BY <2>1, <1>2, <1>3
    <3> QED
      BY <3>1
  <2>2. CASE i >= at
    <3>1. ins[i + 1] = list[i] /\ i + 1 \in 1..(Len(list) + 1)
      BY <2>2, <1>1, <1>2, <1>3
    <3> QED
      BY <3>1
  <2> QED
    BY <2>1, <2>2, <1>1
<1>5. ASSUME NEW j \in 1..(Len(list) + 1)
      PROVE  ins[j] = alloc \/ \E i \in 1..Len(list) : ins[j] = list[i]
  <2>1. CASE j < at
    <3>1. ins[j] = list[j] /\ j \in 1..Len(list)
      BY <2>1, <1>1, <1>2, <1>3
    <3> QED
      BY <3>1
  <2>2. CASE j > at
    <3>1. ins[j] = list[j - 1] /\ j - 1 \in 1..Len(list)
      BY <2>2, <1>1, <1>2, <1>3
    <3> QED
      BY <3>1
  <2>3. CASE j = at
    BY <2>3, <1>2
  <2> QED
    BY <2>1, <2>2, <2>3, <1>1
<1>6. ins[at] = alloc /\ at \in 1..(Len(list) + 1)
  BY <1>1, <1>2
<1> QED
  BY <1>3, <1>4, <1>5, <1>6 DEF list, ins

\* Recording a symbol keeps the segments separated, as long as their symbols
\* stay inside.
LEMMA RecordsPlacement ==
  ASSUME CollidingPins = FALSE, TypeOK, PlacementSafe, NEW alloc \in Alloc, Records(alloc)
  PROVE  PlacementSafe'
<1> DEFINE k == alloc.segment
           list == seg[k].allocs
<1>1. CASE UNCHANGED seg
  BY <1>1, PlacementUnchanged
<1>2. CASE k \in Paged /\ \E at \in Nat : Inserts(k, at, alloc) /\ Fits(k, at, alloc)
  <2>1. PICK at \in Nat : Inserts(k, at, alloc) /\ Fits(k, at, alloc)
    BY <1>2
  <2>2. list \in Seq(Alloc)
    BY <1>2 DEF TypeOK
  <2>3. ASSUME WithinSegment(k)' PROVE Separated(seg'[k].allocs)
    <3>1. \A j \in DOMAIN seg'[k].allocs : InSegment(k, seg'[k].allocs[j])
      BY <2>3 DEF WithinSegment, InSegment
    <3>2. WithinSegment(k) /\ InSegment(k, alloc)
      BY <3>1, <2>1, <1>2, InsertsElements DEF WithinSegment
    <3>3. Separated(list)
      BY <3>2, <1>2 DEF PlacementSafe
    <3>4. FitsAt(list, at, alloc)
      BY <3>2, <3>3, <2>1 DEF Fits
    <3>5. at \in 1..(Len(list) + 1) /\ seg'[k].allocs = InsertAt(list, at, alloc)
      BY <2>1 DEF Inserts
    <3> HIDE DEF list
    <3> QED
      BY <3>3, <3>4, <3>5, <2>2, SeparatedInsert
  <2>4. ASSUME NEW m \in Paged, WithinSegment(m)', m # k PROVE Separated(seg'[m].allocs)
    <3>1. seg'[m] = seg[m]
      BY <2>1, <2>4 DEF Inserts
    <3>2. WithinSegment(m)
      BY <3>1, <2>4 DEF WithinSegment, InSegment
    <3> QED
      BY <3>1, <3>2 DEF PlacementSafe
  <2> QED
    BY <2>3, <2>4 DEF PlacementSafe, Separated
<1> QED
  BY <1>1, <1>2 DEF Records

\* Every step keeps the symbols apart.
LEMMA StepPlacement ==
  ASSUME CollidingPins = FALSE, TypeOK, PlacementSafe, [Next]_vars
  PROVE  PlacementSafe'
  BY StepRecords, PlacementUnchanged, RecordsPlacement

\* What the inductive argument rests on: the search reads well typed lists, and
\* each list was separated before.
PlacementInv == TypeOK /\ PlacementSafe

\* The first-fit search never puts a symbol on bytes that another one owns, for
\* any number and sizes of symbols and any sizes of the segments, in programs
\* that pin symbols on free bytes or on exact aliases.
THEOREM PlacementCorrect ==
  ASSUME CollidingPins = FALSE PROVE Spec => []PlacementSafe
<1>1. Init => PlacementInv
  <2>1. Init => \A k \in Paged : seg[k].allocs = <<>>
    BY DEF Init
  <2> QED
    BY <2>1, InitType DEF PlacementInv, PlacementSafe, Separated
<1>2. PlacementInv /\ [Next]_vars => PlacementInv'
  BY StepType, StepPlacement DEF PlacementInv
<1>3. PlacementInv => PlacementSafe
  BY DEF PlacementInv
<1> QED
  BY <1>1, <1>2, <1>3, PTL DEF Spec
-----------------------------------------------------------------------------
(***************************************************************************)
(* The instructions.  A step of the visitor either reports an error or     *)
(* adds one instruction to each of the two programs.                       *)
(***************************************************************************)

NesOp(op) == IF op \in {"variable", "cast"} THEN "alloc" ELSE op

\* What a step without an error does: instr is the ZIR instruction it visits.
Copies(instr) ==
  /\ instr.source \in Sources
  /\ instr.dest # NoName => instr.dest \in DOMAIN allocations'
  /\ DOMAIN allocations \subseteq DOMAIN allocations'
  /\ zir' = Append(zir, instr)
  /\ text'.instructions = Append(text.instructions,
       [op |-> NesOp(instr.op), dest |-> instr.dest, source |-> Operand(instr.source)])
  /\ errors' = errors
  /\ result = "running" /\ result' = "running"

\* Registering a symbol keeps every earlier name and adds its own.
LEMMA RegisterDomain ==
  ASSUME NEW alloc, Register(alloc)
  PROVE  DOMAIN allocations \subseteq DOMAIN allocations' /\ alloc.name \in DOMAIN allocations'
  BY DEF Register

\* Every visit copies its instruction or counts an error.
LEMMA StepShape ==
  ASSUME TypeOK, Next
  PROVE  \/ Finish
         \/ errors' = errors + 1 /\ result' = "running"
         \/ \E instr \in ZirInstr : Copies(instr)
<1>0. text \in [instructions : Seq(ZnesInstr), allocs : Seq(Alloc), used : Nat]
  BY DEF TypeOK
<1>1. ASSUME NEW n \in Names \ Declared, NEW s \in Sources, NEW t \in Types, NEW a \in Attributes,
             \/ VisitPaged(Instr("variable", n, s, t, a))
             \/ VisitText(Instr("variable", n, s, t, a))
             \/ VisitRejected(Instr("variable", n, s, t, a))
      PROVE  \/ errors' = errors + 1 /\ result' = "running"
             \/ \E instr \in ZirInstr : Copies(instr)
  <2> DEFINE decl == Instr("variable", n, s, t, a)
             req == Request(decl)
  <2>1. /\ decl \in ZirInstr
        /\ decl.op = "variable" /\ decl.dest = n /\ decl.source = s /\ req.name = n
    BY InstrType DEF Instr, Request, Symbols
  <2> HIDE DEF decl
  <2>2. CASE VisitRejected(decl)
    BY <2>2 DEF VisitRejected, Fails, Visit
  <2>3. CASE VisitText(decl)
    <3>1. Register(req) /\ text'.instructions = Emit("alloc", req.name, decl.source)
          /\ errors' = errors /\ Visit(decl)
      BY <2>3 DEF VisitText
    <3>2. Copies(decl)
      <4>1. n \in DOMAIN allocations' /\ DOMAIN allocations \subseteq DOMAIN allocations'
        BY <3>1, <2>1, RegisterDomain
      <4> QED
        BY <4>1, <3>1, <2>1 DEF Copies, Visit, Emit, NesOp
    <3> QED
      BY <3>2, <2>1
  <2>4. CASE VisitPaged(decl)
    <3>1. Visit(decl)
      BY <2>4 DEF VisitPaged
    <3>2. CASE Fails
      BY <3>1, <3>2 DEF Fails, Visit
    <3>3. ASSUME NEW place, Put(req.segment, req, place, decl.source)
          PROVE  Copies(decl)
      <4> DEFINE alloc == [req EXCEPT !.address = place.address]
      <4>1. Register(alloc) /\ text' = [text EXCEPT !.instructions = Emit("alloc", req.name, decl.source)]
            /\ errors' = errors
        BY <3>3 DEF Put
      <4>2. alloc.name = n
        BY <2>1 DEF Request
      <4> HIDE DEF alloc
      <4>3. n \in DOMAIN allocations' /\ DOMAIN allocations \subseteq DOMAIN allocations'
        BY <4>1, <4>2, RegisterDomain
      <4>4. text'.instructions = Emit("alloc", req.name, decl.source)
        BY <4>1, <1>0
      <4> QED
        BY <4>1, <4>3, <4>4, <3>1, <2>1 DEF Copies, Visit, Emit, NesOp
    <3> QED
      BY <2>1, <2>4, <3>2, <3>3 DEF VisitPaged
  <2> QED
    BY <1>1, <2>2, <2>3, <2>4 DEF decl
<1>2. CASE VisitVariable
  BY <1>1, <1>2 DEF VisitVariable
<1>3. CASE VisitCast
  <2>1. PICK n \in Temps \ Declared, s \in Sources, t \in Types :
           LET alloc == [name |-> n, type |-> "temp", segment |-> "temp",
                         size |-> t.size, address |-> 0] IN
           /\ Visit(Instr("cast", n, s, t, NoAttributes))
           /\ Register(alloc)
           /\ text' = [text EXCEPT !.instructions = Emit("alloc", n, s)]
           /\ UNCHANGED <<seg, errors>>
    BY <1>3 DEF VisitCast
  <2> DEFINE alloc == [name |-> n, type |-> "temp", segment |-> "temp",
                       size |-> t.size, address |-> 0]
             instr == Instr("cast", n, s, t, NoAttributes)
  <2>2. instr \in ZirInstr /\ instr.op = "cast" /\ instr.dest = n /\ instr.source = s
    BY InstrType DEF Instr, Symbols
  <2>3. alloc.name = n
    OBVIOUS
  <2> HIDE DEF instr, alloc
  <2>4. n \in DOMAIN allocations' /\ DOMAIN allocations \subseteq DOMAIN allocations'
    BY <2>1, <2>3, RegisterDomain DEF alloc
  <2>5. text'.instructions = Emit("alloc", n, s)
    BY <2>1, <1>0
  <2>6. Visit(instr) /\ errors' = errors
    BY <2>1 DEF instr
  <2>7. Copies(instr)
    BY <2>2, <2>4, <2>5, <2>6 DEF Copies, Visit, Emit, NesOp
  <2> QED
    BY <2>2, <2>7
<1>4. ASSUME NEW op \in {"if_false", "jump"}, NEW s \in Sources, VisitBranch(op, s)
      PROVE  \E instr \in ZirInstr : Copies(instr)
  <2> DEFINE instr == Instr(op, NoName, s, NoType, NoAttributes)
  <2>1. instr \in ZirInstr /\ instr.op = op /\ instr.dest = NoName /\ instr.source = s
    BY InstrType DEF Instr
  <2> HIDE DEF instr
  <2>2. Visit(instr) /\ text' = [text EXCEPT !.instructions = Emit(op, NoName, s)]
        /\ allocations' = allocations /\ errors' = errors
    BY <1>4 DEF VisitBranch, instr
  <2>3. text'.instructions = Emit(op, NoName, s)
    BY <2>2, <1>0
  <2>4. Copies(instr)
    BY <2>1, <2>2, <2>3 DEF Copies, Visit, Emit, NesOp
  <2> QED
    BY <2>1, <2>4
<1>5. CASE VisitIfFalse
  BY <1>4, <1>5 DEF VisitIfFalse
<1>6. CASE VisitJump
  BY <1>4, <1>6 DEF VisitJump, Sources
<1> QED
  BY <1>2, <1>3, <1>5, <1>6 DEF Next

\* The same number of instructions, operation by operation.
SameInstrs ==
  /\ Len(text.instructions) = Len(zir)
  /\ \A i \in 1..Len(zir) :
       text.instructions[i].dest = zir[i].dest /\ text.instructions[i].op = NesOp(zir[i].op)

\* An instruction that is copied extends the correspondence by one.
LEMMA CopySame ==
  ASSUME TypeOK, SameInstrs, NEW instr \in ZirInstr, Copies(instr)
  PROVE  SameInstrs'
<1> DEFINE ins == text.instructions
           new == [op |-> NesOp(instr.op), dest |-> instr.dest, source |-> Operand(instr.source)]
<1>1. zir \in Seq(ZirInstr) /\ ins \in Seq(ZnesInstr)
  BY DEF TypeOK
<1>2. zir' = Append(zir, instr) /\ text'.instructions = Append(ins, new)
  BY DEF Copies
<1>3. Len(zir') = Len(zir) + 1 /\ Len(text'.instructions) = Len(ins) + 1
  BY <1>1, <1>2
<1>4. Len(ins) = Len(zir)
  BY DEF SameInstrs
<1>5. ASSUME NEW i \in 1..(Len(zir) + 1)
      PROVE  text'.instructions[i].dest = zir'[i].dest
             /\ text'.instructions[i].op = NesOp(zir'[i].op)
  <2>1. CASE i = Len(zir) + 1
    <3>1. text'.instructions[i] = new /\ zir'[i] = instr
      BY <2>1, <1>1, <1>2, <1>4
    <3> QED
      BY <3>1
  <2>2. CASE i \in 1..Len(zir)
    <3>1. text'.instructions[i] = ins[i] /\ zir'[i] = zir[i]
      BY <2>2, <1>1, <1>2, <1>4
    <3> QED
      BY <3>1, <2>2 DEF SameInstrs
  <2> QED
    BY <2>1, <2>2, <1>1
<1> QED
  BY <1>3, <1>4, <1>5 DEF SameInstrs

\* Until the first error the two programs have the same instructions; an error
\* is never taken back.
CopyInv == TypeOK /\ (errors = 0 => SameInstrs)

\* The NES IR has one instruction for each ZIR instruction, so the jump offsets
\* that are copied unchanged count what they counted before.
THEOREM InstructionsCorrespond == Spec => []OneForOne
<1>1. Init => CopyInv
  BY InitType DEF CopyInv, SameInstrs, Init
<1>2. ASSUME CopyInv, [Next]_vars PROVE CopyInv'
  <2>1. TypeOK /\ TypeOK'
    BY <1>2, StepType DEF CopyInv
  <2>2. errors \in Nat /\ (errors = 0 => SameInstrs)
    BY <1>2, <2>1 DEF CopyInv, TypeOK
  <2>3. CASE UNCHANGED vars \/ Finish
    BY <2>1, <2>2, <2>3 DEF CopyInv, SameInstrs, vars, Finish
  <2>4. CASE errors' = errors + 1
    BY <2>1, <2>2, <2>4 DEF CopyInv
  <2>5. ASSUME NEW instr \in ZirInstr, Copies(instr) PROVE CopyInv'
    BY <2>1, <2>2, <2>5, CopySame DEF CopyInv, Copies
  <2> QED
    BY <1>2, <2>1, <2>3, <2>4, <2>5, StepShape
<1>3. CopyInv => OneForOne
  <2> SUFFICES ASSUME TypeOK, SameInstrs PROVE OneForOne
    BY DEF CopyInv, OneForOne
  <2>1. zir \in Seq(ZirInstr)
    BY DEF TypeOK
  <2> QED
    BY <2>1 DEF SameInstrs, OneForOne, NesOp
<1> QED
  BY <1>1, <1>2, <1>3, PTL DEF Spec

\* Until the first error every declared symbol is in the table of names, and no
\* operand missed it.
Resolves ==
  /\ Declared \subseteq DOMAIN allocations
  /\ \A i \in 1..Len(text.instructions) : text.instructions[i].source # Null

\* Copying an instruction keeps the operands resolved.
LEMMA CopyResolves ==
  ASSUME TypeOK, Resolves, NEW instr \in ZirInstr, Copies(instr)
  PROVE  Resolves'
<1> DEFINE ins == text.instructions
           new == [op |-> NesOp(instr.op), dest |-> instr.dest, source |-> Operand(instr.source)]
<1>1. zir \in Seq(ZirInstr) /\ ins \in Seq(ZnesInstr)
  BY DEF TypeOK
<1>2. zir' = Append(zir, instr) /\ text'.instructions = Append(ins, new)
  BY DEF Copies
<1>3. Operand(instr.source) # Null
  <2>1. instr.source \in (Declared \cap SourceSymbols) \cup {NoName}
    BY DEF Copies, Sources
  <2>2. instr.source \in Symbols \cup {NoName} /\ Null \notin Symbols
    BY NamesAssumption DEF ZirInstr, Symbols
  <2>3. Declared \subseteq DOMAIN allocations
    BY DEF Resolves
  <2> QED
    BY <2>1, <2>2, <2>3 DEF Operand, Literal, Null
<1>4. \A i \in 1..Len(text'.instructions) : text'.instructions[i].source # Null
  <2> SUFFICES ASSUME NEW i \in 1..(Len(ins) + 1) PROVE text'.instructions[i].source # Null
    BY <1>1, <1>2
  <2>1. CASE i = Len(ins) + 1
    <3>1. text'.instructions[i] = new
      BY <2>1, <1>1, <1>2
    <3> QED
      BY <3>1, <1>3
  <2>2. CASE i \in 1..Len(ins)
    <3>1. text'.instructions[i] = ins[i]
      BY <2>2, <1>1, <1>2
    <3> QED
      BY <3>1, <2>2 DEF Resolves
  <2> QED
    BY <2>1, <2>2, <1>1
<1>5. Declared' \subseteq DOMAIN allocations'
  <2> SUFFICES ASSUME NEW i \in 1..(Len(zir) + 1), zir'[i].dest # NoName
               PROVE  zir'[i].dest \in DOMAIN allocations'
    BY <1>1, <1>2 DEF Declared
  <2>1. CASE i = Len(zir) + 1
    <3>1. zir'[i] = instr
      BY <2>1, <1>1, <1>2
    <3> QED
      BY <3>1 DEF Copies
  <2>2. CASE i \in 1..Len(zir)
    <3>1. zir'[i] = zir[i]
      BY <2>2, <1>1, <1>2
    <3>2. zir[i].dest \in Declared
      BY <2>2, <3>1, <1>1 DEF Declared
    <3> QED
      BY <3>1, <3>2 DEF Resolves, Copies
  <2> QED
    BY <2>1, <2>2, <1>1
<1> QED
  BY <1>4, <1>5 DEF Resolves

ResolveInv ==
  /\ TypeOK
  /\ errors = 0 => Resolves
  /\ result = "ok" => errors = 0

\* The program that is handed to the back end has no operand without a place:
\* the visitor goes on after an error, but such a program is never "ok".
THEOREM SourcesResolved == Spec => []NoDanglingSource
<1>1. Init => ResolveInv
  BY InitType DEF ResolveInv, Resolves, Init, Declared
<1>2. ASSUME ResolveInv, [Next]_vars PROVE ResolveInv'
  <2>1. TypeOK /\ TypeOK'
    BY <1>2, StepType DEF ResolveInv
  <2>2. errors \in Nat /\ (errors = 0 => Resolves) /\ (result = "ok" => errors = 0)
    BY <1>2, <2>1 DEF ResolveInv, TypeOK
  <2>3. CASE UNCHANGED vars
    BY <2>1, <2>2, <2>3 DEF ResolveInv, Resolves, Declared, vars
  <2>4. CASE Finish
    BY <2>1, <2>2, <2>4 DEF ResolveInv, Resolves, Declared, Finish
  <2>5. CASE errors' = errors + 1 /\ result' = "running"
    BY <2>1, <2>2, <2>5 DEF ResolveInv
  <2>6. ASSUME NEW instr \in ZirInstr, Copies(instr) PROVE ResolveInv'
    BY <2>1, <2>2, <2>6, CopyResolves DEF ResolveInv, Copies
  <2> QED
    BY <1>2, <2>1, <2>3, <2>4, <2>5, <2>6, StepShape
<1>3. ResolveInv => NoDanglingSource
  <2>1. TypeOK => text.instructions \in Seq(ZnesInstr)
    BY DEF TypeOK
  <2> QED
    BY <2>1 DEF ResolveInv, Resolves, NoDanglingSource
<1> QED
  BY <1>1, <1>2, <1>3, PTL DEF Spec
=============================================================================

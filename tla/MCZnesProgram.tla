--------------------------- MODULE MCZnesProgram ---------------------------
(***************************************************************************)
(* Values for the constants of ZnesProgram: a zero page of seven bytes and *)
(* a DATA segment of eight in a 4-bit address space, and the declarations  *)
(* each run offers.                                                        *)
(***************************************************************************)
EXTENDS ZnesProgram, TLC

U8 == [kind |-> "uint", size |-> 1]
U16 == [kind |-> "uint", size |-> 2]
Bool == [kind |-> "bool", size |-> 1]
Array3 == [kind |-> "array", size |-> 3]
Empty == [kind |-> "array", size |-> 0]

PackedTypes == {U8, U16, Array3}
MixedTypes == {U8, Bool, U16}
SparseTypes == {Bool, Empty, Array3}

InSegmentOf(s) == [segment |-> s, address |-> [kind |-> "none", value |-> 0]]
At(kind, v) == [segment |-> "none", address |-> [kind |-> kind, value |-> v]]

ZpAttributes == {InSegmentOf("zp")} \cup {At("uint8", v) : v \in 0..ZpMax}
DataAttributes == {InSegmentOf("data")} \cup {At("uint16", v) : v \in DataBase..AddrMax}
FirstFitTypes == SparseTypes \cup PackedTypes
FirstFitAttributes == ZpAttributes \cup DataAttributes

\* Variables only, and of one segment at a time, each with its types: branches
\* take no space, and the segments share no state but the table of names.
VariablesIn(s, types) ==
  \A i \in DOMAIN zir :
    /\ zir[i].op = "variable" /\ zir[i].type \in types
    /\ TargetSegment(zir[i].attrs) = s
OneSegment == VariablesIn("zp", SparseTypes) \/ VariablesIn("data", PackedTypes)

MixedAttributes ==
  {NoAttributes, InSegmentOf("zp"), InSegmentOf("bad"), At("bad", 0),
   At("uint8", 1), At("uint16", 3), At("uint16", 8),
   [segment |-> "zp", address |-> [kind |-> "uint8", value |-> 4]]}

NameSymmetry == Permutations(Names) \cup Permutations(Temps)
=============================================================================

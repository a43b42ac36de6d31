--------------------------- MODULE MCUnification ---------------------------
(***************************************************************************)
(* Types of every kind, nested once, and two named structs.                *)
(***************************************************************************)
EXTENDS Unification

U8 == UintType(1)
U16 == UintType(2)
Unnamed(members) == StructType(NoName, members)

MCPool == [n \in {"S", "T"} |->
             IF n = "S" THEN <<Member("x", U8), Member("y", U16)>> ELSE <<Member("x", U16)>>]

Scalar == {NoneType, U8, U16, BoolType}

MCTypes ==
  Scalar \cup {ReferenceType(t) : t \in {U8, U16, BoolType}}
  \cup {ArrayType(2, t) : t \in Scalar} \cup {ArrayType(0, NoneType), ArrayType(1, U8)}
  \cup {ArrayType(1, ArrayType(2, U16)), ArrayType(1, ArrayType(2, U8))}
  \cup {NamedStruct("S"), NamedStruct("T")}
  \cup {Unnamed(<<Member("x", U8)>>), Unnamed(<<Member("x", U16)>>),
        Unnamed(<<Member("y", U16), Member("x", U8)>>), Unnamed(<<Member("y", NoneType)>>)}
=============================================================================

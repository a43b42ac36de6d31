------------------------------ MODULE ZirTypes ------------------------------
(***************************************************************************)
(* The types of ZIR (zir/types).  They are trees of their own, copied from *)
(* the types of the front end together with the members of named structs,  *)
(* and have their own equality, assignability and casts, and a size, which *)
(* depends on the size of a reference of the back end.                     *)
(***************************************************************************)
EXTENDS ZenitTypes

RECURSIVE Convert(_, _), ZirEquals(_, _), ZirAssignable(_, _), ZirCastable(_, _), SizeOf(_, _)

\* new_zir_type_from_zenit_type.
Convert(pool, t) ==
  CASE t.kind = "reference" -> ReferenceType(Convert(pool, t.element))
    [] t.kind = "array"     -> ArrayType(t.length, Convert(pool, t.member))
    [] t.kind = "struct"    ->
         LET members == Members(pool, t) IN
         StructType(t.name, [i \in DOMAIN members |->
                               Member(members[i].name, Convert(pool, members[i].type))])
    [] OTHER                -> t

-----------------------------------------------------------------------------
ZirUintEquals(a, b) == b.kind = "uint" /\ a.size = b.size
ZirReferenceEquals(a, b) == b.kind = "reference" /\ ZirEquals(a.element, b.element)
ZirArrayEquals(a, b) == b.kind = "array" /\ a.length = b.length /\ ZirEquals(a.member, b.member)

\* Members are looked for by name; names of inner structs do not count.
RECURSIVE SameMembers(_, _)
SameMembers(a, b) ==
  /\ Len(a.members) = Len(b.members)
  /\ \A i \in DOMAIN a.members : \E j \in DOMAIN b.members :
       LET s == a.members[i]  d == b.members[j] IN
       /\ s.name = d.name
       /\ IF s.type.kind = "struct" /\ d.type.kind = "struct" THEN SameMembers(s.type, d.type)
          ELSE ZirEquals(s.type, d.type)

ZirStructEquals(a, b) ==
  b.kind = "struct" /\ a.name = b.name /\ (BothNamed(a, b) \/ SameMembers(a, b))

ZirEquals(a, b) ==
  CASE a.kind = "uint"      -> ZirUintEquals(a, b)
    [] a.kind = "reference" -> ZirReferenceEquals(a, b)
    [] a.kind = "array"     -> ZirArrayEquals(a, b)
    [] a.kind = "struct"    -> ZirStructEquals(a, b)
    [] OTHER                -> a.kind = b.kind   \* bool and none

-----------------------------------------------------------------------------
ZirUintAssignable(target, from) == from.kind = "uint" /\ from.size <= target.size
ZirReferenceAssignable(target, from) ==
  from.kind = "reference" /\ ZirAssignable(target.element, from.element)

\* Mutant: arrays of any length.
ZirArrayAssignable_AnyLength(target, from) ==
  from.kind = "array" /\ ZirAssignable(target.member, from.member)
ZirArrayAssignable(target, from) ==
  /\ from.kind = "array"
  /\ target.length = from.length
  /\ IF target.length = 0 /\ from.member.kind = "none" THEN target.member.kind # "none"
     ELSE ZirAssignable(target.member, from.member)

\* Unlike in the front end, members must be equal, not only assignable.
ZirStructAssignable(target, from) ==
  /\ from.kind = "struct"
  /\ IF BothNamed(target, from) THEN target.name = from.name ELSE SameMembers(target, from)

ZirAssignable(target, from) ==
  CASE target.kind = "none"      -> from.kind # "none"
    [] target.kind = "uint"      -> ZirUintAssignable(target, from)
    [] target.kind = "bool"      -> from.kind = "bool"
    [] target.kind = "reference" -> ZirReferenceAssignable(target, from)
    [] target.kind = "array"     -> ZirArrayAssignable(target, from)
    [] target.kind = "struct"    -> ZirStructAssignable(target, from)

-----------------------------------------------------------------------------
ZirReferenceCastable(source, target) ==
  \/ ZirReferenceEquals(source, target)
  \/ target.kind = "reference" /\ ZirAssignable(source.element, target.element)
  \/ target.kind = "uint"
ZirArrayCastable(source, target) ==
  /\ target.kind = "array"
  /\ \/ ZirArrayEquals(source, target)
     \/ source.length = target.length /\ ZirCastable(source.member, target.member)
ZirStructCastable(source, target) == target.kind = "struct" /\ ZirAssignable(target, source)

ZirCastable(source, target) ==
  /\ target.kind # "none"
  /\ CASE source.kind = "none"      -> FALSE
       [] source.kind = "reference" -> ZirReferenceCastable(source, target)
       [] source.kind = "array"     -> ZirArrayCastable(source, target)
       [] source.kind = "struct"    -> ZirStructCastable(source, target)
       [] OTHER                     -> source.kind = target.kind   \* uint and bool

-----------------------------------------------------------------------------
(* zir_type_size: in bytes; `ref` is the size of a reference.              *)

ArraySize(t, ref) == t.length * SizeOf(t.member, ref)
StructSize(t, ref) == FoldLeft(LAMBDA n, m : n + SizeOf(m.type, ref), 0, t.members)

SizeOf(t, ref) ==
  CASE t.kind = "uint"      -> t.size
    [] t.kind = "bool"      -> 1
    [] t.kind = "reference" -> ref
    [] t.kind = "array"     -> ArraySize(t, ref)
    [] t.kind = "struct"    -> StructSize(t, ref)
    [] OTHER                -> 0
=============================================================================

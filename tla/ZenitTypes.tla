----------------------------- MODULE ZenitTypes -----------------------------
(***************************************************************************)
(* The types of the front end (front-end/types) and the relations between  *)
(* them.  A type is a value: the code copies a type object before a second *)
(* symbol refers to it.  The members of a named struct are in the pool of  *)
(* the type context, which maps the names of structs to their members.     *)
(***************************************************************************)
EXTENDS Naturals, Sequences, SequencesExt

NoName == ""

NoneType == [kind |-> "none"]
UintType(size) == [kind |-> "uint", size |-> size]
BoolType == [kind |-> "bool"]
ReferenceType(element) == [kind |-> "reference", element |-> element]
ArrayType(length, member) == [kind |-> "array", length |-> length, member |-> member]
StructType(name, members) == [kind |-> "struct", name |-> name, members |-> members]
NamedStruct(name) == StructType(name, <<>>)

Member(name, type) == [name |-> name, type |-> type]
Members(pool, t) == IF t.name = NoName THEN t.members ELSE pool[t.name]
MemberAt(members, name) == SelectInSeq(members, LAMBDA m : m.name = name)
HasMember(members, name) == MemberAt(members, name) # 0
MemberType(members, name) == members[MemberAt(members, name)].type

BothNamed(a, b) == a.name # NoName /\ b.name # NoName

-----------------------------------------------------------------------------
(* zenit_type_equals.                                                      *)

RECURSIVE TypeEquals(_, _, _), StructurallyEquals(_, _, _)

UintEquals(a, b) == b.kind = "uint" /\ a.size = b.size
BoolEquals(b) == b.kind = "bool"
ReferenceEquals(pool, a, b) == b.kind = "reference" /\ TypeEquals(pool, a.element, b.element)
ArrayEquals(pool, a, b) ==
  b.kind = "array" /\ a.length = b.length /\ TypeEquals(pool, a.member, b.member)

\* Structs inside structs are compared by their members even if they have names.
StructurallyEquals(pool, a, b) ==
  LET of == Members(pool, a)  others == Members(pool, b) IN
  /\ Len(of) = Len(others)
  /\ \A i \in DOMAIN of :
       /\ HasMember(others, of[i].name)
       /\ LET s == of[i].type  d == MemberType(others, of[i].name) IN
          IF s.kind = "struct" /\ d.kind = "struct" THEN StructurallyEquals(pool, s, d)
          ELSE TypeEquals(pool, s, d)

StructEquals(pool, a, b) ==
  /\ b.kind = "struct"
  /\ a.name = b.name
  /\ BothNamed(a, b) \/ StructurallyEquals(pool, a, b)

TypeEquals(pool, a, b) ==
  CASE a.kind = "none"      -> b.kind = "none"
    [] a.kind = "uint"      -> UintEquals(a, b)
    [] a.kind = "bool"      -> BoolEquals(b)
    [] a.kind = "reference" -> ReferenceEquals(pool, a, b)
    [] a.kind = "array"     -> ArrayEquals(pool, a, b)
    [] a.kind = "struct"    -> StructEquals(pool, a, b)

-----------------------------------------------------------------------------
(* zenit_type_is_assignable_from: a value of one type where another is     *)
(* expected.                                                               *)

RECURSIVE Assignable(_, _, _)

\* Mutant: the sizes are compared the other way around.
UintAssignable_Narrows(target, from) == from.kind = "uint" /\ from.size >= target.size
UintAssignable(target, from) == from.kind = "uint" /\ from.size <= target.size
BoolAssignable(from) == from.kind = "bool"
ReferenceAssignable(pool, target, from) ==
  from.kind = "reference" /\ Assignable(pool, target.element, from.element)
ArrayAssignable(pool, target, from) ==
  /\ from.kind = "array"
  /\ target.length = from.length
  /\ IF target.length = 0 /\ from.member.kind = "none" THEN target.member.kind # "none"
     ELSE Assignable(pool, target.member, from.member)

StructAssignable(pool, target, from) ==
  /\ from.kind = "struct"
  /\ IF BothNamed(target, from) THEN target.name = from.name
     ELSE LET wanted == Members(pool, target)  given == Members(pool, from) IN
          /\ Len(wanted) = Len(given)
          /\ \A i \in DOMAIN wanted :
               /\ HasMember(given, wanted[i].name)
               /\ Assignable(pool, wanted[i].type, MemberType(given, wanted[i].name))

Assignable(pool, target, from) ==
  CASE target.kind = "none"      -> from.kind # "none"
    [] target.kind = "uint"      -> UintAssignable(target, from)
    [] target.kind = "bool"      -> BoolAssignable(from)
    [] target.kind = "reference" -> ReferenceAssignable(pool, target, from)
    [] target.kind = "array"     -> ArrayAssignable(pool, target, from)
    [] target.kind = "struct"    -> StructAssignable(pool, target, from)

-----------------------------------------------------------------------------
(* zenit_type_is_castable_to.                                              *)

RECURSIVE Castable(_, _, _)

UintCastable(target) == target.kind = "uint"
BoolCastable(target) == target.kind = "bool"

\* A reference may become one to a smaller type, never one to a larger type.
ReferenceCastable(pool, source, target) ==
  \/ ReferenceEquals(pool, source, target)
  \/ target.kind = "reference" /\ Assignable(pool, source.element, target.element)
  \/ target.kind = "uint"

ArrayCastable(pool, source, target) ==
  /\ target.kind = "array"
  /\ \/ ArrayEquals(pool, source, target)
     \/ source.length = target.length /\ Castable(pool, source.member, target.member)

StructCastable(pool, source, target) ==
  /\ target.kind = "struct"
  /\ IF BothNamed(source, target) THEN source.name = target.name
     ELSE LET given == Members(pool, source)  wanted == Members(pool, target) IN
          /\ Len(given) = Len(wanted)
          /\ \A i \in DOMAIN given :
               /\ HasMember(wanted, given[i].name)
               /\ Castable(pool, given[i].type, MemberType(wanted, given[i].name))

Castable(pool, source, target) ==
  /\ target.kind # "none"
  /\ CASE source.kind = "none"      -> FALSE
       [] source.kind = "uint"      -> UintCastable(target)
       [] source.kind = "bool"      -> BoolCastable(target)
       [] source.kind = "reference" -> ReferenceCastable(pool, source, target)
       [] source.kind = "array"     -> ArrayCastable(pool, source, target)
       [] source.kind = "struct"    -> StructCastable(pool, source, target)

-----------------------------------------------------------------------------
(* zenit_type_can_unify.                                                   *)

RECURSIVE CanUnify(_, _, _)

UintCanUnify(b) == b.kind \in {"none", "uint"}
BoolCanUnify(b) == b.kind \in {"none", "bool"}
ReferenceCanUnify(pool, a, b) ==
  \/ b.kind = "none"
  \/ ReferenceEquals(pool, a, b)
  \/ b.kind = "reference" /\ CanUnify(pool, a.element, b.element)
ArrayCanUnify(pool, a, b) ==
  \/ b.kind = "none"
  \/ ArrayEquals(pool, a, b)
  \/ b.kind = "array" /\ a.length = b.length /\ CanUnify(pool, a.member, b.member)

StructCanUnify(pool, a, b) ==
  \/ b.kind = "none"
  \/ /\ b.kind = "struct"
     /\ \/ StructEquals(pool, a, b)
        \/ LET of == Members(pool, a)  others == Members(pool, b) IN
           \A i \in DOMAIN of :
             /\ HasMember(others, of[i].name)
             /\ CanUnify(pool, of[i].type, MemberType(others, of[i].name))

CanUnify(pool, a, b) ==
  CASE a.kind = "none"      -> b.kind # "none"
    [] a.kind = "uint"      -> UintCanUnify(b)
    [] a.kind = "bool"      -> BoolCanUnify(b)
    [] a.kind = "reference" -> ReferenceCanUnify(pool, a, b)
    [] a.kind = "array"     -> ArrayCanUnify(pool, a, b)
    [] a.kind = "struct"    -> StructCanUnify(pool, a, b)

-----------------------------------------------------------------------------
(* zenit_type_ctx_unify_types: the unified type, NoneType if there is none. *)

RECURSIVE Unify(_, _, _)

\* Mutant: the first type wins whatever the sizes.
UnifyUint_First(a, b) == IF b.kind \in {"none", "uint"} THEN a ELSE NoneType
UnifyUint(a, b) ==
  CASE b.kind = "none" -> a
    [] b.kind = "uint" -> IF a.size > b.size THEN a ELSE b
    [] OTHER           -> NoneType
UnifyBool(a, b) == IF b.kind \in {"none", "bool"} THEN a ELSE NoneType

ReferenceTo(element) == IF element = NoneType THEN NoneType ELSE ReferenceType(element)
UnifyReference(pool, a, b) ==
  IF b.kind = "none" \/ ReferenceEquals(pool, a, b) THEN a
  ELSE IF b.kind = "reference" /\ CanUnify(pool, a.element, b.element)
  THEN ReferenceTo(Unify(pool, a.element, b.element))
  ELSE NoneType

ArrayOf(length, member) == IF member = NoneType THEN NoneType ELSE ArrayType(length, member)
UnifyArray(pool, a, b) ==
  IF b.kind = "none" \/ ArrayEquals(pool, a, b) THEN a
  ELSE IF b.kind = "array" /\ a.length = b.length /\ CanUnify(pool, a.member, b.member)
  THEN ArrayOf(a.length, Unify(pool, a.member, b.member))
  ELSE NoneType

\* An unnamed struct of the members of a that b has too.
CommonMembers(pool, a, b) ==
  LET others == Members(pool, b)
      common == SelectSeq(Members(pool, a), LAMBDA m : HasMember(others, m.name))
      unified(t, o) == IF CanUnify(pool, t, o) THEN Unify(pool, t, o) ELSE NoneType
  IN  [i \in DOMAIN common |-> Member(common[i].name, unified(common[i].type,
                                                            MemberType(others, common[i].name)))]

StructWith(members) ==
  IF \E i \in DOMAIN members : members[i].type = NoneType THEN NoneType
  ELSE StructType(NoName, members)
UnifyStruct(pool, a, b) ==
  IF b.kind = "none" THEN a
  ELSE IF b.kind # "struct" THEN NoneType
  ELSE IF StructEquals(pool, a, b) THEN a
  ELSE IF StructurallyEquals(pool, a, b) THEN StructType(NoName, Members(pool, a))
  ELSE StructWith(CommonMembers(pool, a, b))

Unify(pool, a, b) ==
  CASE a.kind = "none"      -> b
    [] a.kind = "uint"      -> UnifyUint(a, b)
    [] a.kind = "bool"      -> UnifyBool(a, b)
    [] a.kind = "reference" -> UnifyReference(pool, a, b)
    [] a.kind = "array"     -> UnifyArray(pool, a, b)
    [] a.kind = "struct"    -> UnifyStruct(pool, a, b)

-----------------------------------------------------------------------------
(* zenit_try_type_unification: both types after an attempt to unify them.  *)

UpdatesA(kind) == kind \in {"a", "all"}
UpdatesB(kind) == kind \in {"b", "all"}

Unified(pool, kind, a, b) ==
  IF kind # "none" /\ CanUnify(pool, a, b) /\ ~TypeEquals(pool, a, b)
  THEN Unify(pool, a, b) ELSE NoneType
Updated(pool, t, unified) ==
  IF unified = NoneType \/ TypeEquals(pool, t, unified) THEN t ELSE unified
UpdatedPair(pool, kind, a, b, unified) ==
  [a |-> IF UpdatesA(kind) THEN Updated(pool, a, unified) ELSE a,
   b |-> IF UpdatesB(kind) THEN Updated(pool, b, unified) ELSE b]

\* Mutant: the first type is never updated.
TryUnification_KeepsA(pool, kind, a, b) ==
  [UpdatedPair(pool, kind, a, b, Unified(pool, kind, a, b)) EXCEPT !.a = a]

TryUnification(pool, kind, a, b) == UpdatedPair(pool, kind, a, b, Unified(pool, kind, a, b))
=============================================================================

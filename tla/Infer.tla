------------------------------- MODULE Infer -------------------------------
(***************************************************************************)
(* Type inference (front-end/inference).  A visitor receives a slot, the   *)
(* type its context expects or wants to know, with the direction inference *)
(* may take, and returns the context and the slot as it leaves them.       *)
(***************************************************************************)
EXTENDS Resolve

NoSlot == [kind |-> "no slot"]
Inferred(ctx, slot) == [ctx |-> ctx, slot |-> slot]

\* zenit_infer_ik_to_uk: what may change, the symbol of the node or both.
UnificationKind(kind) == CASE kind = "none" -> "none" [] kind = "uni" -> "a" [] kind = "bi" -> "all"

SetBoth(ctx, node, types) == Inferred(SetType(ctx, Uid(node), types.a), types.b)
UnifyWithSlot(ctx, node, slot, kind) ==
  IF kind = "none" THEN Inferred(ctx, slot)
  ELSE SetBoth(ctx, node, TryUnification(ctx.pool, UnificationKind(kind), TypeOf(ctx, node), slot))

RECURSIVE Infer(_, _, _, _)
InferAll(ctx, nodes) == VisitAll(LAMBDA c, n : Infer(c, n, NoSlot, "none").ctx, ctx, nodes)

\* A literal or a variable has its type, and gives it to a context that asks.
InferIntrinsic(ctx, node, slot, kind) ==
  IF slot # NoSlot /\ kind = "bi"
  THEN Inferred(ctx, TryUnification(ctx.pool, "b", TypeOf(ctx, node), slot).b)
  ELSE Inferred(ctx, slot)

InferCast(ctx, node, slot, kind) ==
  LET inner == Infer(ctx, node.expression, NoSlot, "none").ctx
      own == TypeOf(inner, node)
      missing == own = NoneType /\ slot \in {NoSlot, NoneType}
      deadEnd == \/ kind = "none" /\ own = NoneType
                 \/ kind # "bi" /\ slot = NoneType
  IN  IF missing \/ deadEnd THEN Inferred(Error(inner, "INFERENCE", node.at), slot)
      ELSE UnifyWithSlot(inner, node, slot, kind)

InferReference(ctx, node, slot, kind) ==
  LET inner == Infer(ctx, node.expression, TypeOf(ctx, node).element, "bi") IN
  UnifyWithSlot(SetType(inner.ctx, Uid(node), ReferenceType(inner.slot)), node, slot, kind)

\* An expression of another type than its place becomes an implicit cast.
WithImplicitCast(ctx, node, type) ==
  LET own == TypeOf(ctx, node) IN
  IF TypeEquals(ctx.pool, type, own) \/ ~Castable(ctx.pool, own, type) THEN ctx
  ELSE NewTemp([ctx EXCEPT !.wrapped = @ \cup {node.at}],
               CastNode(node.at, NoneType, node, TRUE), type)

\* Arrays that cannot be unified, because of their lengths, may have members that can.
SetMembers(ctx, node, slot, members) ==
  Inferred(SetType(ctx, Uid(node), [TypeOf(ctx, node) EXCEPT !.member = members.a]),
           [slot EXCEPT !.member = members.b])
InferFromSlot(ctx, node, slot, kind) ==
  LET own == TypeOf(ctx, node) IN
  IF kind = "none" \/ slot.kind # "array" THEN Inferred(ctx, slot)
  ELSE IF CanUnify(ctx.pool, own, slot) THEN UnifyWithSlot(ctx, node, slot, kind)
  ELSE SetMembers(ctx, node, slot,
                  TryUnification(ctx.pool, UnificationKind(kind), own.member, slot.member))

\* Each element may change the type of the members, which is then that of all of them.
MemberSlot(node, result) ==
  SetType(result.ctx, Uid(node), [TypeOf(result.ctx, node) EXCEPT !.member = result.slot])
InferElements(ctx, node, kind) ==
  VisitAll(LAMBDA c, e : MemberSlot(node, Infer(c, e, TypeOf(c, node).member, kind)),
           ctx, node.elements)
CastElements(ctx, node) ==
  VisitAll(LAMBDA c, e : WithImplicitCast(c, e, TypeOf(ctx, node).member), ctx, node.elements)

InferMembers(first, node, kind) ==
  LET memberKind == CASE kind = "none"             -> "none"
                      [] first.slot.kind = "array" -> kind
                      [] OTHER                     -> "bi"
  IN  UnifyWithSlot(CastElements(InferElements(first.ctx, node, memberKind), node),
                    node, first.slot, kind)
InferArray(ctx, node, slot, kind) == InferMembers(InferFromSlot(ctx, node, slot, kind), node, kind)

\* Fields of a named struct take the declared types, which do not change.
InferNamedFields(ctx, node) ==
  LET declared == ctx.scopes[GetScope(ctx, "struct", node.name)] IN
  VisitAll(LAMBDA c, f : Infer(c, f.value, declared[Name(f.name)].type, "uni").ctx, ctx, node.members)

\* The members of an unnamed struct take what a named struct of the context
\* declares; a member it does not have is a null pointer.
MemberHint(ctx, name, field) ==
  LET scope == GetScope(ctx, "struct", name) IN
  IF scope # NoScope /\ Name(field) \in DOMAIN ctx.scopes[scope]
  THEN ctx.scopes[scope][Name(field)].type ELSE NoSlot
InferMember(ctx, node, field, type, i) ==
  LET result == Infer(ctx, field.value, type, "bi") IN
  SetType(result.ctx, Uid(node), [TypeOf(ctx, node) EXCEPT !.members[i].type = result.slot])
MemberFrom(ctx, node, field, name) ==
  LET i == MemberAt(TypeOf(ctx, node).members, field.name)
      own == TypeOf(ctx, node).members[i].type
      hint == MemberHint(ctx, name, field.name)
  IN  IF name # NoName /\ hint = NoSlot THEN Crash(ctx, "null")
      ELSE InferMember(ctx, node, field,
                       IF name = NoName THEN own ELSE TryUnification(ctx.pool, "a", own, hint).a, i)

InferUnnamedFields(ctx, node, slot) ==
  LET name == IF slot.kind = "struct" THEN slot.name ELSE NoName IN
  VisitAll(LAMBDA c, f : IF Visiting(c) THEN MemberFrom(c, node, f, name) ELSE c, ctx, node.members)

InferFields(ctx, node, slot) ==
  IF node.name = NoName THEN InferUnnamedFields(ctx, node, slot) ELSE InferNamedFields(ctx, node)
UnifyVisited(ctx, node, slot, kind) ==
  IF Visiting(ctx) THEN UnifyWithSlot(ctx, node, slot, kind) ELSE Inferred(ctx, slot)
InferStruct(ctx, node, slot, kind) == UnifyVisited(InferFields(ctx, node, slot), node, slot, kind)

InferAttributes(ctx, node) == InferAll(ctx, node.attributes)

InferStructDecl(ctx, node) ==
  PopScope(PushScope(InferAttributes(ctx, node), "struct", node.name))

\* Mutant: a declared type does not stop inference.
InferVariable_IgnoresHint(ctx, node) ==
  LET key == Name(node.name)
      decorated == InferAttributes(ctx, node)
      result == Infer(decorated, node.value, GetSymbol(decorated, key).type, "bi") IN
  IF ~Visiting(result.ctx) THEN result.ctx
  ELSE WithImplicitCast(SetType(result.ctx, key, result.slot), node.value, result.slot)

\* A variable with a hint keeps its type, one without may take that of its value.
InferVariable(ctx, node) ==
  LET key == Name(node.name)
      decorated == InferAttributes(ctx, node)
      result == Infer(decorated, node.value, GetSymbol(decorated, key).type,
                      IF node.hint = NoneType THEN "bi" ELSE "uni") IN
  IF ~Visiting(result.ctx) THEN result.ctx
  ELSE WithImplicitCast(SetType(result.ctx, key, result.slot), node.value, result.slot)

InferIf(ctx, node) ==
  LET condition == Infer(PushScope(ctx, "block", node.at), node.condition, BoolType, "uni").ctx IN
  PopScope(InferAll(WithImplicitCast(condition, node.condition, BoolType), Branches(node)))

InferBlock(ctx, node) == PopScope(InferAll(PushScope(ctx, "block", node.at), node.statements))

Infer(ctx, node, slot, kind) ==
  IF ~Visiting(ctx) THEN Inferred(ctx, slot)
  ELSE CASE node.node \in {"uint", "bool", "id"} -> InferIntrinsic(ctx, node, slot, kind)
         [] node.node = "cast"        -> InferCast(ctx, node, slot, kind)
         [] node.node = "ref"         -> InferReference(ctx, node, slot, kind)
         [] node.node = "array"       -> InferArray(ctx, node, slot, kind)
         [] node.node = "struct"      -> InferStruct(ctx, node, slot, kind)
         [] node.node = "variable"    -> Inferred(InferVariable(ctx, node), slot)
         [] node.node = "if"          -> Inferred(InferIf(ctx, node), slot)
         [] node.node = "struct_decl" -> Inferred(InferStructDecl(ctx, node), slot)
         [] node.node = "block"       -> Inferred(InferBlock(ctx, node), slot)
=============================================================================

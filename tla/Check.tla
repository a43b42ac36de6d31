------------------------------- MODULE Check -------------------------------
(***************************************************************************)
(* Type checking (front-end/type-check/check.c): nothing but errors, and   *)
(* the scopes entered again in the order of the earlier passes.            *)
(***************************************************************************)
EXTENDS Infer

RECURSIVE Check(_, _)
CheckAll(ctx, nodes) == VisitAll(LAMBDA c, n : Check(c, n), ctx, nodes)

Require(ctx, condition, code, at) == IF condition THEN ctx ELSE Error(ctx, code, at)

\* Mutant: whatever can be cast explicitly is cast implicitly.
CheckCast_Explicit(ctx, node) ==
  LET to == TypeOf(ctx, node)
      inner == Check(ctx, node.expression)
      from == TypeOf(inner, node.expression) IN
  Require(inner, Castable(ctx.pool, from, to), "TYPE_MISSMATCH", node.at)

\* An implicit cast must not lose anything, an explicit one may.
CheckCast(ctx, node) ==
  LET to == TypeOf(ctx, node)
      inner == Check(ctx, node.expression)
      from == TypeOf(inner, node.expression) IN
  Require(inner, IF node.implicit THEN Assignable(ctx.pool, to, from) ELSE Castable(ctx.pool, from, to),
          "TYPE_MISSMATCH", node.at)

CheckReference(ctx, node) ==
  LET inner == Check(ctx, node.expression)
      from == TypeOf(inner, node.expression) IN
  Require(Require(inner, node.expression.node = "id" \/ from.kind # "reference",
                  "INVALID_REFERENCE", node.at),
          Assignable(ctx.pool, TypeOf(ctx, node).element, from), "TYPE_MISSMATCH", node.at)

\* Elements and fields are only compared with a type that is valid.
RequireFit(ctx, type, value) ==
  Require(ctx, IsValid(ctx, type) => Assignable(ctx.pool, type, TypeOf(ctx, value)),
          "TYPE_MISSMATCH", value.at)

CheckElement(ctx, member, element) == RequireFit(Check(ctx, element), member, element)
CheckArray(ctx, node) ==
  LET type == TypeOf(ctx, node) IN
  VisitAll(LAMBDA c, e : CheckElement(c, type.member, Expression(ctx, e)),
           Validated(ctx, type), node.elements)

CheckProperty(ctx, value) ==
  LET type == TypeOf(ctx, PropertyNode(value))
      inner == Validated(Check(ctx, value), type) IN
  Require(inner, IsValid(inner, type), "MISSING_SYMBOL", value.at)
CheckAttributes(ctx, node) == VisitAll(LAMBDA c, v : CheckProperty(c, v), ctx, node.attributes)

CheckField(ctx, scope, field) ==
  LET inner == Check(ctx, field.value)
      declared == ctx.scopes[scope][Name(field.name)].type IN
  IF scope = NoScope THEN inner ELSE RequireFit(Validated(inner, declared), declared, field.value)
CheckStruct(ctx, node) ==
  LET scope == IF node.name = NoName THEN NoScope ELSE GetScope(ctx, "struct", node.name) IN
  VisitAll(LAMBDA c, f : CheckField(c, scope, f), ctx, node.members)

CheckStructDecl(ctx, node) ==
  PopScope(PushScope(CheckAttributes(ctx, node), "struct", node.name))

CheckVariable(ctx, node) ==
  LET decorated == CheckAttributes(ctx, node)
      type == GetSymbol(ctx, Name(node.name)).type
      value == Expression(ctx, node.value)
      declared == Require(Validated(decorated, type), IsValid(ctx, type) \/ node.hint = NoneType,
                          "MISSING_SYMBOL", node.at)
      inner == Check(declared, value)
  IN  Require(inner, IsValid(ctx, type) => Assignable(ctx.pool, type, TypeOf(inner, value)),
              "TYPE_MISSMATCH", node.at)

CheckIf(ctx, node) ==
  LET condition == Expression(ctx, node.condition)
      inner == Check(PushScope(ctx, "block", node.at), condition) IN
  PopScope(CheckAll(Require(inner, Assignable(ctx.pool, BoolType, TypeOf(inner, condition)),
                            "TYPE_MISSMATCH", node.at),
                    Branches(node)))

CheckBlock(ctx, node) == PopScope(CheckAll(PushScope(ctx, "block", node.at), node.statements))

Check(ctx, node) ==
  IF ~Visiting(ctx) THEN ctx
  ELSE CASE node.node \in {"uint", "bool", "id"}    -> ctx
         [] node.node \in {"cast", "cast_impl"}     -> CheckCast(ctx, node)
         [] node.node = "ref"                       -> CheckReference(ctx, node)
         [] node.node = "array"                     -> CheckArray(ctx, node)
         [] node.node = "struct"                    -> CheckStruct(ctx, node)
         [] node.node = "struct_decl"               -> CheckStructDecl(ctx, node)
         [] node.node = "variable"                  -> CheckVariable(ctx, node)
         [] node.node = "if"                        -> CheckIf(ctx, node)
         [] node.node = "block"                     -> CheckBlock(ctx, node)
=============================================================================

------------------------------ MODULE Resolve ------------------------------
(***************************************************************************)
(* Name resolution (front-end/binding/resolve.c): the two passes of        *)
(* zenit_resolve_symbols over one declaration.  A visitor returns the      *)
(* context it leaves; the symbol it returns is the one TypeOf finds.       *)
(***************************************************************************)
EXTENDS ZenitProgram

\* The children of a node in the order the visitors take them.
VisitAll(Visit(_, _), ctx, nodes) == FoldLeft(Visit, ctx, nodes)
Branches(node) == <<node.then>> \o node.else

-----------------------------------------------------------------------------
(* RESOLVE_TYPES: the scopes of the structs.                               *)

RECURSIVE ResolveTypes(_, _)

TypesOfStructDecl(ctx, node) ==
  IF GetScope(ctx, "struct", node.name) # NoScope
  THEN Error(ctx, "DUPLICATED_SYMBOL", node.at)
  ELSE AddScope(ctx, "struct", node.name)

TypesOfScope(ctx, node, nodes) ==
  PopScope(VisitAll(LAMBDA c, n : ResolveTypes(c, n), PushScope(ctx, "block", node.at), nodes))

ResolveTypes(ctx, node) ==
  CASE node.node = "struct_decl" -> TypesOfStructDecl(ctx, node)
    [] node.node = "if"          -> TypesOfScope(ctx, node, Branches(node))
    [] node.node = "block"       -> TypesOfScope(ctx, node, node.statements)
    [] OTHER                     -> ctx

-----------------------------------------------------------------------------
(* RESOLVE_ALL: the symbols.                                               *)

RECURSIVE Resolve(_, _)
ResolveAll(ctx, nodes) == VisitAll(LAMBDA c, n : Resolve(c, n), ctx, nodes)

ResolveCast(ctx, node) ==
  LET inner == Resolve(ctx, node.expression)
      rhs == TypeOf(inner, node.expression) IN
  NewTemp(Declare(inner, node.hint, rhs, node.at), node, DeclaredType(node.hint, rhs))

ResolveIdentifier(ctx, node) ==
  IF HasSymbol(ctx, Name(node.name)) THEN ctx ELSE Error(ctx, "MISSING_SYMBOL", node.at)

ResolveReference(ctx, node) ==
  LET inner == Resolve(ctx, node.expression)
      type == TypeOf(inner, node.expression) IN
  IF type = NullType THEN inner ELSE NewTemp(inner, node, ReferenceType(type))

\* The member type of an array is known if all its elements have the same type.
ResolveArray(ctx, node) ==
  LET inner == ResolveAll(ctx, node.elements)
      type(i) == TypeOf(inner, node.elements[i])
      size == Len(node.elements)
      known == /\ size > 0
               /\ \A i \in 1..size : type(i) # NullType
               /\ \A i \in 1..(size - 1) : TypeEquals(inner.pool, type(i), type(i + 1))
  IN  NewTemp(inner, node, ArrayType(size, IF known THEN type(size) ELSE NoneType))

\* A property is a node of its own, with the type of its value.
PropertyNode(attribute) == [node |-> "property", at |-> attribute.at]
CopiedType(ctx, node) == IF TypeOf(ctx, node) = NullType THEN NoneType ELSE TypeOf(ctx, node)
ResolveProperty(ctx, value) ==
  LET inner == Resolve(ctx, value) IN NewTemp(inner, PropertyNode(value), CopiedType(inner, value))
ResolveAttributes(ctx, node) == VisitAll(LAMBDA c, v : ResolveProperty(c, v), ctx, node.attributes)

FieldValues(node) == [i \in DOMAIN node.members |-> node.members[i].value]
Given(node) == {node.members[i].name : i \in DOMAIN node.members}

ResolveNamedStruct(ctx, node) ==
  LET scope == GetScope(ctx, "struct", node.name) IN
  IF scope = NoScope THEN Error(ctx, "MISSING_SYMBOL", node.at)
  ELSE LET declared == DOMAIN ctx.scopes[scope]
           unknown == {<<"UNKNOWN_MEMBER", node.members[i].value.at>> :
                         i \in {j \in DOMAIN node.members : Name(node.members[j].name) \notin declared}}
           missing == IF declared \subseteq {Name(n) : n \in Given(node)} THEN {}
                      ELSE {<<"UNINITIALIZED_MEMBER", node.at>>}
           visited == ResolveAll(ctx, FieldValues(node)) IN
       NewTemp([visited EXCEPT !.errors = @ \cup unknown \cup missing], node,
               IF node.name \in DOMAIN ctx.pool THEN NamedStruct(node.name) ELSE NullType)

ResolveUnnamedStruct(ctx, node) ==
  LET inner == ResolveAll(ctx, FieldValues(node)) IN
  NewTemp(inner, node,
    StructType(NoName, [i \in DOMAIN node.members |->
      Member(node.members[i].name, CopiedType(inner, node.members[i].value))]))

\* A field with a type that is not valid is reported and added all the same.
ResolveField(ctx, name, field) ==
  IF HasSymbol(ctx, Name(field.name)) THEN Error(ctx, "DUPLICATED_SYMBOL", field.at)
  ELSE LET type == DeclaredType(field.hint, NullType)
           declared == Validated(Declare(ctx, field.hint, NullType, field.at), type)
           checked == IF IsValid(declared, type) THEN declared
                      ELSE Error(declared, "MISSING_SYMBOL", field.at)
       IN  [AddSymbol(checked, Name(field.name), Symbol(type, field.at))
              EXCEPT !.pool[name] = Append(@, Member(field.name, type))]

\* Mutant: the scope of the struct is not left.
ResolveStructDecl_StaysInside(ctx, node) ==
  LET scope == GetScope(ctx, "struct", node.name)
      outside == ResolveAttributes(ctx, node)
      inside == [EnterScope(outside, scope) EXCEPT !.pool = @ @@ (node.name :> <<>>)] IN
  IF ctx.scopes[scope] # <<>> THEN ctx
  ELSE VisitAll(LAMBDA c, f : ResolveField(c, node.name, f), inside, node.members)

\* A struct whose scope has symbols was declared before: already reported.
ResolveStructDecl(ctx, node) ==
  LET scope == GetScope(ctx, "struct", node.name)
      outside == ResolveAttributes(ctx, node)
      inside == [EnterScope(outside, scope) EXCEPT !.pool = @ @@ (node.name :> <<>>)] IN
  IF ctx.scopes[scope] # <<>> THEN ctx
  ELSE PopScope(VisitAll(LAMBDA c, f : ResolveField(c, node.name, f), inside, node.members))

\* Mutant: only the current scope is searched for the name.
ResolveVariable_Shadows(ctx, node) ==
  LET inner == Resolve(ctx, node.value)
      rhs == TypeOf(inner, node.value)
      decorated == ResolveAttributes(inner, node)
      declared == IF node.hint = NoneType THEN decorated
                  ELSE Declare(decorated, node.hint, rhs, node.at)
      type == CASE node.hint # NoneType -> DeclaredType(node.hint, rhs)
                [] rhs # NullType       -> rhs
                [] OTHER                -> NoneType
  IN  IF Name(node.name) \in DOMAIN inner.scopes[inner.current]
      THEN Error(inner, "DUPLICATED_SYMBOL", node.at)
      ELSE AddSymbol(declared, Name(node.name), Symbol(type, node.at))

ResolveVariable(ctx, node) ==
  LET inner == Resolve(ctx, node.value)
      rhs == TypeOf(inner, node.value)
      decorated == ResolveAttributes(inner, node)
      declared == IF node.hint = NoneType THEN decorated
                  ELSE Declare(decorated, node.hint, rhs, node.at)
      type == CASE node.hint # NoneType -> DeclaredType(node.hint, rhs)
                [] rhs # NullType       -> rhs
                [] OTHER                -> NoneType
  IN  IF HasSymbol(inner, Name(node.name)) THEN Error(inner, "DUPLICATED_SYMBOL", node.at)
      ELSE AddSymbol(declared, Name(node.name), Symbol(type, node.at))

ResolveScope(ctx, node, nodes) ==
  PopScope(ResolveAll(PushScope(ctx, "block", node.at), nodes))

Resolve(ctx, node) ==
  IF ~Visiting(ctx) THEN ctx
  ELSE CASE node.node = "uint"        -> NewTemp(ctx, node, UintType(node.size))
         [] node.node = "bool"        -> NewTemp(ctx, node, BoolType)
         [] node.node = "cast"        -> ResolveCast(ctx, node)
         [] node.node = "id"          -> ResolveIdentifier(ctx, node)
         [] node.node = "ref"         -> ResolveReference(ctx, node)
         [] node.node = "array"       -> ResolveArray(ctx, node)
         [] node.node = "struct"      -> IF node.name = NoName THEN ResolveUnnamedStruct(ctx, node)
                                         ELSE ResolveNamedStruct(ctx, node)
         [] node.node = "struct_decl" -> ResolveStructDecl(ctx, node)
         [] node.node = "variable"    -> ResolveVariable(ctx, node)
         [] node.node = "if"          -> ResolveScope(ctx, node, <<node.condition>> \o Branches(node))
         [] node.node = "block"       -> ResolveScope(ctx, node, node.statements)
=============================================================================

---------------------------- MODULE ZenitProgram ----------------------------
(***************************************************************************)
(* What the passes of the front end work on: the AST, the tree of scopes   *)
(* with their symbol tables, and the context that every visitor receives   *)
(* and returns changed (front-end/ast, program.c, scope.c, symtable.c,     *)
(* utils.h).  The location of a node is its path in the tree: the position *)
(* in the list that holds it, after the location of its parent.            *)
(***************************************************************************)
EXTENDS ZenitTypes, FiniteSets, TLC

UintNode(at, size) == [node |-> "uint", at |-> at, size |-> size]
BoolNode(at) == [node |-> "bool", at |-> at]
IdentifierNode(at, name) == [node |-> "id", at |-> at, name |-> name]
ReferenceNode(at, expression) == [node |-> "ref", at |-> at, expression |-> expression]
CastNode(at, hint, expression, implicit) ==
  [node |-> IF implicit THEN "cast_impl" ELSE "cast", at |-> at,
   hint |-> hint, expression |-> expression, implicit |-> implicit]
ArrayNode(at, elements) == [node |-> "array", at |-> at, elements |-> elements]
\* name is NoName for an unnamed literal; a field has a name and a value.
StructNode(at, name, members) ==
  [node |-> "struct", at |-> at, name |-> name, members |-> members]
VariableNode(at, name, hint, value, attributes) ==
  [node |-> "variable", at |-> at, name |-> name, hint |-> hint,
   value |-> value, attributes |-> attributes]
\* A field declaration has a location, a name and a type hint.
StructDeclNode(at, name, members, attributes) ==
  [node |-> "struct_decl", at |-> at, name |-> name, members |-> members,
   attributes |-> attributes]
\* The else branch is a sequence of at most one node.
IfNode(at, condition, then, else) ==
  [node |-> "if", at |-> at, condition |-> condition, then |-> then, else |-> else]
BlockNode(at, statements) == [node |-> "block", at |-> at, statements |-> statements]

\* Type hints have the shape of types; an array may leave its length open.
ArrayHint(length, auto, member) ==
  [kind |-> "array", length |-> length, auto |-> auto, member |-> member]

-----------------------------------------------------------------------------
(* The context.                                                            *)

Global == <<>>
NoScope == <<<<"none">>>>
NullType == [kind |-> "null"]

NewContext ==
  [scopes |-> Global :> <<>>,   \* path -> symbol table
   current |-> Global,
   pool |-> <<>>,               \* named structs of the type context
   wrapped |-> {},              \* locations of expressions under an implicit cast
   errors |-> {},               \* what was reported, and where
   fault |-> "none"]            \* why the program stopped in the middle of a pass

Error(ctx, code, at) == [ctx EXCEPT !.errors = @ \cup {<<code, at>>}]
Crash(ctx, fault) == [ctx EXCEPT !.fault = IF @ = "none" THEN fault ELSE @]
Visiting(ctx) == ctx.fault = "none"

ScopeKind(path) == IF path = Global THEN "global" ELSE Last(path)[1]
Ancestors(path) == {SubSeq(path, 1, n) : n \in 0..Len(path)}
Innermost(paths) == CHOOSE p \in paths : \A q \in paths : Len(q) <= Len(p)

\* Mutant: structs are looked for in the current scope only.
GetScope_CurrentOnly(ctx, kind, name) ==
  LET path == Append(ctx.current, <<kind, name>>) IN
  IF path \in DOMAIN ctx.scopes THEN path ELSE NoScope

\* zenit_program_get_scope: structs are looked for outwards, blocks are not.
GetScope(ctx, kind, name) ==
  LET id == <<kind, name>>
      from == IF kind = "struct" THEN Ancestors(ctx.current) ELSE {ctx.current}
      holders == {p \in from : Append(p, id) \in DOMAIN ctx.scopes}
  IN  IF holders = {} THEN NoScope ELSE Append(Innermost(holders), id)

AddScope(ctx, kind, name) ==
  [ctx EXCEPT !.scopes = @ @@ (Append(ctx.current, <<kind, name>>) :> <<>>)]
EnterScope(ctx, path) == IF Front(path) = ctx.current THEN [ctx EXCEPT !.current = path] ELSE ctx
PushScope(ctx, kind, name) ==
  LET found == GetScope(ctx, kind, name) IN
  IF found # NoScope THEN [ctx EXCEPT !.current = found]
  ELSE EnterScope(AddScope(ctx, kind, name), Append(ctx.current, <<kind, name>>))
PopScope(ctx) == IF ctx.current = Global THEN Crash(ctx, "null")
                 ELSE [ctx EXCEPT !.current = Front(@)]

\* Symbols: declared names, and one temporal for each expression.
Name(n) == <<"name", n>>
Uid(node) == IF node.node = "id" THEN Name(node.name) ELSE <<node.node, node.at>>
Symbol(type, at) == [type |-> type, at |-> at]

\* zenit_program_has_symbol and zenit_program_get_symbol.
Searched(ctx) == IF ScopeKind(ctx.current) = "block" THEN Ancestors(ctx.current) ELSE {ctx.current}
Holders(ctx, key) == {p \in Searched(ctx) : key \in DOMAIN ctx.scopes[p]}
HasSymbol(ctx, key) == Holders(ctx, key) # {}
GetSymbol(ctx, key) == ctx.scopes[Innermost(Holders(ctx, key))][key]

\* The hash table keeps an entry that is already there.
AddSymbol(ctx, key, symbol) ==
  [ctx EXCEPT !.scopes[ctx.current] = @ @@ (key :> symbol)]
NewTemp(ctx, node, type) ==
  IF type = NullType THEN Crash(ctx, "assert")
  ELSE IF HasSymbol(ctx, Uid(node)) THEN ctx
  ELSE AddSymbol(ctx, Uid(node), Symbol(type, node.at))

\* The type of the symbol a visitor returns for an expression.
TypeOf(ctx, node) ==
  IF HasSymbol(ctx, Uid(node)) THEN GetSymbol(ctx, Uid(node)).type ELSE NullType
SetType(ctx, key, type) ==
  [ctx EXCEPT !.scopes[Innermost(Holders(ctx, key))][key].type = type]

\* An expression as its parent holds it after inference.
Expression(ctx, node) ==
  IF node.at \in ctx.wrapped THEN CastNode(node.at, NoneType, node, TRUE) ELSE node

-----------------------------------------------------------------------------
(* Hints and validity.                                                     *)

\* get_type_from_type_declaration; rhs is the type of the initialiser.
RECURSIVE DeclaredType(_, _)
DeclaredType(hint, rhs) ==
  CASE hint.kind \in {"none", "uint", "bool", "struct"} -> hint
    [] hint.kind = "reference" ->
         ReferenceType(DeclaredType(hint.element,
           IF rhs.kind = "reference" THEN rhs.element ELSE NullType))
    [] hint.kind = "array" ->
         LET known == rhs.kind = "array" IN
         ArrayType(CASE ~hint.auto -> hint.length [] known -> rhs.length [] OTHER -> 0,
                   DeclaredType(hint.member, IF known THEN rhs.member ELSE NullType))

\* The context it leaves: a struct that is named joins the pool, and an array
\* without a length needs an array to take it from.
RECURSIVE Declare(_, _, _, _)
Declare(ctx, hint, rhs, at) ==
  CASE hint.kind \in {"none", "uint", "bool"} -> ctx
    [] hint.kind = "struct" -> [ctx EXCEPT !.pool = @ @@ (hint.name :> <<>>)]
    [] hint.kind = "reference" ->
         Declare(ctx, hint.element, IF rhs.kind = "reference" THEN rhs.element ELSE NullType, at)
    [] hint.kind = "array" ->
         LET known == rhs.kind = "array" IN
         Declare(IF hint.auto /\ ~known THEN Error(ctx, "INFERENCE", at) ELSE ctx,
                 hint.member, IF known THEN rhs.member ELSE NullType, at)

\* zenit_program_is_valid_type; the walk along the members of a struct that
\* contains itself does not end.
RECURSIVE Validity(_, _, _)
Validity(ctx, t, seen) ==
  CASE t.kind \in {"uint", "bool"} -> "valid"
    [] t.kind = "none"      -> "invalid"
    [] t.kind = "reference" -> Validity(ctx, t.element, seen)
    [] t.kind = "array"     -> Validity(ctx, t.member, seen)
    [] t.kind = "struct"    ->
         IF t.name # NoName /\ GetScope(ctx, "struct", t.name) = NoScope THEN "invalid"
         ELSE IF t.name \in seen THEN "endless"
         ELSE LET members == Members(ctx.pool, t)
                  verdict(m) == Validity(ctx, m.type, seen \cup ({t.name} \ {NoName}))
                  stop == SelectInSeq(members, LAMBDA m : verdict(m) # "valid")
              IN  IF stop = 0 THEN "valid" ELSE verdict(members[stop])

\* What a visitor that asks for the validity of a type goes on with.
Validated(ctx, t) == IF Validity(ctx, t, {}) = "endless" THEN Crash(ctx, "endless") ELSE ctx
IsValid(ctx, t) == Validity(ctx, t, {}) = "valid"
=============================================================================

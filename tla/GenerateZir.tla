---------------------------- MODULE GenerateZir ----------------------------
(***************************************************************************)
(* ZIR generation (front-end/codegen/zir.c, zir/program.c, zir/symtable.c) *)
(* but for the offsets of jumps, which ZirBranches models.  A visitor      *)
(* returns the generator it leaves, with the operand it made.  A ZIR       *)
(* symbol remembers the location of what it stands for.                    *)
(***************************************************************************)
EXTENDS Check

NullOperand == [kind |-> "null"]
Literal(node) == [kind |-> node.node]
SymbolOperand(symbol) == [kind |-> "symbol", symbol |-> symbol]
ReferenceOperand(operand) == [kind |-> "reference", of |-> operand]
\* Arrays and structs: the operands of their elements or members, in order.
ListOperand(operands) == [kind |-> "list", operands |-> operands]

ZirSymbol(name, at) == [name |-> name, at |-> at]
Plain(name) == <<name, <<>>>>
Mangled(name, at) == <<name, at>>

\* convert_zenit_scope_to_zir_block: blocks for the structs of the global scope.
GlobalStructs(ctx) == {p[1][2] : p \in {q \in DOMAIN ctx.scopes : Len(q) = 1 /\ ScopeKind(q) = "struct"}}
NewGenerator(ctx) ==
  [ctx |-> ctx, block |-> NoName, temps |-> 0, code |-> <<>>, operand |-> NullOperand,
   symbols |-> [b \in GlobalStructs(ctx) \cup {NoName} |-> <<>>]]   \* NoName: the global block

Giving(gen, operand) == [gen EXCEPT !.operand = operand]
Emit(gen, op, dest, source) ==
  [gen EXCEPT !.code = Append(@, [op |-> op, dest |-> dest, source |-> source]), !.operand = dest]

\* The hash table of a block keeps the symbol it has.
AddZirSymbol(gen, symbol) == [gen EXCEPT !.symbols[gen.block] = @ @@ (symbol.name :> symbol)]
HasZirSymbol(gen, name) == Plain(name) \in DOMAIN gen.symbols[gen.block]

HasBlock(gen, name) == name \in DOMAIN gen.symbols
EnterBlock(gen, name) == [gen EXCEPT !.block = name]

\* new_zir_type_from_zenit_type copies a type along its members.
RECURSIVE Copies(_, _, _)
Copies(pool, t, seen) ==
  CASE t.kind = "reference" -> Copies(pool, t.element, seen)
    [] t.kind = "array"     -> Copies(pool, t.member, seen)
    [] t.kind = "struct"    ->
         /\ t.name \notin seen
         /\ \A i \in DOMAIN Members(pool, t) :
              Copies(pool, Members(pool, t)[i].type, seen \cup ({t.name} \ {NoName}))
    [] OTHER                -> TRUE
Converted(gen, t) == IF Copies(gen.ctx.pool, t, {}) THEN gen
                     ELSE [gen EXCEPT !.ctx = Crash(@, "endless")]

-----------------------------------------------------------------------------
RECURSIVE Generate(_, _)
GenerateAll(gen, nodes) == VisitAll(LAMBDA g, n : Generate(g, n), gen, nodes)

GenerateItem(gen, node) ==
  LET inner == Generate(gen, node) IN
  Giving(inner, ListOperand(Append(gen.operand.operands, inner.operand)))
GenerateList(gen, nodes) ==
  VisitAll(LAMBDA g, n : GenerateItem(g, n), Giving(gen, ListOperand(<<>>)), nodes)

\* Mutant: a second symbol of a name gets the name of the first.
Import_Plain(gen, name) ==
  LET symbol == GetSymbol(gen.ctx, Name(name))
      imported == ZirSymbol(Plain(name), symbol.at) IN
  Giving(AddZirSymbol(Converted(gen, symbol.type), imported), SymbolOperand(imported))

\* All blocks of Zenit share the global block of ZIR: the second symbol of a
\* name takes its location into its name.
Import(gen, name) ==
  LET symbol == GetSymbol(gen.ctx, Name(name))
      imported == ZirSymbol(IF HasZirSymbol(gen, name) THEN Mangled(name, symbol.at) ELSE Plain(name), symbol.at) IN
  Giving(AddZirSymbol(Converted(gen, symbol.type), imported), SymbolOperand(imported))

GenerateIdentifier(gen, node) ==
  LET table == gen.symbols[gen.block]
      mangled == Mangled(node.name, GetSymbol(gen.ctx, Name(node.name)).at)
      found == {mangled, Plain(node.name)} \cap DOMAIN table IN
  IF found = {} THEN Giving([gen EXCEPT !.ctx = Error(@, "INTERNAL", node.at)], NullOperand)
  ELSE Giving(gen, SymbolOperand(table[IF mangled \in found THEN mangled ELSE Plain(node.name)]))

NewZirTemp(gen, temp) == [AddZirSymbol(gen, temp) EXCEPT !.temps = @ + 1]

\* Implicit casts are left to the back end.
GenerateCast(gen, node) ==
  LET temp == ZirSymbol(<<"%tmp", <<gen.temps>>>>, node.at)
      typed == NewZirTemp(Converted(gen, TypeOf(gen.ctx, node)), temp)
      inner == Generate(typed, node.expression) IN
  IF node.implicit THEN Generate(gen, node.expression)
  ELSE Emit(inner, "cast", SymbolOperand(temp), inner.operand)

GenerateReference(gen, node) ==
  LET inner == Generate(gen, node.expression) IN
  CASE inner.operand.kind = "symbol" ->
         Giving(Converted(inner, TypeOf(gen.ctx, node)), ReferenceOperand(inner.operand))
    [] inner.operand.kind = "null"   -> [inner EXCEPT !.ctx = Crash(@, "null")]
    [] OTHER ->
         Giving([inner EXCEPT !.ctx = Error(@, "INVALID_REFERENCE", node.at)], NullOperand)

Elements(gen, node) == [i \in DOMAIN node.elements |-> Expression(gen.ctx, node.elements[i])]
GenerateArray(gen, node) ==
  GenerateList(Converted(gen, TypeOf(gen.ctx, node)), Elements(gen, node))
GenerateStruct(gen, node) ==
  GenerateList(Converted(gen, TypeOf(gen.ctx, node)), FieldValues(node))

\* A struct of an inner block has no ZIR block, unless a global one has its name.
GenerateStructDecl(gen, node) ==
  LET inside == EnterBlock([gen EXCEPT !.ctx = PushScope(@, "struct", node.name)], node.name)
      visited == VisitAll(LAMBDA g, f : Import(g, f.name), inside, node.members) IN
  IF ~HasBlock(gen, node.name)
  THEN [gen EXCEPT !.ctx = Error(@, "INTERNAL", node.at)]
  ELSE Giving([visited EXCEPT !.ctx = PopScope(@), !.block = gen.block], NullOperand)

GenerateVariable(gen, node) ==
  LET imported == Import(gen, node.name)
      value == Generate(imported, Expression(gen.ctx, node.value))
      decorated == GenerateList(value, node.attributes)
  IN  Emit(decorated, "variable", imported.operand, value.operand)

GenerateIf(gen, node) ==
  LET condition == Generate([gen EXCEPT !.ctx = PushScope(@, "block", node.at)],
                            Expression(gen.ctx, node.condition))
      then == Generate(Emit(condition, "if_false", NullOperand, condition.operand), node.then)
      whole == IF node.else = <<>> THEN then
               ELSE Generate(Emit(then, "jump", NullOperand, NullOperand), node.else[1])
  IN  Giving([whole EXCEPT !.ctx = PopScope(@)], NullOperand)

GenerateBlock(gen, node) ==
  LET inside == GenerateAll([gen EXCEPT !.ctx = PushScope(@, "block", node.at)], node.statements) IN
  Giving([inside EXCEPT !.ctx = PopScope(@)], NullOperand)

Generate(gen, node) ==
  IF ~Visiting(gen.ctx) THEN gen
  ELSE CASE node.node \in {"uint", "bool"}      -> Giving(gen, Literal(node))
         [] node.node = "id"                    -> GenerateIdentifier(gen, node)
         [] node.node \in {"cast", "cast_impl"} -> GenerateCast(gen, node)
         [] node.node = "ref"                   -> GenerateReference(gen, node)
         [] node.node = "array"                 -> GenerateArray(gen, node)
         [] node.node = "struct"                -> GenerateStruct(gen, node)
         [] node.node = "struct_decl"           -> GenerateStructDecl(gen, node)
         [] node.node = "variable"              -> GenerateVariable(gen, node)
         [] node.node = "if"                    -> GenerateIf(gen, node)
         [] node.node = "block"                 -> GenerateBlock(gen, node)
=============================================================================

------------------------------ MODULE FrontEnd ------------------------------
(***************************************************************************)
(* The passes of the front end over one program, one top-level declaration *)
(* per step, as main.c runs them: resolution of types and of symbols,      *)
(* inference, type checking and ZIR generation.                            *)
(***************************************************************************)
EXTENDS GenerateZir

CONSTANT Programs   \* sequences of top-level nodes

ASSUME ProgramsAssumption == \A p \in Programs : \A i \in DOMAIN p : p[i].at = <<i>>

VARIABLES program, phase, next,
          ctx,       \* the context of the passes up to the type check
          gen,       \* the ZIR generator, once there is one
          outcome

vars == <<program, phase, next, ctx, gen, outcome>>

NoGenerator == [code |-> <<>>]

Init ==
  /\ program \in Programs
  /\ phase = "types" /\ next = 1
  /\ ctx = NewContext /\ gen = NoGenerator
  /\ outcome = "running"

Pass(p) == outcome = "running" /\ phase = p /\ next <= Len(program)

\* A pass goes on after errors, and ends where the program crashes.
Visited(fault) ==
  /\ next' = next + 1
  /\ outcome' = IF fault = "none" THEN "running" ELSE fault
  /\ UNCHANGED <<program, phase>>

VisitNext(p, after) == Pass(p) /\ ctx' = after /\ Visited(after.fault) /\ UNCHANGED gen

ResolveNextType == Pass("types") /\ VisitNext("types", ResolveTypes(ctx, program[next]))
ResolveNext == Pass("symbols") /\ VisitNext("symbols", Resolve(ctx, program[next]))
InferNext == Pass("infer") /\ VisitNext("infer", Infer(ctx, program[next], NoSlot, "none").ctx)
CheckNext == Pass("check") /\ VisitNext("check", Check(ctx, program[next]))
GenerateNext ==
  /\ Pass("zir")
  /\ gen' = Generate(gen, program[next])
  /\ Visited(gen'.ctx.fault)
  /\ UNCHANGED ctx

\* Every pass but the first one of resolution must have reported nothing.
Continues == phase = "types" \/ ctx.errors = {}
Following == [types |-> "symbols", symbols |-> "infer", infer |-> "check", check |-> "zir"]

EndPass ==
  /\ outcome = "running" /\ phase # "zir" /\ next > Len(program)
  /\ IF Continues THEN phase' = Following[phase] /\ next' = 1 /\ UNCHANGED outcome
     ELSE outcome' = "rejected" /\ UNCHANGED <<phase, next>>
  /\ gen' = IF phase' = "zir" THEN NewGenerator(ctx) ELSE gen
  /\ UNCHANGED <<program, ctx>>

Finish ==
  /\ outcome = "running" /\ phase = "zir" /\ next > Len(program)
  /\ outcome' = IF gen.ctx.errors = {} THEN "accepted" ELSE "rejected"
  /\ UNCHANGED <<program, phase, next, ctx, gen>>

Next ==
  ResolveNextType \/ ResolveNext \/ InferNext \/ CheckNext \/ GenerateNext \/ EndPass \/ Finish

Spec == Init /\ [][Next]_vars
-----------------------------------------------------------------------------
(* The program as its text has it, without scopes and tables.              *)

Children(node) ==
  CASE node.node \in {"uint", "bool", "id"} -> {}
    [] node.node \in {"ref", "cast"} -> {node.expression}
    [] node.node = "array"           -> Range(node.elements)
    [] node.node = "struct"          -> Range(FieldValues(node))
    [] node.node = "variable"        -> {node.value} \cup Range(node.attributes)
    [] node.node = "struct_decl"     -> Range(node.attributes)
    [] node.node = "if"              -> {node.condition, node.then} \cup Range(node.else)
    [] node.node = "block"           -> Range(node.statements)
RECURSIVE Nodes(_)
Nodes(node) == {node} \cup UNION {Nodes(c) : c \in Children(node)}

Every == UNION {Nodes(program[i]) : i \in DOMAIN program}
Kind(k) == {n \in Every : n.node = k}
Variables == Kind("variable")
Structs == Kind("struct_decl")
NamedLiterals == {n \in Kind("struct") : n.name # NoName}

\* A declaration reaches the rest of the block it is in, blocks in it included.
Encloses(d, at) == IsStrictPrefix(Front(d), at)
Reaches(d, at) == Encloses(d, at) /\ Last(d) < at[Len(d)]
Reaching(declarations, n) == {d \in declarations : d.name = n.name /\ Reaches(d.at, n.at)}
Duplicates(declarations) == {d \in declarations : Reaching(declarations, d) # {}}
Declaration(id) == CHOOSE d \in Variables : d.name = id.name /\ Reaches(d.at, id.at)

\* The struct a name stands for: in the innermost block, even if it comes later.
Candidates(name, at) == {d \in Structs \ Duplicates(Structs) : d.name = name /\ Encloses(d.at, at)}
StructOf(name, at) ==
  CHOOSE d \in Candidates(name, at) : \A e \in Candidates(name, at) : Len(e.at) <= Len(d.at)
FieldNames(d) == {Name(d.members[i].name) : i \in DOMAIN d.members}

\* What is not visited: the attributes of variables that are refused, structs
\* declared again, and the fields of literals of a struct that is not there.
Unknown == {n \in NamedLiterals : Candidates(n.name, n.at) = {}}
Skipped(n) ==
  \/ \E d \in Duplicates(Variables) : \E i \in DOMAIN d.attributes : IsPrefix(d.attributes[i].at, n.at)
  \/ \E d \in Duplicates(Structs) \cup Unknown : IsStrictPrefix(d.at, n.at)

NameErrors ==
  {<<"DUPLICATED_SYMBOL", d.at>> : d \in Duplicates(Variables) \cup Duplicates(Structs)} \cup
  {<<"MISSING_SYMBOL", n.at>> : n \in
     {m \in Unknown \cup {id \in Kind("id") : Reaching(Variables, id) = {}} : ~Skipped(m)}}
MemberErrors ==
  UNION {LET d == StructOf(n.name, n.at)
             declared == IF Reaches(d.at, n.at) THEN FieldNames(d) ELSE {}
             given == {Name(m) : m \in Given(n)} IN
         {<<"UNKNOWN_MEMBER", n.members[i].value.at>> :
            i \in {j \in DOMAIN n.members : Name(n.members[j].name) \notin declared}} \cup
         (IF declared \subseteq given THEN {} ELSE {<<"UNINITIALIZED_MEMBER", n.at>>})
         : n \in {m \in NamedLiterals \ Unknown : ~Skipped(m)}}
FieldLocations == UNION {{d.members[i].at : i \in DOMAIN d.members} : d \in Structs}

\* Structs that contain themselves, through fields, arrays or references.
RECURSIVE Mentions(_)
Mentions(hint) == CASE hint.kind = "struct"    -> {hint.name}
                    [] hint.kind = "array"     -> Mentions(hint.member)
                    [] hint.kind = "reference" -> Mentions(hint.element)
                    [] OTHER                   -> {}
RECURSIVE ContainedIn(_)
ContainedIn(names) ==
  LET more == names \cup UNION {UNION {Mentions(d.members[i].hint) : i \in DOMAIN d.members} :
                                  d \in {e \in Structs : e.name \in names}} IN
  IF more = names THEN names ELSE ContainedIn(more)
ContainsItself(d) ==
  d.name \in ContainedIn(UNION {Mentions(d.members[i].hint) : i \in DOMAIN d.members})

\* The value of an expression fits a type, by the values and not by their types.
RECURSIVE ValueFits(_, _)
ValueFits(type, e) ==
  CASE e.node = "uint" -> type.kind = "uint" /\ e.size <= type.size
    [] e.node = "bool" -> type.kind = "bool"
    [] e.node = "id"   -> \E p \in DOMAIN ctx.scopes : \E k \in DOMAIN ctx.scopes[p] :
                            /\ ctx.scopes[p][k].at = Declaration(e).at
                            /\ Assignable(ctx.pool, type, ctx.scopes[p][k].type)
    [] e.node = "cast" -> e.hint.kind \in {"uint", "bool"} => Assignable(ctx.pool, type, e.hint)
    [] e.node = "ref"  -> type.kind = "reference"
    [] e.node = "array" ->
         /\ type.kind = "array" /\ type.length = Len(e.elements)
         /\ \A i \in DOMAIN e.elements : ValueFits(type.member, e.elements[i])
    [] e.node = "struct" ->
         /\ type.kind = "struct" /\ (BothNamed(type, e) => type.name = e.name)
         /\ LET members == Members(ctx.pool, type) IN
            /\ {members[i].name : i \in DOMAIN members} = Given(e)
            /\ \A i \in DOMAIN e.members :
                 ValueFits(MemberType(members, e.members[i].name), e.members[i].value)

\* An array without elements has an element type of its own, none.
RECURSIVE Known(_)
Known(type) ==
  CASE type.kind = "none"      -> FALSE
    [] type.kind = "array"     -> Known(type.member)
    [] type.kind = "reference" -> Known(type.element)
    [] type.kind = "struct"    -> \A i \in DOMAIN type.members : Known(type.members[i].type)
    [] OTHER                   -> TRUE

\* What an operand stands for, and what an expression should stand for.
RECURSIVE Place(_), Meaning(_)
Place(operand) ==
  CASE operand.kind = "symbol"    -> [kind |-> "symbol", at |-> operand.symbol.at]
    [] operand.kind = "reference" -> ReferenceOperand(Place(operand.of))
    [] operand.kind = "list"      ->
         ListOperand([i \in DOMAIN operand.operands |-> Place(operand.operands[i])])
    [] OTHER                      -> operand
Meaning(e) ==
  CASE e.node \in {"uint", "bool"} -> Literal(e)
    [] e.node = "id"     -> [kind |-> "symbol", at |-> Declaration(e).at]
    [] e.node = "cast"   -> [kind |-> "symbol", at |-> e.at]
    [] e.node = "ref"    -> ReferenceOperand(Meaning(e.expression))
    [] e.node = "array"  -> ListOperand([i \in DOMAIN e.elements |-> Meaning(e.elements[i])])
    [] e.node = "struct" -> ListOperand([i \in DOMAIN e.members |-> Meaning(e.members[i].value)])

RECURSIVE Used(_)
Used(operand) == CASE operand.kind = "symbol"    -> {operand.at}
                   [] operand.kind = "reference" -> Used(operand.of)
                   [] operand.kind = "list"      -> UNION {Used(o) : o \in Range(operand.operands)}
                   [] OTHER                      -> {}

-----------------------------------------------------------------------------
(* Properties.                                                             *)

\* The variables have their types, scopes form a tree, and between two
\* declarations every pass is back in the global scope and the global block.
FrontTypeOK ==
  /\ phase \in {"types", "symbols", "infer", "check", "zir"}
  /\ next \in 1..(Len(program) + 1)
  /\ outcome \in {"running", "accepted", "rejected", "assert", "null", "endless"}
  /\ \A p \in DOMAIN ctx.scopes \ {Global} : Front(p) \in DOMAIN ctx.scopes
  /\ Visiting(ctx) => ctx.current = Global
  /\ gen # NoGenerator /\ Visiting(gen.ctx) => gen.ctx.current = Global /\ gen.block = NoName

\* When names are resolved, the names and members reported are those the text
\* says are declared twice, are not declared where they are used, are given to
\* a struct without them or are left out (resolve.c, program.c:110-192).
NamesResolved ==
  phase = "symbols" /\ next > Len(program) /\ outcome = "running" =>
    {e \in ctx.errors : e[1] # "INFERENCE" /\ e[2] \notin FieldLocations} = NameErrors \cup MemberErrors

KeptTable(table, later) ==
  LET named(t) == {k \in DOMAIN t : k[1] = "name"} IN
  /\ named(later) = named(table)
  /\ \A k \in named(table) :
       later[k] # table[k] => \E v \in Variables : v.at = table[k].at /\ v.hint = NoneType
Kept ==
  /\ DOMAIN ctx'.scopes = DOMAIN ctx.scopes
  /\ \A p \in DOMAIN ctx.scopes : KeptTable(ctx.scopes[p], ctx'.scopes[p])
  /\ ctx'.pool = ctx.pool
  /\ ctx.errors \subseteq ctx'.errors

\* After resolution, no pass adds a scope or a declaration, withdraws an error,
\* or changes the members of a struct or the type of a variable that was given
\* one (infer.c, check.c, zir.c enter the scopes again).
LaterPassesKeepDeclarations == [][(phase \in {"infer", "check", "zir"}) => Kept]_vars

\* Whatever inference made of the types, a program that passes the type check
\* only gives a variable a value its type can hold (check.c:362-403, infer.c).
\* Structs of one name share one list of members, so names are distinct here,
\* and a type that is not known to the end is not checked at all.
ValuesFit ==
  phase = "zir" /\ (\A d, e \in Structs : d.name = e.name => d = e) =>
    \A v \in Variables : \A p \in DOMAIN ctx.scopes :
      Name(v.name) \in DOMAIN ctx.scopes[p] =>
        LET symbol == ctx.scopes[p][Name(v.name)] IN
        symbol.at = v.at /\ Known(symbol.type) => ValueFits(symbol.type, v.value)

\* The generated code declares every variable and makes every cast of the text
\* once, after what it uses, from the variables its names stand for, although
\* all blocks share one table and inner symbols are renamed (zir.c:82-102).
ZirMeansSource ==
  outcome = "accepted" =>
    LET made == SelectSeq(gen.code, LAMBDA c : c.op \in {"variable", "cast"})
        at(i) == made[i].dest.symbol.at IN
    /\ Len(made) = Cardinality(Variables \cup Kind("cast"))
    /\ \A i \in DOMAIN made :
         /\ \E n \in Variables \cup Kind("cast") :
              /\ n.at = at(i)
              /\ Place(made[i].source) = Meaning(IF n.node = "variable" THEN n.value ELSE n.expression)
         /\ Used(Place(made[i].source)) \subseteq {at(j) : j \in 1..(i - 1)}
         /\ \A j \in 1..(i - 1) : made[j].dest.symbol.name # made[i].dest.symbol.name

\* Where the compiler does not end with an answer, the text explains it: a
\* struct literal before the struct (symbol.c:7), an unnamed literal where a
\* struct without one of its members is expected (struct.h:99-101), a struct
\* that contains itself (program.c:235).  None of the latter is accepted.
EndsExplained ==
  /\ outcome = "assert" => \E n \in NamedLiterals : ~\E d \in Structs : d.name = n.name /\ Reaches(d.at, n.at)
  /\ outcome = "null" =>
       \E v \in Variables : \E n \in Nodes(v.value) :
         /\ n.node = "struct" /\ n.name = NoName
         /\ \E name \in ContainedIn(Mentions(v.hint)) :
              \/ \A d \in Structs : d.name # name
              \/ \E d \in Structs : d.name = name /\ ~(Given(n) \subseteq {m[2] : m \in FieldNames(d)})
              \/ Candidates(name, v.at) = {}
  /\ outcome = "endless" => \E d \in Structs : ContainsItself(d)
  /\ outcome = "accepted" => \A d \in Structs : ~ContainsItself(d)

\* "We make sure all the functions, structs, etc are declared in ZIR" (zir.c:765).
EveryStructHasABlock ==
  phase = "zir" => \A e \in gen.ctx.errors : e[1] # "INTERNAL"
=============================================================================

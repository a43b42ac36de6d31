----------------------------- MODULE MCFrontEnd -----------------------------
(***************************************************************************)
(* Small programs on three themes: names in nested blocks, the types of    *)
(* two variables, and structs with their literals.  A program is written   *)
(* without locations, and Locate puts them in.                             *)
(***************************************************************************)
EXTENDS FrontEnd

\* What is in a list: its position, after the location of the parent.
RECURSIVE Locate(_, _)
LocateAll(nodes, at) == [i \in DOMAIN nodes |-> Locate(nodes[i], Append(at, i))]
Locate(node, at) ==
  LET n == [node EXCEPT !.at = at] IN
  CASE n.node \in {"uint", "bool", "id"} -> n
    [] n.node \in {"ref", "cast"} -> [n EXCEPT !.expression = Locate(@, Append(at, 1))]
    [] n.node = "array"  -> [n EXCEPT !.elements = LocateAll(@, at)]
    [] n.node = "struct" ->
         [n EXCEPT !.members = [i \in DOMAIN @ |-> [@[i] EXCEPT !.value = Locate(@, Append(at, i))]]]
    [] n.node = "variable" ->
         [n EXCEPT !.value = Locate(@, Append(at, 1)), !.attributes = LocateAll(@, Append(at, 2))]
    [] n.node = "struct_decl" ->
         [n EXCEPT !.members = [i \in DOMAIN @ |-> [@[i] EXCEPT !.at = Append(at, 10 + i)]],
                   !.attributes = LocateAll(@, Append(at, 2))]
    [] n.node = "if" ->
         [n EXCEPT !.condition = Locate(@, Append(at, 1)), !.then = Locate(@, Append(at, 2)),
                   !.else = [i \in DOMAIN @ |-> Locate(@[i], Append(at, 3))]]
    [] n.node = "block" -> [n EXCEPT !.statements = LocateAll(@, at)]

U8 == UintType(1)
U16 == UintType(2)
Byte == UintNode(<<>>, 1)
Word == UintNode(<<>>, 2)
True == BoolNode(<<>>)
Id(name) == IdentifierNode(<<>>, name)
Ref(e) == ReferenceNode(<<>>, e)
Cast(hint, e) == CastNode(<<>>, hint, e, FALSE)
List(elements) == ArrayNode(<<>>, elements)
Field(name, value) == [name |-> name, value |-> value]
Literal_(name, fields) == StructNode(<<>>, name, fields)
Var(name, hint, value) == VariableNode(<<>>, name, hint, value, <<>>)
Declared(name, hint) == [at |-> <<>>, name |-> name, hint |-> hint]
Struct(name, fields) == StructDeclNode(<<>>, name, fields, <<>>)
Block(statements) == BlockNode(<<>>, statements)
If(condition, then, else) == IfNode(<<>>, condition, Block(then), else)

\* Names: what is declared where.
Leaf == {Var(n, NoneType, e) : n \in {"a", "b"}, e \in {Byte, Id("a"), Id("b")}}
Short == {Var("a", NoneType, Byte), Var("b", NoneType, Id("a"))}
Scoped ==
  {Block(<<s>>) : s \in Leaf}
  \cup {Block(<<s, t>>) : s \in Short, t \in {Id("a"), Block(<<Var("a", NoneType, Byte)>>)}}
  \cup {If(Id("a"), <<s>>, <<Block(<<t>>)>>) : s \in Short, t \in Short}
  \cup {If(True, <<Var("b", NoneType, Byte)>>, <<If(Id("b"), <<s>>, <<>>)>>) : s \in Short}
NamePrograms ==
  LET some == Leaf \cup Scoped IN
  {<<x>> : x \in some} \cup {<<x, y>> : x \in some, y \in some}
  \cup {<<x, y, z>> : x \in Short \cup Scoped, y \in Short \cup Scoped, z \in Short \cup Scoped}

\* Types: two variables, the second made from the first.
Hints == {NoneType, U8, U16, BoolType, ArrayType(2, U16), ReferenceType(U8)}
Auto(member) == ArrayHint(0, TRUE, member)
FirstHints == {IF h.kind = "array" THEN ArrayHint(2, FALSE, U16) ELSE h : h \in Hints} \cup {Auto(U8)}
FirstValues == {Byte, Word, True, List(<<Byte, Word>>), List(<<>>), Cast(U8, Word), Cast(NoneType, Word)}
SecondHints == {NoneType, U8, U16, BoolType, Auto(U8), ArrayHint(2, FALSE, U16), ReferenceType(U8)}
SecondValues ==
  {Id("a"), Ref(Id("a")), Cast(U8, Id("a")), Cast(NoneType, Id("a")), List(<<Id("a"), Word>>),
   List(<<List(<<Id("a")>>), List(<<Byte, Word>>)>>), Literal_(NoName, <<Field("x", Id("a"))>>)}
TypePrograms ==
  {<<Var("a", h, e), Var("b", i, f)>> : h \in FirstHints, e \in FirstValues,
                                        i \in SecondHints, f \in SecondValues}
  \cup {<<Var("a", NoneType, e), If(f, <<Var("b", U8, g)>>, <<>>)>> :
          e \in FirstValues, f \in SecondValues, g \in SecondValues}

\* Structs: declarations, literals with and without a name, before and after.
S == NamedStruct("S")
T == NamedStruct("T")
Declarations ==
  {Struct("S", <<Declared("x", h)>>) : h \in {U8, U16, S, T, ReferenceType(S)}}
  \cup {Struct("S", <<Declared("x", U8), Declared("y", h)>>) : h \in {U16, ReferenceType(T)}}
  \cup {Struct("T", <<Declared("x", h)>>) : h \in {U16, S}}
  \cup {Struct("S", <<Declared("x", U8), Declared("x", U8)>>)}
Fields(e) == {<<Field("x", e)>>, <<Field("x", e), Field("y", Byte)>>}
Uses ==
  UNION {{Var("s", NoneType, Literal_("S", f)), Var("s", S, Literal_("S", f)),
          Var("s", S, Literal_(NoName, f)), Var("s", T, Literal_(NoName, f))} :
            f \in Fields(Byte) \cup Fields(Word)}
  \cup {Var("s", T, Literal_(NoName, <<Field("x", Literal_(NoName, <<Field("x", Byte)>>))>>)),
        Var("t", NoneType, Id("s")), Var("t", ReferenceType(S), Ref(Id("s")))}
\* Only with structs that do not contain themselves: the comparison of two of
\* those, member by member, does not end.
NestedUse == Var("s", T, Literal_(NoName, <<Field("x", Literal_("S", <<Field("x", Byte)>>))>>))
Flat(d) == d.name = "S" /\ \A i \in DOMAIN d.members : d.members[i].hint \in {U8, U16}
Wrapped(n) == {n, Block(<<n>>)}
StructPrograms ==
  UNION {UNION {{<<d, u>>, <<u, d>>} : d \in Wrapped(e), u \in Wrapped(v)}
           \cup {<<Block(<<e, v>>)>>, <<Block(<<v, e>>)>>} : e \in Declarations, v \in Uses}
  \cup {<<d, e, u>> : d \in Declarations, e \in UNION {Wrapped(f) : f \in Declarations}, u \in Uses}
  \cup {<<d, Struct("T", <<Declared("x", S)>>), NestedUse>> : d \in {e \in Declarations : Flat(e)}}
  \cup {<<[d EXCEPT !.attributes = <<a>>], [Var("s", S, Literal_(NoName, <<Field("x", Byte)>>))
              EXCEPT !.attributes = <<b>>]>> :
          d \in Declarations, a \in {Byte, Literal_("S", <<Field("x", Byte)>>)},
          b \in {Id("s"), Literal_("S", <<Field("x", Word)>>)}}

MCPrograms ==
  {LocateAll(p, <<>>) : p \in NamePrograms \cup TypePrograms \cup StructPrograms}
=============================================================================

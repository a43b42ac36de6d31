---------------------------- MODULE ZenitGrammar ----------------------------
(***************************************************************************)
(* The language of the compiler as a context-free grammar over tokens: the *)
(* one docs/grammar.txt and the comments of front-end/parser/parse.c       *)
(* write down (Documented), or the one the parser is meant to recognise.   *)
(* A set of forms holds what may still follow: sequences of symbols.       *)
(* Reading a token derives each form to one that begins with it.           *)
(***************************************************************************)
EXTENDS Naturals, Sequences

CONSTANT Documented

\* Integers in and out of range; the reserved words and the punctuation are their own tokens.
Tokens == {"int", "bigint", "bool", "id", "var", "struct", "cast", "if", "else", "&", "=",
           ",", ";", ":", "{", "}", "[", "]", "(", ")", "#", "unknown"}
ASSUME GrammarAssumption == Documented \in BOOLEAN

Star(x, more) == {<<>>, <<x, more>>}
Optional(seqs) == {<<>>} \cup seqs

\* Where the parser departs from the documented rules: an empty statement after each declaration of
\* the program, if without else, attributes with empty or comma-ended properties, struct
\* literals without a name (not at the start of a statement) and types of any nesting whose
\* lengths may be missing outside structs.
Departures ==
  [program    |-> {<<>>, <<"declaration", "empty", "program">>},
   properties |-> {<<>>, <<"property">>, <<"property", ",", "properties">>},
   arguments  |-> {<<>>, <<"(", "properties", ")">>},
   alternative |-> {<<>>, <<"else", "if_statement">>, <<"else", "block">>},
   literal    |-> {<<"struct_literal">>},
   type       |-> {<<"id">>, <<"&", "type">>, <<"[", "int", "]", "type">>, <<"[", "]", "type">>},
   field_type |-> {<<"id">>, <<"&", "field_type">>, <<"[", "int", "]", "field_type">>}]
AsDocumented ==
  [program    |-> {<<"declarations", "empty">>},
   properties |-> {<<"property">>, <<"property", ",", "properties">>},
   arguments  |-> {<<>>, <<"(", "properties", ")">>},
   alternative |-> {<<"else", "if_statement">>, <<"else", "block">>},
   literal    |-> {},
   type       |-> {<<"id">>, <<"&", "id">>, <<"[", "int", "]", "id">>, <<"[", "int", "]", "&", "id">>},
   field_type |-> {<<"type">>}]

Common ==
  [empty        |-> Optional({<<";">>}),
   declarations |-> Star("declaration", "declarations"),
   declaration  |-> {<<"attributes", "variable">>, <<"attributes", "struct_declaration">>, <<"statement">>},
   attributes   |-> Optional({<<"#", "[", "id", "arguments", "]", "attributes">>}),
   property     |-> {<<"id", ":", "expression">>},
   struct_declaration |-> {<<"struct", "id", "{", "fields", "}">>},
   fields       |-> {<<"field">>, <<"field", "fields">>},
   field        |-> {<<"id", ":", "field_type", ";">>},
   variable     |-> {<<"var", "id", "hint", "=", "expression", ";">>},
   hint         |-> Optional({<<":", "type">>}),
   statement    |-> {<<"named", ";">>, <<"if_statement">>, <<"block">>},
   if_statement |-> {<<"if", "(", "expression", ")", "block", "alternative">>},
   block        |-> {<<"{", "declarations", "}">>},
   named        |-> {<<"cast", "(", "expression", "hint", ")">>, <<"array">>, <<"&", "expression">>,
                     <<"id">>, <<"id", "struct_literal">>, <<"int">>, <<"bool">>},
   expression   |-> {<<"named">>, <<"literal">>},
   array        |-> {<<"[", "]">>, <<"[", "elements", "]">>},
   elements     |-> {<<"expression">>, <<"expression", ",">>, <<"expression", ",", "elements">>},
   struct_literal |-> {<<"{", "members", "}">>},
   members      |-> {<<"member">>, <<"member", ",", "members">>},
   member       |-> {<<"id", ":", "expression">>}]

Rules == IF Documented THEN AsDocumented ELSE Departures
Productions(symbol) == IF symbol \in DOMAIN Common THEN Common[symbol] ELSE Rules[symbol]
Nonterminals == DOMAIN Common \cup DOMAIN Rules

\* A step of the leftmost derivations of the forms that do not begin with a token.
Leftmost(forms) ==
  UNION {IF f # <<>> /\ Head(f) \in Nonterminals
         THEN {p \o Tail(f) : p \in Productions(Head(f))} ELSE {f} : f \in forms}

\* How many symbols in a row give way before a token comes first: at most the end of an if, with
\* alternative, empty, program, declaration, statement, named and array.
MaxSteps == 7

\* The forms a set of forms derives by its leftmost symbols, up to a token.
Expanded(forms) ==
  LET after[n \in 0..MaxSteps] == IF n = 0 THEN forms ELSE Leftmost(after[n - 1])
  IN  after[MaxSteps]

Start == {<<"program">>}
\* What may follow once token t is read; nothing if t cannot come here.
Derive(forms, t) == {Tail(f) : f \in {g \in Expanded(forms) : g # <<>> /\ Head(g) = t}}
MayEnd(forms) == <<>> \in Expanded(forms)
=============================================================================

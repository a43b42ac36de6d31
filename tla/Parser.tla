------------------------------- MODULE Parser -------------------------------
(***************************************************************************)
(* The recursive descent parser (front-end/parser/parse.c).  A frame of    *)
(* the stack is a call of a parse function and the point it has reached;   *)
(* a step is a decision on the next token, and tokens are chosen as they   *)
(* are needed.  A function returns a node, a node with a hole (an array or *)
(* reference type without its element) or NULL.  The grammar runs along as *)
(* a history of what the consumed tokens allow.                            *)
(***************************************************************************)
EXTENDS ZenitGrammar

CONSTANTS Beginnings,    \* what programs begin with
          MaxBeginning,  \* bound on the tokens of a beginning
          MaxTokens      \* how many more tokens they may have

ASSUME ParserAssumption ==
  /\ MaxTokens \in Nat /\ MaxBeginning \in Nat \ {0}
  /\ <<>> \in Beginnings /\ Beginnings \subseteq Seq(Tokens)
  /\ \A b \in Beginnings : Len(b) <= MaxBeginning

VARIABLES look,    \* the token zenit_parser_peek answers
          given,   \* the rest of the beginning
          left,    \* how many more tokens the source may have
          stack,   \* calls in progress, the innermost first
          ret,     \* what the last call returned
          failed,  \* the context holds an error
          forms    \* history: what the grammar allows after the consumed tokens

vars == <<look, given, left, stack, ret, failed, forms>>
source == <<look, given, left, forms>>

Eof == "eof"
TokenTypes == Tokens \cup {Eof}
Results == {"none", "node", "holed", "null", "found", "lost"}
\* bigint is an INTEGER token whose value does not fit 16 bits, or that is no number.
Is(t) == look = t \/ (t = "int" /\ look = "bigint")

HasInput == look # Eof
Consume ==
  /\ \/ /\ given # <<>>
        /\ look' = Head(given) /\ given' = Tail(given)
        /\ UNCHANGED left
     \/ /\ given = <<>>
        /\ look' \in IF left = 0 THEN {Eof} ELSE TokenTypes
        /\ left' = IF look' = Eof THEN 0 ELSE left - 1
        /\ UNCHANGED given
  /\ forms' = Derive(forms, look)
Report == failed' = TRUE

Frame(fn, flag) == [fn |-> fn, at |-> "start", flag |-> flag]
Top == stack[1]
At(fn, point) == stack # <<>> /\ Top.fn = fn /\ Top.at = point

Goto(point) == stack' = <<[Top EXCEPT !.at = point]>> \o Tail(stack) /\ UNCHANGED ret
GotoFlag(point, flag) ==
  stack' = <<[Top EXCEPT !.at = point, !.flag = flag]>> \o Tail(stack) /\ UNCHANGED ret
Return(r) == stack' = Tail(stack) /\ ret' = r
Call(frame, point) ==
  stack' = <<frame, [Top EXCEPT !.at = point]>> \o Tail(stack) /\ ret' = "none"
Become(frame) == stack' = <<frame>> \o Tail(stack) /\ UNCHANGED ret
Continue(point) == IF point = "end" THEN Return("node") ELSE Goto(point)
Quiet == UNCHANGED <<source, failed>>
\* Mutant: a missing token is noticed but not reported.
Expect_Silent(fn, point, t, next) ==
  /\ At(fn, point)
  /\ IF Is(t) THEN Consume /\ Continue(next) ELSE Return("null") /\ UNCHANGED source
  /\ UNCHANGED failed

\* consume_or_return and consume_or_goto: the token, or an error and NULL.
Expect(fn, point, t, next) ==
  /\ At(fn, point)
  /\ \/ /\ Is(t)
        /\ Consume
        /\ Continue(next)
        /\ UNCHANGED failed
     \/ /\ ~Is(t)
        /\ Report
        /\ Return("null")
        /\ UNCHANGED source
\* assert_or_return after a call: the caller gives up too.
Child(fn, point, frame, called, next) ==
  \/ At(fn, point) /\ Call(frame, called) /\ Quiet
  \/ /\ At(fn, called)
     /\ IF ret = "null" THEN Return("null") ELSE Continue(next)
     /\ Quiet
\* An optional token: where to go on with and without it.
Option(fn, point, t, with, without) ==
  /\ At(fn, point)
  /\ IF Is(t) THEN Consume /\ Goto(with) ELSE UNCHANGED source /\ Goto(without)
  /\ UNCHANGED failed
Select(fn, point, choices, otherwise) ==
  /\ At(fn, point)
  /\ \/ \E c \in choices : Is(c[1]) /\ Become(Frame(c[2], Top.flag))
     \/ ~(\E c \in choices : Is(c[1])) /\ Become(Frame(otherwise, Top.flag))
  /\ Quiet
Test(fn, point, condition, yes, no) ==
  At(fn, point) /\ Goto(IF condition THEN yes ELSE no) /\ Quiet

-----------------------------------------------------------------------------
\* Mutant: stops before the closing brace instead of going on to the semicolon.
Synchronize_BeforeBrace ==
  /\ At("synchronize", "start")
  /\ \/ HasInput /\ ~Is("}") /\ Consume /\ (IF Is(";") THEN Return("found") ELSE Goto("start"))
     \/ Is("}") /\ Return("found") /\ UNCHANGED source
     \/ ~HasInput /\ Return("lost") /\ UNCHANGED source
  /\ UNCHANGED failed

\* synchronize: consumes up to and including ";" (flag) or "}".
Synchronize ==
  /\ At("synchronize", "start")
  /\ \/ /\ HasInput
        /\ Consume
        /\ IF look = (IF Top.flag THEN ";" ELSE "}") THEN Return("found") ELSE Goto("start")
     \/ /\ ~HasInput
        /\ Return("lost")
        /\ UNCHANGED source
  /\ UNCHANGED failed

\* The flag of a type is allow_partial_types.
ParseType == Select("type", "start", {<<"&", "reference_type">>, <<"[", "array_type">>}, "type_name")
ParseTypeName == Expect("type_name", "start", "id", "end")
\* Mutant: the element of a partial type must be complete.
TypeElement_Complete(fn) ==
  \/ At(fn, "element") /\ Call(Frame("type", FALSE), "made") /\ Quiet
  \/ At(fn, "made") /\ Return(IF ret = "null" THEN "holed" ELSE ret) /\ Quiet

TypeElement(fn) ==
  \/ At(fn, "element") /\ Call(Frame("type", Top.flag), "made") /\ Quiet
  \/ At(fn, "made") /\ Return(IF ret = "null" THEN "holed" ELSE ret) /\ Quiet
\* Mutant: the "&" is left for the element type, which begins with it again.
ParseReferenceType_KeepsAmpersand ==
  \/ At("reference_type", "start") /\ Goto("element") /\ Quiet
  \/ TypeElement("reference_type")

ParseReferenceType ==
  \/ Expect("reference_type", "start", "&", "element")
  \/ TypeElement("reference_type")
ParseArrayType ==
  \/ Expect("array_type", "start", "[", "length")
  \/ /\ At("array_type", "length")
     /\ \/ look = "int" /\ Consume /\ Goto("close") /\ UNCHANGED failed
        \/ look = "bigint" /\ Consume /\ Report /\ Return("null")
        \/ /\ ~Is("int")
           /\ failed' = (failed \/ ~Top.flag)
           /\ Goto("close") /\ UNCHANGED source
  \/ Expect("array_type", "close", "]", "element")
  \/ TypeElement("array_type")

-----------------------------------------------------------------------------
ParseExpression ==
  Select("expression", "start",
    {<<"cast", "cast">>, <<"[", "array">>, <<"{", "struct_literal">>, <<"&", "reference">>,
     <<"id", "identifier">>}, "literal")
\* Mutant: any other token is taken for a literal.
ParseLiteral_Any ==
  /\ At("literal", "start")
  /\ \/ HasInput /\ Consume /\ Return("node") /\ UNCHANGED failed
     \/ ~HasInput /\ Report /\ Return("null") /\ UNCHANGED source

ParseLiteral ==
  /\ At("literal", "start")
  /\ \/ look \in {"int", "bool"} /\ Consume /\ Return("node") /\ UNCHANGED failed
     \/ look = "bigint" /\ Consume /\ Report /\ Return("null")
     \/ look \notin {"int", "bigint", "bool"} /\ Report /\ Return("null") /\ UNCHANGED source
ParseCast ==
  \/ Expect("cast", "start", "cast", "open")
  \/ Expect("cast", "open", "(", "operand")
  \/ Child("cast", "operand", Frame("expression", FALSE), "operand done", "colon")
  \/ Option("cast", "colon", ":", "hint", "close")
  \/ Child("cast", "hint", Frame("type", TRUE), "hint done", "close")
  \/ Expect("cast", "close", ")", "end")
ParseArray ==
  \/ Expect("array", "start", "[", "loop")
  \/ Test("array", "loop", HasInput /\ ~Is("]"), "element", "close")
  \/ Child("array", "element", Frame("expression", FALSE), "element done", "comma")
  \/ At("array", "comma") /\ Is("]") /\ Goto("loop") /\ Quiet
  \/ ~Is("]") /\ Expect("array", "comma", ",", "loop")
  \/ Expect("array", "close", "]", "end")
ParseReference ==
  \/ Expect("reference", "start", "&", "operand")
  \/ Child("reference", "operand", Frame("expression", FALSE), "operand done", "end")
\* The name of a struct literal is consumed before the literal is parsed.
ParseIdentifier ==
  \/ Expect("identifier", "start", "id", "named")
  \/ /\ At("identifier", "named")
     /\ IF Is("{") THEN Become(Frame("struct_literal", FALSE)) ELSE Return("node")
     /\ Quiet
ParseStructField ==
  \/ Expect("struct_field", "start", "id", "colon")
  \/ Expect("struct_field", "colon", ":", "value")
  \/ Child("struct_field", "value", Frame("expression", FALSE), "value done", "end")
\* Without a comma or the closing brace the rest of the literal is skipped, then reported.
ParseStructLiteral ==
  \/ Expect("struct_literal", "start", "{", "loop")
  \/ Test("struct_literal", "loop", HasInput, "field", "close")
  \/ Child("struct_literal", "field", Frame("struct_field", FALSE), "field done", "next")
  \/ /\ At("struct_literal", "next")
     /\ \/ Is("}") /\ Goto("close") /\ Quiet
        \/ Is(",") /\ Consume /\ Goto("loop") /\ UNCHANGED failed
        \/ ~Is("}") /\ ~Is(",") /\ Call(Frame("synchronize", FALSE), "skipped") /\ Quiet
  \/ At("struct_literal", "skipped") /\ Report /\ Return("null") /\ UNCHANGED source
  \/ Expect("struct_literal", "close", "}", "end")

-----------------------------------------------------------------------------
\* The error of the expression does not keep the statement from consuming its semicolon.
ParseExpressionStatement ==
  \/ At("expression_statement", "start") /\ Call(Frame("expression", FALSE), "semicolon") /\ Quiet
  \/ /\ At("expression_statement", "semicolon")
     /\ \/ Is(";") /\ Consume /\ Return(ret) /\ UNCHANGED failed
        \/ ~Is(";") /\ Report /\ Return("null") /\ UNCHANGED source
ParseBlock ==
  \/ Expect("block", "start", "{", "loop")
  \/ Test("block", "loop", HasInput /\ ~Is("}"), "statement", "close")
  \/ Child("block", "statement", Frame("declaration", FALSE), "statement done", "loop")
  \/ Expect("block", "close", "}", "end")
ParseIf ==
  \/ Expect("if", "start", "if", "open")
  \/ Expect("if", "open", "(", "condition")
  \/ Child("if", "condition", Frame("expression", FALSE), "condition done", "close")
  \/ Expect("if", "close", ")", "then")
  \/ Child("if", "then", Frame("block", FALSE), "then done", "else?")
  \/ /\ At("if", "else?")
     /\ \/ Is("else") /\ Consume /\ Goto("else")
        \/ ~Is("else") /\ UNCHANGED source /\ Return("node")
     /\ UNCHANGED failed
  \/ At("if", "else") /\ Become(Frame(IF Is("if") THEN "if" ELSE "block", FALSE)) /\ Quiet
\* Mutant: an opening brace begins a struct literal, not a block.
ParseStatement_NoBlock == Select("statement", "start", {<<"if", "if">>}, "expression_statement")
ParseStatement ==
  Select("statement", "start", {<<"if", "if">>, <<"{", "block">>}, "expression_statement")

ParseVariable ==
  \/ Expect("variable", "start", "var", "name")
  \/ Expect("variable", "name", "id", "colon")
  \/ Option("variable", "colon", ":", "hint", "assign")
  \/ Child("variable", "hint", Frame("type", TRUE), "hint done", "assign")
  \/ Expect("variable", "assign", "=", "value")
  \/ Child("variable", "value", Frame("expression", FALSE), "value done", "semicolon")
  \/ Expect("variable", "semicolon", ";", "end")
ParseFieldDeclaration ==
  \/ Expect("field_declaration", "start", "id", "colon")
  \/ Expect("field_declaration", "colon", ":", "type")
  \/ Child("field_declaration", "type", Frame("type", FALSE), "type done", "semicolon")
  \/ Expect("field_declaration", "semicolon", ";", "end")
\* The flag says that a member was parsed.
ParseStruct ==
  \/ Expect("struct", "start", "struct", "name")
  \/ Expect("struct", "name", "id", "open")
  \/ Expect("struct", "open", "{", "loop")
  \/ Test("struct", "loop", HasInput /\ ~Is("}"), "member", "members done")
  \/ At("struct", "member") /\ Call(Frame("field_declaration", FALSE), "member done") /\ Quiet
  \/ /\ At("struct", "member done")
     /\ IF ret = "null" THEN Return("null") ELSE GotoFlag("loop", TRUE)
     /\ Quiet
  \/ /\ At("struct", "members done")
     /\ failed' = (failed \/ ~Top.flag)
     /\ Goto("close") /\ UNCHANGED source
  \/ Expect("struct", "close", "}", "end")
ParseAttribute ==
  \/ Expect("attribute", "start", "#", "open")
  \/ Expect("attribute", "open", "[", "name")
  \/ Expect("attribute", "name", "id", "arguments")
  \/ Option("attribute", "arguments", "(", "loop", "close")
  \/ Option("attribute", "loop", "id", "colon", "arguments done")
  \/ Expect("attribute", "colon", ":", "value")
  \/ Child("attribute", "value", Frame("expression", FALSE), "value done", "comma")
  \/ At("attribute", "comma") /\ Is(")") /\ Goto("arguments done") /\ Quiet
  \/ ~Is(")") /\ Expect("attribute", "comma", ",", "loop")
  \/ Expect("attribute", "arguments done", ")", "close")
  \/ Expect("attribute", "close", "]", "end")
\* An attribute that fails is left out and the list goes on with the next token; the flag says
\* that the list is not empty.
ParseDeclaration ==
  \/ /\ At("declaration", "start")
     /\ \/ Is("#") /\ Call(Frame("attribute", FALSE), "attribute done") /\ Quiet
        \/ Is("var") /\ Become(Frame("variable", FALSE)) /\ Quiet
        \/ Is("struct") /\ Become(Frame("struct", FALSE)) /\ Quiet
        \/ /\ look \notin {"#", "var", "struct"}
           /\ failed' = (failed \/ Top.flag)
           /\ Become(Frame("statement", FALSE)) /\ UNCHANGED source
  \/ /\ At("declaration", "attribute done")
     /\ GotoFlag("start", Top.flag \/ ret # "null")
     /\ Quiet
\* zenit_parse_source.
ParseSource ==
  \/ /\ At("source", "start")
     /\ \/ HasInput /\ Call(Frame("declaration", FALSE), "declared") /\ Quiet
        \/ ~HasInput /\ Return("none") /\ Quiet
  \/ /\ At("source", "declared")
     /\ \/ ret = "null" /\ Call(Frame("synchronize", TRUE), "synchronized") /\ Quiet
        \/ ret # "null" /\ Goto("separator") /\ Quiet
  \/ Option("source", "separator", ";", "start", "start")
  \/ /\ At("source", "synchronized")
     /\ IF ret = "found" THEN Goto("start") ELSE Return("none")
     /\ Quiet

Init ==
  /\ \/ look \in TokenTypes /\ given = <<>> /\ left = IF look = Eof THEN 0 ELSE MaxTokens
     \/ \E b \in Beginnings \ {<<>>} : look = Head(b) /\ given = Tail(b) /\ left = MaxTokens
  /\ stack = <<Frame("source", FALSE)>>
  /\ ret = "none" /\ failed = FALSE /\ forms = Start

Next ==
  \/ Synchronize \/ ParseType \/ ParseTypeName \/ ParseReferenceType \/ ParseArrayType
  \/ ParseExpression \/ ParseLiteral \/ ParseCast \/ ParseArray \/ ParseReference
  \/ ParseIdentifier \/ ParseStructField \/ ParseStructLiteral
  \/ ParseExpressionStatement \/ ParseBlock \/ ParseIf \/ ParseStatement
  \/ ParseVariable \/ ParseFieldDeclaration \/ ParseStruct \/ ParseAttribute \/ ParseDeclaration
  \/ ParseSource

\* One thread runs the parser to its end.
Spec == Init /\ [][Next]_vars /\ WF_vars(Next)

-----------------------------------------------------------------------------
\* The recursion is bounded by the tokens: one opens at most two calls that outlive it.
MaxDepth == 2 * (MaxTokens + MaxBeginning) + 3
ParserTypeOK ==
  /\ look \in TokenTypes /\ left \in 0..MaxTokens /\ given \in Seq(Tokens)
  /\ ret \in Results /\ failed \in BOOLEAN
  /\ Len(stack) <= MaxDepth
  /\ \A i \in DOMAIN stack : stack[i].flag \in BOOLEAN
  /\ stack # <<>> => stack[Len(stack)].fn = "source"

\* The loop ends with an error reported exactly when the tokens are no program of the grammar: the
\* parser decides with one token of lookahead what the grammar leaves open.
AcceptsTheLanguage == stack = <<>> => (failed <=> ~MayEnd(forms))

\* The first error comes before a token that no program could have there is consumed as if it
\* fitted; only a struct literal skips to its brace before it reports.
ViablePrefix ==
  ~failed /\ (\A i \in DOMAIN stack : stack[i].fn # "synchronize") => forms # {} \/ Top.at = "skipped"

\* And no error is reported while what was read and the next token begin a program.
ErrorsAreReal == [][failed' /\ ~failed => Derive(forms, look) = {}]_vars

\* A caller that gets NULL, or a type without its element, says nothing of its own: the error was
\* reported where it was found, so that no part of a program disappears without one.
NullMeansError == ret \in {"null", "holed"} => failed

\* Every loop of the parser and both recoveries consume: the parser reaches the end of any source.
ParserTerminates == <>(stack = <<>>)
=============================================================================

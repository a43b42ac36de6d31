---------------------------- MODULE ParserProofs ----------------------------
(***************************************************************************)
(* Proofs about the parser, for programs of any length and beginning:      *)
(*   - a part of the program that is left out of the tree is accounted for *)
(*     by an error (NullMeansError);                                       *)
(*   - the calls of the parse functions nest no deeper than two for each   *)
(*     token (ParserTypeOK);                                               *)
(*   - of the grammar the parser is meant to recognise: a program that is  *)
(*     parsed without an error is one of the language (AcceptsTheLanguage),*)
(*     what was read without an error begins such a program                *)
(*     (ViablePrefix), and the first error comes at a token that no such   *)
(*     program has there (ErrorsAreReal).                                  *)
(***************************************************************************)
EXTENDS Parser, TLAPS

(***************************************************************************)
(* Results and errors.                                                     *)
(***************************************************************************)

\* What a step may do to the outcome: an error stays on record, and if there is
\* none the result of the last call stays or becomes one that is neither NULL nor
\* a hole.
Sound ==
  /\ failed => failed'
  /\ failed' = failed \/ failed' \in BOOLEAN
  /\ ret' = ret \/ ret' \in Results
  /\ \/ failed'
     \/ ret' = ret
     \/ ret' \in {"none", "node", "found", "lost"}

\* The operations that the parse functions are made of.
LEMMA ReportSound ==
  ASSUME Report, Return("null")
  PROVE  Sound
<1>1. failed' = TRUE /\ ret' = "null"
  BY DEF Report, Return
<1>2. "null" \in Results
  BY DEF Results
<1> QED
  BY <1>1, <1>2 DEF Sound

\* A required token: read, or an error and NULL.
LEMMA ExpectSound ==
  ASSUME NEW fn, NEW point, NEW t, NEW next, Expect(fn, point, t, next)
  PROVE  Sound
<1>1. CASE Consume /\ Continue(next) /\ UNCHANGED failed
  BY <1>1 DEF Continue, Return, Goto, Sound, Results
<1> QED
  BY <1>1, ReportSound DEF Expect

\* A call, or NULL passed on for a call that failed.
LEMMA ChildSound ==
  ASSUME NullMeansError, NEW fn, NEW point, NEW frame, NEW called, NEW next,
         Child(fn, point, frame, called, next)
  PROVE  Sound
  BY DEF Child, Call, Continue, Return, Goto, Quiet, Sound, Results, NullMeansError

\* An optional token, a choice of the function and a test only move the point.
LEMMA OptionSound ==
  ASSUME NEW fn, NEW point, NEW t, NEW with, NEW without, Option(fn, point, t, with, without)
  PROVE  Sound
  BY DEF Option, Goto, Sound, Results

\* The same for the choice of a function.
LEMMA SelectSound ==
  ASSUME NEW fn, NEW point, NEW choices, NEW otherwise, Select(fn, point, choices, otherwise)
  PROVE  Sound
  BY DEF Select, Become, Quiet, Sound, Results

\* The same for a test.
LEMMA TestSound ==
  ASSUME NEW fn, NEW point, NEW condition, NEW yes, NEW no, Test(fn, point, condition, yes, no)
  PROVE  Sound
  BY DEF Test, Goto, Quiet, Sound, Results

\* A type whose element failed has a hole.
LEMMA TypeElementSound ==
  ASSUME NullMeansError, NEW fn, TypeElement(fn) PROVE Sound
  BY DEF TypeElement, Call, Return, Quiet, Sound, Results, NullMeansError

\* The parse functions.
LEMMA TypesSound ==
  ASSUME NullMeansError, ParseType \/ ParseTypeName \/ ParseReferenceType \/ ParseArrayType
  PROVE  Sound
<1>1. CASE ParseType
  BY <1>1, SelectSound DEF ParseType
<1>2. CASE ParseTypeName
  BY <1>2, ExpectSound DEF ParseTypeName
<1>3. CASE ParseReferenceType
  BY <1>3, ExpectSound, TypeElementSound DEF ParseReferenceType
<1>4. CASE ParseArrayType
  <2>1. ASSUME At("array_type", "length"),
               \/ look = "int" /\ Consume /\ Goto("close") /\ UNCHANGED failed
               \/ look = "bigint" /\ Consume /\ Report /\ Return("null")
               \/ /\ ~Is("int")
                  /\ failed' = (failed \/ ~Top.flag)
                  /\ Goto("close") /\ UNCHANGED source
        PROVE  Sound
    <3>1. CASE look = "int" /\ Consume /\ Goto("close") /\ UNCHANGED failed
      BY <3>1 DEF Goto, Sound, Results
    <3>2. CASE look = "bigint" /\ Consume /\ Report /\ Return("null")
      BY <3>2, ReportSound
    <3>3. CASE ~Is("int") /\ failed' = (failed \/ ~Top.flag) /\ Goto("close") /\ UNCHANGED source
      BY <3>3 DEF Goto, Sound, Results
    <3> QED
      BY <2>1, <3>1, <3>2, <3>3
  <2> QED
    BY <1>4, <2>1, ExpectSound, TypeElementSound DEF ParseArrayType
<1> QED
  BY <1>1, <1>2, <1>3, <1>4

\* Expressions.
LEMMA ExpressionsSound ==
  ASSUME NullMeansError,
         \/ ParseExpression \/ ParseLiteral \/ ParseCast \/ ParseArray \/ ParseReference
         \/ ParseIdentifier \/ ParseStructField \/ ParseStructLiteral
  PROVE  Sound
<1>1. CASE ParseExpression
  BY <1>1, SelectSound DEF ParseExpression
<1>2. CASE ParseLiteral
  <2>1. CASE Return("node") /\ UNCHANGED failed
    BY <2>1 DEF Return, Sound, Results
  <2> QED
    BY <1>2, <2>1, ReportSound DEF ParseLiteral
<1>3. CASE ParseCast
  BY <1>3, ExpectSound, ChildSound, OptionSound DEF ParseCast
<1>4. CASE ParseArray
  <2>1. ASSUME Goto("loop"), Quiet PROVE Sound
    BY <2>1 DEF Goto, Quiet, Sound, Results
  <2> QED
    BY <1>4, <2>1, ExpectSound, ChildSound, TestSound DEF ParseArray
<1>5. CASE ParseReference
  BY <1>5, ExpectSound, ChildSound DEF ParseReference
<1>6. CASE ParseIdentifier
  <2>1. ASSUME IF Is("{") THEN Become(Frame("struct_literal", FALSE)) ELSE Return("node"), Quiet
        PROVE  Sound
    BY <2>1 DEF Become, Return, Quiet, Sound, Results
  <2> QED
    BY <1>6, <2>1, ExpectSound DEF ParseIdentifier
<1>7. CASE ParseStructField
  BY <1>7, ExpectSound, ChildSound DEF ParseStructField
<1>8. CASE ParseStructLiteral
  <2>1. ASSUME \/ Is("}") /\ Goto("close") /\ Quiet
               \/ Is(",") /\ Consume /\ Goto("loop") /\ UNCHANGED failed
               \/ ~Is("}") /\ ~Is(",") /\ Call(Frame("synchronize", FALSE), "skipped") /\ Quiet
        PROVE  Sound
    <3>1. CASE Goto("close") /\ Quiet
      BY <3>1 DEF Goto, Quiet, Sound, Results
    <3>2. CASE Goto("loop") /\ UNCHANGED failed
      BY <3>2 DEF Goto, Sound, Results
    <3>3. CASE Call(Frame("synchronize", FALSE), "skipped") /\ Quiet
      BY <3>3 DEF Call, Quiet, Sound, Results
    <3> QED
      BY <2>1, <3>1, <3>2, <3>3
  <2>2. ASSUME Report, Return("null") PROVE Sound
    BY <2>2, ReportSound
  <2> QED
    BY <1>8, <2>1, <2>2, ExpectSound, ChildSound, TestSound DEF ParseStructLiteral
<1> QED
  BY <1>1, <1>2, <1>3, <1>4, <1>5, <1>6, <1>7, <1>8

\* Statements.
LEMMA StatementsSound ==
  ASSUME NullMeansError, ParseExpressionStatement \/ ParseBlock \/ ParseIf \/ ParseStatement
  PROVE  Sound
<1>1. CASE ParseExpressionStatement
  <2>1. CASE Call(Frame("expression", FALSE), "semicolon") /\ Quiet
    BY <2>1 DEF Call, Quiet, Sound, Results
  <2>2. CASE Return(ret) /\ UNCHANGED failed
    BY <2>2 DEF Return, Sound, Results
  <2>3. CASE Report /\ Return("null")
    BY <2>3, ReportSound
  <2> QED
    BY <1>1, <2>1, <2>2, <2>3 DEF ParseExpressionStatement
<1>2. CASE ParseBlock
  BY <1>2, ExpectSound, ChildSound, TestSound DEF ParseBlock
<1>3. CASE ParseIf
  <2>1. ASSUME At("if", "else?"),
               /\ \/ Is("else") /\ Consume /\ Goto("else")
                  \/ ~Is("else") /\ UNCHANGED source /\ Return("node")
               /\ UNCHANGED failed
        PROVE  Sound
    BY <2>1 DEF Goto, Return, Sound, Results
  <2>2. ASSUME Become(Frame(IF Is("if") THEN "if" ELSE "block", FALSE)), Quiet
        PROVE  Sound
    BY <2>2 DEF Become, Quiet, Sound, Results
  <2> QED
    BY <1>3, <2>1, <2>2, ExpectSound, ChildSound DEF ParseIf
<1>4. CASE ParseStatement
  BY <1>4, SelectSound DEF ParseStatement
<1> QED
  BY <1>1, <1>2, <1>3, <1>4

\* Declarations, the program and the recovery.
LEMMA DeclarationsSound ==
  ASSUME NullMeansError,
         \/ ParseVariable \/ ParseFieldDeclaration \/ ParseStruct \/ ParseAttribute
         \/ ParseDeclaration \/ ParseSource \/ Synchronize
  PROVE  Sound
<1>1. CASE ParseVariable
  BY <1>1, ExpectSound, ChildSound, OptionSound DEF ParseVariable
<1>2. CASE ParseFieldDeclaration
  BY <1>2, ExpectSound, ChildSound DEF ParseFieldDeclaration
<1>3. CASE ParseStruct
  <2>1. ASSUME Call(Frame("field_declaration", FALSE), "member done"), Quiet PROVE Sound
    BY <2>1 DEF Call, Quiet, Sound, Results
  <2>2. ASSUME IF ret = "null" THEN Return("null") ELSE GotoFlag("loop", TRUE), Quiet
        PROVE  Sound
    BY <2>2 DEF Return, GotoFlag, Quiet, Sound, Results, NullMeansError
  <2>3. ASSUME failed' = (failed \/ ~Top.flag), Goto("close") PROVE Sound
    BY <2>3 DEF Goto, Sound, Results
  <2> QED
    BY <1>3, <2>1, <2>2, <2>3, ExpectSound, TestSound DEF ParseStruct
<1>4. CASE ParseAttribute
  <2>1. ASSUME Goto("arguments done"), Quiet PROVE Sound
    BY <2>1 DEF Goto, Quiet, Sound, Results
  <2> QED
    BY <1>4, <2>1, ExpectSound, ChildSound, OptionSound DEF ParseAttribute
<1>5. CASE ParseDeclaration
  <2>1. CASE Call(Frame("attribute", FALSE), "attribute done") /\ Quiet
    BY <2>1 DEF Call, Quiet, Sound, Results
  <2>2. ASSUME NEW frame, Become(frame), Quiet PROVE Sound
    BY <2>2 DEF Become, Quiet, Sound, Results
  <2>3. ASSUME NEW frame, failed' = (failed \/ Top.flag), Become(frame) PROVE Sound
    BY <2>3 DEF Become, Sound, Results
  <2>4. CASE GotoFlag("start", Top.flag \/ ret # "null") /\ Quiet
    BY <2>4 DEF GotoFlag, Quiet, Sound, Results
  <2> QED
    BY <1>5, <2>1, <2>2, <2>3, <2>4 DEF ParseDeclaration
<1>6. CASE ParseSource
  <2>1. ASSUME \/ HasInput /\ Call(Frame("declaration", FALSE), "declared") /\ Quiet
               \/ ~HasInput /\ Return("none") /\ Quiet
        PROVE  Sound
    BY <2>1 DEF Call, Return, Quiet, Sound, Results
  <2>2. ASSUME \/ ret = "null" /\ Call(Frame("synchronize", TRUE), "synchronized") /\ Quiet
               \/ ret # "null" /\ Goto("separator") /\ Quiet
        PROVE  Sound
    BY <2>2 DEF Call, Goto, Quiet, Sound, Results
  <2>3. ASSUME IF ret = "found" THEN Goto("start") ELSE Return("none"), Quiet PROVE Sound
    BY <2>3 DEF Return, Goto, Quiet, Sound, Results
  <2> QED
    BY <1>6, <2>1, <2>2, <2>3, OptionSound DEF ParseSource
<1>7. CASE Synchronize
  BY <1>7 DEF Synchronize, Return, Goto, Sound, Results
<1> QED
  BY <1>1, <1>2, <1>3, <1>4, <1>5, <1>6, <1>7

\* A step loses no error, and lets no NULL appear without one.
LEMMA StepSound ==
  ASSUME NullMeansError, Next PROVE Sound
  BY TypesSound, ExpressionsSound, StatementsSound, DeclarationsSound DEF Next

\* So NULL keeps meaning that there is an error.
LEMMA StepKeepsErrors ==
  ASSUME NullMeansError, Next PROVE NullMeansError'
<1>1. Sound
  BY StepSound
<1> QED
  BY <1>1 DEF Sound, NullMeansError

\* A part of the program that is missing from the tree is accounted for by an
\* error, whatever the tokens are: no recovery and no optional part lets a
\* failed call pass in silence.
THEOREM NothingDropped == Spec => []NullMeansError
<1>1. Init => NullMeansError
  BY DEF Init, NullMeansError
<1>2. NullMeansError /\ [Next]_vars => NullMeansError'
  <2> SUFFICES ASSUME NullMeansError, [Next]_vars PROVE NullMeansError'
    OBVIOUS
  <2>1. CASE UNCHANGED vars
    BY <2>1 DEF vars, NullMeansError
  <2> QED
    BY <2>1, StepKeepsErrors
<1> QED
  BY <1>1, <1>2, PTL DEF Spec

-----------------------------------------------------------------------------
(***************************************************************************)
(* The depth of the recursion.                                             *)
(***************************************************************************)

\* How many levels above the calls that the consumed tokens account for a call
\* may stand: three where it may be the expression of a statement, a type or an
\* attribute, two for statements and members, one for the program.
Deep ==
  {"type", "type_name", "reference_type", "array_type", "expression", "literal", "cast", "array",
   "reference", "identifier", "struct_literal", "attribute"}
Tall(fn) == IF fn = "source" THEN 1 ELSE IF fn \in Deep THEN 3 ELSE 2

\* The same for a call that has reached a point: what it consumed pays for the
\* calls it makes from there.
Height(fn, at) ==
  IF at = "start" THEN Tall(fn)
  ELSE IF \/ fn \in {"source", "block", "struct", "struct_literal"}
          \/ at \in {"then", "then done", "else?", "else"}
  THEN 1 ELSE 2

\* A call waits for its callee at a level from which it can be called; and a call
\* goes on without consuming a token where it is no lower.
Calls(fn, point, callee, called) ==
  Height(fn, point) + 1 <= Tall(callee) /\ Tall(callee) <= Height(fn, called) + 1
Keeps(fn, point, next) == Height(fn, point) <= Height(fn, next)

\* How many tokens are to come, the next one included.
Remaining == Len(given) + left + (IF look = Eof THEN 0 ELSE 1)

\* The names of the parse functions and of the points in them.
Names ==
  {"start", "source", "declared", "separator", "synchronized", "synchronize", "declaration",
   "attribute done", "attribute", "open", "name", "arguments", "loop", "arguments done", "colon",
   "value", "value done", "comma", "close", "variable", "hint", "hint done", "assign", "semicolon",
   "struct", "member", "member done", "members done", "field_declaration", "type done", "statement",
   "if", "condition", "condition done", "then", "then done", "else?", "else", "block",
   "statement done", "expression_statement", "type", "type_name", "reference_type", "array_type",
   "element", "made", "length", "expression", "literal", "cast", "operand", "operand done", "array",
   "element done", "reference", "identifier", "named", "struct_field", "struct_literal", "field",
   "field done", "next", "skipped", "end"}

Frames == [fn : Names, at : Names, flag : BOOLEAN]

SourceOK == look \in TokenTypes /\ left \in 0..MaxTokens /\ given \in Seq(Tokens)

\* The inductive invariant: a call is at most one level above the one that waits
\* for it, and the stack is as deep as the tokens read so far allow.
DepthInv ==
  /\ SourceOK
  /\ stack \in Seq(Frames)
  /\ stack # <<>> => stack[Len(stack)].fn = "source"
  /\ \A i \in 2..Len(stack) : Tall(stack[i - 1].fn) <= Height(stack[i].fn, stack[i].at) + 1
  /\ stack # <<>> =>
       Len(stack) + 2 * Remaining <= 2 * (MaxTokens + MaxBeginning) + Height(Top.fn, Top.at)

\* A call stands highest where it starts.
LEMMA Heights ==
  ASSUME NEW fn, NEW at
  PROVE  /\ Tall(fn) \in 1..3 /\ Height(fn, at) \in 1..3
         /\ Height(fn, at) <= Tall(fn)
         /\ Height(fn, "start") = Tall(fn)
<1>1. Tall(fn) \in 1..3 /\ (fn # "source" => Tall(fn) >= 2)
  BY DEF Tall
<1>2. Height(fn, at) = Tall(fn) \/ Height(fn, at) = 1 \/ Height(fn, at) = 2
  BY Zenon DEF Height
<1>3. at # "start" /\ fn = "source" => Height(fn, at) = 1
  BY Zenon DEF Height
<1>4. Height(fn, "start") = Tall(fn) /\ (at = "start" => Height(fn, at) = Tall(fn))
  BY Zenon DEF Height
<1> HIDE DEF Tall, Height
<1> QED
  BY <1>1, <1>2, <1>3, <1>4

\* The number of tokens to come is a number.
LEMMA SourceCounts ==
  ASSUME SourceOK
  PROVE  Len(given) \in Nat /\ left \in Nat /\ Remaining \in Nat
  BY ParserAssumption DEF SourceOK, Remaining

\* A token that is consumed is one less to come.
LEMMA ConsumeCounts ==
  ASSUME SourceOK, look # Eof, Consume
  PROVE  SourceOK' /\ Remaining' <= Remaining - 1
<1> USE ParserAssumption
<1>1. Len(given) \in Nat /\ left \in Nat
  BY SourceCounts
<1>2. CASE given # <<>>
  <2>1. Head(given) \in Tokens /\ Tail(given) \in Seq(Tokens) /\ Len(Tail(given)) = Len(given) - 1
    BY <1>2 DEF SourceOK
  <2> QED
    <3>1. look' \in Tokens /\ given' \in Seq(Tokens) /\ left' = left /\ Len(given') = Len(given) - 1
      BY <1>2, <2>1 DEF Consume
    <3>2. Eof \notin Tokens
      BY DEF Eof, Tokens
    <3> QED
      BY <1>1, <3>1, <3>2 DEF SourceOK, Remaining, TokenTypes
<1>3. CASE given = <<>>
  <2>1. Eof \in TokenTypes /\ Len(<<>>) = 0
    BY DEF TokenTypes
  <2>2. look' \in TokenTypes
    BY <1>3, <2>1 DEF Consume
  <2>3. left = 0 => look' = Eof
    BY <1>3 DEF Consume
  <2>4. left' = (IF look' = Eof THEN 0 ELSE left - 1) /\ given' = given
    BY <1>3 DEF Consume
  <2> QED
    BY <1>1, <1>3, <2>1, <2>2, <2>3, <2>4 DEF SourceOK, Remaining
<1> QED
  BY <1>2, <1>3

\* The call on top goes on at another point, or another one takes its place.
LEMMA MoveDepth ==
  ASSUME DepthInv, stack # <<>>, NEW frame \in Frames, stack' = <<frame>> \o Tail(stack),
         SourceOK', Tall(frame.fn) <= Tall(Top.fn), Top.fn = "source" => frame.fn = "source",
         Height(Top.fn, Top.at) + 2 * Remaining' <= Height(frame.fn, frame.at) + 2 * Remaining
  PROVE  DepthInv'
<1>1. stack \in Seq(Frames) /\ Len(stack) \in Nat \ {0} /\ Top = stack[1] /\ Top \in Frames
  BY DEF DepthInv, Top
<1>2. /\ stack' \in Seq(Frames) /\ Len(stack') = Len(stack) /\ stack' # <<>>
      /\ stack'[1] = frame
      /\ \A i \in 2..Len(stack) : stack'[i] = stack[i]
  BY <1>1
<1>3. stack'[Len(stack)].fn = "source"
  BY <1>1, <1>2 DEF DepthInv
<1>4. ASSUME NEW i \in 2..Len(stack)
      PROVE  Tall(stack'[i - 1].fn) <= Height(stack'[i].fn, stack'[i].at) + 1
  <2>1. Tall(stack[i - 1].fn) <= Height(stack[i].fn, stack[i].at) + 1
    BY DEF DepthInv
  <2>2. Tall(stack'[i - 1].fn) <= Tall(stack[i - 1].fn)
    <3>1. CASE i = 2
      BY <3>1, <1>1, <1>2
    <3>2. CASE i # 2
      BY <3>2, <1>1, <1>2, Heights
    <3> QED
      BY <3>1, <3>2
  <2>3. stack'[i] = stack[i]
    BY <1>2
  <2> HIDE DEF DepthInv
  <2> QED
    BY <2>1, <2>2, <2>3, Heights, SMTT(60)
<1>5. Len(stack') + 2 * Remaining' <= 2 * (MaxTokens + MaxBeginning) + Height(frame.fn, frame.at)
  <2>1. Remaining \in Nat /\ Remaining' \in Nat
    <3>1. SourceOK
      BY DEF DepthInv
    <3> QED
      BY <3>1, SourceCounts, ParserAssumption DEF SourceOK, Remaining
  <2>2. Height(frame.fn, frame.at) \in Nat /\ Height(Top.fn, Top.at) \in Nat
    BY Heights
  <2>3. Len(stack) + 2 * Remaining <= 2 * (MaxTokens + MaxBeginning) + Height(Top.fn, Top.at)
    BY DEF DepthInv
  <2> QED
    BY <1>1, <1>2, <2>1, <2>2, <2>3, ParserAssumption, SMTT(60)
<1> QED
  BY <1>2, <1>3, <1>4, <1>5 DEF DepthInv, Top

\* A call is made: it starts no higher than a level above the caller.
LEMMA CallDepth ==
  ASSUME DepthInv, stack # <<>>, NEW frame \in Frames, NEW point \in Names,
         Call(frame, point), UNCHANGED source, frame.at = "start",
         Tall(frame.fn) <= Height(Top.fn, point) + 1,
         Height(Top.fn, Top.at) + 1 <= Tall(frame.fn)
  PROVE  DepthInv'
<1> DEFINE caller == [Top EXCEPT !.at = point]
<1>1. stack \in Seq(Frames) /\ Len(stack) \in Nat \ {0} /\ Top = stack[1] /\ Top \in Frames
  BY DEF DepthInv, Top
<1>2. caller \in Frames /\ caller.fn = Top.fn /\ caller.at = point
  BY <1>1 DEF Frames
<1>3. stack' = <<frame, caller>> \o Tail(stack)
  BY DEF Call
<1> HIDE DEF caller
<1>4. /\ stack' \in Seq(Frames) /\ Len(stack') = Len(stack) + 1 /\ stack' # <<>>
      /\ stack'[1] = frame /\ stack'[2] = caller
      /\ \A i \in 3..(Len(stack) + 1) : stack'[i] = stack[i - 1]
  BY <1>1, <1>2, <1>3
<1>5. stack'[Len(stack) + 1].fn = "source"
  <2>1. stack[Len(stack)].fn = "source"
    BY DEF DepthInv
  <2>2. CASE Len(stack) = 1
    BY <2>1, <2>2, <1>1, <1>2, <1>4
  <2>3. CASE Len(stack) # 1
    <3>1. Len(stack) + 1 \in 3..(Len(stack) + 1) /\ (Len(stack) + 1) - 1 = Len(stack)
      <4>1. \A n \in Nat \ {0} : n # 1 => n + 1 \in 3..(n + 1) /\ (n + 1) - 1 = n
        OBVIOUS
      <4>2. Len(stack) \in Nat \ {0}
        BY <1>1
      <4> QED
        BY <2>3, <4>1, <4>2
    <3>2. stack'[Len(stack) + 1] = stack[(Len(stack) + 1) - 1]
      BY <3>1, <1>4
    <3> QED
      BY <2>1, <3>1, <3>2
  <2> QED
    BY <2>2, <2>3
<1>6. ASSUME NEW i \in 2..(Len(stack) + 1)
      PROVE  Tall(stack'[i - 1].fn) <= Height(stack'[i].fn, stack'[i].at) + 1
  <2>1. CASE i = 2
    BY <2>1, <1>2, <1>4
  <2>2. CASE i = 3
    <3>1. 2 \in 2..Len(stack) /\ stack'[3] = stack[2]
      BY <2>2, <1>1, <1>4
    <3>2. Tall(stack[2 - 1].fn) <= Height(stack[2].fn, stack[2].at) + 1
      BY <3>1 DEF DepthInv
    <3> QED
      BY <2>2, <3>1, <3>2, <1>1, <1>2, <1>4
  <2>3. CASE i > 3
    <3>1. i - 1 \in 2..Len(stack) /\ stack'[i] = stack[i - 1] /\ stack'[i - 1] = stack[i - 2]
      BY <2>3, <1>1, <1>4
    <3>2. Tall(stack[(i - 1) - 1].fn) <= Height(stack[i - 1].fn, stack[i - 1].at) + 1
      BY <3>1 DEF DepthInv
    <3>3. (i - 1) - 1 = i - 2
      OBVIOUS
    <3> QED
      BY <3>1, <3>2, <3>3
  <2> QED
    BY <2>1, <2>2, <2>3
<1>7. SourceOK' /\ Remaining' = Remaining
  BY DEF DepthInv, SourceOK, source, Remaining
<1>8. Len(stack') + 2 * Remaining' <= 2 * (MaxTokens + MaxBeginning) + Height(frame.fn, frame.at)
  <2>1. Len(stack) + 2 * Remaining <= 2 * (MaxTokens + MaxBeginning) + Height(Top.fn, Top.at)
    BY DEF DepthInv
  <2>2. Remaining \in Nat /\ Height(Top.fn, Top.at) \in Nat /\ Tall(frame.fn) \in Nat
    <3>1. SourceOK
      BY DEF DepthInv
    <3> QED
      BY <3>1, SourceCounts, Heights
  <2>3. Height(frame.fn, frame.at) = Tall(frame.fn)
    BY Heights
  <2> QED
    BY <1>1, <1>4, <1>7, <2>1, <2>2, <2>3, ParserAssumption
<1> QED
  BY <1>4, <1>5, <1>6, <1>7, <1>8 DEF DepthInv, Top

\* The caller is at most a level below the call that returns.
LEMMA ReturnDepth ==
  ASSUME DepthInv, stack # <<>>, stack' = Tail(stack), SourceOK', Remaining' <= Remaining
  PROVE  DepthInv'
<1>1. stack \in Seq(Frames) /\ Len(stack) \in Nat \ {0} /\ Top = stack[1] /\ Top \in Frames
  BY DEF DepthInv, Top
<1>2. /\ stack' \in Seq(Frames) /\ Len(stack') = Len(stack) - 1
      /\ \A i \in 1..(Len(stack) - 1) : stack'[i] = stack[i + 1]
  BY <1>1
<1>3. ASSUME stack' # <<>> PROVE stack'[Len(stack')].fn = "source"
  <2>1. Len(stack') \in 1..(Len(stack) - 1)
    BY <1>1, <1>2, <1>3
  <2> QED
    BY <2>1, <1>1, <1>2 DEF DepthInv
<1>4. ASSUME NEW i \in 2..Len(stack')
      PROVE  Tall(stack'[i - 1].fn) <= Height(stack'[i].fn, stack'[i].at) + 1
  <2>1. i + 1 \in 2..Len(stack) /\ stack'[i] = stack[i + 1] /\ stack'[i - 1] = stack[i]
    BY <1>1, <1>2
  <2>2. Tall(stack[(i + 1) - 1].fn) <= Height(stack[i + 1].fn, stack[i + 1].at) + 1
    BY <2>1 DEF DepthInv
  <2>3. (i + 1) - 1 = i
    OBVIOUS
  <2> QED
    BY <2>1, <2>2, <2>3
<1>5. ASSUME stack' # <<>>
      PROVE  Len(stack') + 2 * Remaining'
               <= 2 * (MaxTokens + MaxBeginning) + Height(stack'[1].fn, stack'[1].at)
  <2>1. 2 \in 2..Len(stack) /\ stack'[1] = stack[2]
    BY <1>1, <1>2, <1>5
  <2>2. Tall(stack[2 - 1].fn) <= Height(stack[2].fn, stack[2].at) + 1
    BY <2>1 DEF DepthInv
  <2>3. Height(Top.fn, Top.at) <= Height(stack[2].fn, stack[2].at) + 1
    BY <2>2, <1>1, Heights
  <2>4. Len(stack) + 2 * Remaining <= 2 * (MaxTokens + MaxBeginning) + Height(Top.fn, Top.at)
    BY DEF DepthInv
  <2>5. Remaining \in Nat /\ Remaining' \in Nat
    BY SourceCounts, ParserAssumption DEF DepthInv, SourceOK, Remaining
  <2>6. Height(Top.fn, Top.at) \in Nat /\ Height(stack[2].fn, stack[2].at) \in Nat
    BY Heights
  <2> QED
    BY <1>1, <1>2, <2>1, <2>3, <2>4, <2>5, <2>6, ParserAssumption
<1> QED
  BY <1>2, <1>3, <1>4, <1>5 DEF DepthInv, Top

\* A token of the grammar is not the end of the source.
LEMMA KnownToken ==
  ASSUME NEW t \in Tokens, Is(t)
  PROVE  look # Eof
<1>1. Eof \notin Tokens /\ Eof # "bigint"
  BY DEF Eof, Tokens
<1> QED
  BY <1>1 DEF Is

\* Nothing consumed, as many tokens to come.
LEMMA SourceKept ==
  ASSUME SourceOK, UNCHANGED source
  PROVE  SourceOK' /\ Remaining' = Remaining
  BY DEF SourceOK, source, Remaining

\* The frame on top.
LEMMA TopFrame ==
  ASSUME DepthInv, NEW fn, NEW point, At(fn, point)
  PROVE  /\ stack # <<>> /\ Top \in Frames /\ Top.fn = fn /\ Top.at = point
         /\ SourceOK /\ Remaining \in Nat
<1>1. stack # <<>> /\ Top.fn = fn /\ Top.at = point
  BY DEF At
<1>2. SourceOK /\ stack \in Seq(Frames)
  BY DEF DepthInv
<1> QED
  BY <1>1, <1>2, SourceCounts DEF Top

\* The frame of a call that starts.
LEMMA NewFrame ==
  ASSUME NEW fn \in Names, NEW flag \in BOOLEAN
  PROVE  Frame(fn, flag) \in Frames /\ Frame(fn, flag).fn = fn /\ Frame(fn, flag).at = "start"
<1>1. "start" \in Names
  BY DEF Names
<1>2. Frame(fn, flag) \in Frames
  BY <1>1, Zenon DEF Frame, Frames
<1>3. Frame(fn, flag).fn = fn /\ Frame(fn, flag).at = "start"
  BY DEF Frame
<1> QED
  BY <1>2, <1>3

\* The call on top goes on: with a token consumed anywhere, without one where it
\* may have to make the same calls.
LEMMA GotoDepth ==
  ASSUME DepthInv, NEW fn, NEW point, At(fn, point), NEW next \in Names, NEW flag \in BOOLEAN,
         Goto(next) \/ GotoFlag(next, flag),
         \/ UNCHANGED source /\ Height(fn, point) <= Height(fn, next)
         \/ look # Eof /\ Consume
  PROVE  DepthInv'
<1>1. /\ stack # <<>> /\ Top \in Frames /\ Top.fn = fn /\ Top.at = point
      /\ SourceOK /\ Remaining \in Nat
  BY TopFrame
<1>2. PICK frame \in Frames : /\ stack' = <<frame>> \o Tail(stack)
                              /\ frame.fn = fn /\ frame.at = next
  <2>1. CASE Goto(next)
    <3>1. /\ [Top EXCEPT !.at = next] \in Frames /\ [Top EXCEPT !.at = next].fn = fn
          /\ [Top EXCEPT !.at = next].at = next
      BY <1>1 DEF Frames
    <3> QED
      BY <2>1, <3>1 DEF Goto
  <2>2. CASE GotoFlag(next, flag)
    <3>1. /\ [Top EXCEPT !.at = next, !.flag = flag] \in Frames
          /\ [Top EXCEPT !.at = next, !.flag = flag].fn = fn
          /\ [Top EXCEPT !.at = next, !.flag = flag].at = next
      BY <1>1 DEF Frames
    <3> QED
      BY <2>2, <3>1 DEF GotoFlag
  <2> QED
    BY <2>1, <2>2
<1>3. SourceOK' /\ Height(fn, point) + 2 * Remaining' <= Height(fn, next) + 2 * Remaining
  <2>1. Height(fn, point) \in 1..3 /\ Height(fn, next) \in 1..3
    BY Heights
  <2>2. CASE UNCHANGED source /\ Height(fn, point) <= Height(fn, next)
    BY <2>1, <2>2, <1>1, SourceKept
  <2>3. CASE look # Eof /\ Consume
    <3>1. SourceOK' /\ Remaining' <= Remaining - 1
      BY <2>3, <1>1, ConsumeCounts
    <3>2. Remaining' \in Nat
      BY <3>1, SourceCounts, ParserAssumption DEF SourceOK, Remaining
    <3> QED
      BY <2>1, <3>1, <3>2, <1>1
  <2> QED
    BY <2>2, <2>3
<1>4. Tall(fn) <= Tall(fn)
  BY Heights
<1> QED
  BY <1>1, <1>2, <1>3, <1>4, MoveDepth

\* Another call takes the place of the one on top: one of the same height.
LEMMA BecomeDepth ==
  ASSUME DepthInv, NEW fn, NEW point, At(fn, point), NEW new \in Names, NEW flag \in BOOLEAN,
         Become(Frame(new, flag)), UNCHANGED source,
         fn # "source", Tall(new) = Tall(fn)
  PROVE  DepthInv'
<1>1. /\ stack # <<>> /\ Top \in Frames /\ Top.fn = fn /\ Top.at = point
      /\ SourceOK /\ Remaining \in Nat
  BY TopFrame
<1>2. PICK frame : frame = Frame(new, flag)
  OBVIOUS
<1>3. frame \in Frames /\ frame.fn = new /\ frame.at = "start"
  BY <1>2, NewFrame
<1>4. stack' = <<frame>> \o Tail(stack)
  BY <1>2 DEF Become
<1>5. SourceOK' /\ Remaining' = Remaining
  BY <1>1, SourceKept
<1>6. /\ Height(fn, point) \in Nat /\ Tall(fn) \in Nat
      /\ Height(fn, point) <= Tall(fn) /\ Height(new, "start") = Tall(new)
  BY Heights
<1>7. /\ Height(Top.fn, Top.at) + 2 * Remaining' <= Height(frame.fn, frame.at) + 2 * Remaining
      /\ Tall(frame.fn) <= Tall(Top.fn)
  BY <1>1, <1>3, <1>5, <1>6
<1> QED
  BY <1>1, <1>3, <1>4, <1>5, <1>7, MoveDepth

\* The call on top makes a call, or returns.
LEMMA CalledDepth ==
  ASSUME DepthInv, NEW fn, NEW point, At(fn, point), NEW callee \in Names, NEW flag \in BOOLEAN,
         NEW called \in Names, Call(Frame(callee, flag), called), UNCHANGED source,
         Height(fn, point) + 1 <= Tall(callee), Tall(callee) <= Height(fn, called) + 1
  PROVE  DepthInv'
<1>1. stack # <<>> /\ Top.fn = fn /\ Top.at = point
  BY TopFrame
<1>2. PICK frame : frame = Frame(callee, flag)
  OBVIOUS
<1>3. frame \in Frames /\ frame.fn = callee /\ frame.at = "start"
  BY <1>2, NewFrame
<1>4. Call(frame, called)
  BY <1>2
<1> QED
  BY <1>1, <1>3, <1>4, CallDepth

\* The call on top returns.
LEMMA ReturnedDepth ==
  ASSUME DepthInv, NEW fn, NEW point, At(fn, point), NEW r, Return(r),
         UNCHANGED source \/ (look # Eof /\ Consume)
  PROVE  DepthInv'
<1>1. stack # <<>> /\ SourceOK /\ Remaining \in Nat
  BY TopFrame
<1>2. SourceOK' /\ Remaining' <= Remaining
  <2>1. CASE UNCHANGED source
    BY <2>1, <1>1, SourceKept
  <2>2. CASE look # Eof /\ Consume
    <3>1. SourceOK' /\ Remaining' <= Remaining - 1
      BY <2>2, <1>1, ConsumeCounts
    <3>2. Remaining' \in Nat
      BY <3>1, SourceCounts, ParserAssumption DEF SourceOK, Remaining
    <3> QED
      BY <3>1, <3>2, <1>1
  <2> QED
    BY <2>1, <2>2
<1>3. stack' = Tail(stack)
  BY DEF Return
<1> QED
  BY <1>1, <1>2, <1>3, ReturnDepth

\* The operations that the parse functions are made of.
LEMMA ExpectDepth ==
  ASSUME DepthInv, NEW fn, NEW point, NEW t \in Tokens, NEW next \in Names,
         Expect(fn, point, t, next)
  PROVE  DepthInv'
<1>1. At(fn, point)
  BY DEF Expect
<1>2. CASE Is(t) /\ Consume /\ Continue(next)
  BY <1>1, <1>2, KnownToken, GotoDepth, ReturnedDepth DEF Continue
<1>3. CASE Return("null") /\ UNCHANGED source
  BY <1>1, <1>3, ReturnedDepth
<1> QED
  BY <1>2, <1>3 DEF Expect

\* A call and what its result leads to.
LEMMA ChildDepth ==
  ASSUME DepthInv, NEW fn, NEW point, NEW callee \in Names, NEW flag \in BOOLEAN,
         NEW called \in Names, NEW next \in Names,
         Child(fn, point, Frame(callee, flag), called, next),
         Calls(fn, point, callee, called), next # "end" => Keeps(fn, called, next)
  PROVE  DepthInv'
<1>1. CASE At(fn, point) /\ Call(Frame(callee, flag), called) /\ Quiet
  BY <1>1, CalledDepth DEF Quiet, Calls
<1>2. CASE At(fn, called) /\ Return("null") /\ Quiet
  BY <1>2, ReturnedDepth DEF Quiet
<1>3. CASE At(fn, called) /\ Continue(next) /\ Quiet
  BY <1>3, GotoDepth, ReturnedDepth DEF Quiet, Continue, Keeps
<1> QED
  BY <1>1, <1>2, <1>3 DEF Child

\* An optional token.
LEMMA OptionDepth ==
  ASSUME DepthInv, NEW fn, NEW point, NEW t \in Tokens, NEW with \in Names, NEW without \in Names,
         Option(fn, point, t, with, without), Keeps(fn, point, without)
  PROVE  DepthInv'
<1>1. CASE Is(t)
  BY <1>1, KnownToken, GotoDepth DEF Option
<1>2. CASE ~Is(t)
  BY <1>2, GotoDepth DEF Option, Keeps
<1> QED
  BY <1>1, <1>2

\* A test without a token.
LEMMA TestDepth ==
  ASSUME DepthInv, NEW fn, NEW point, NEW condition, NEW yes \in Names, NEW no \in Names,
         Test(fn, point, condition, yes, no),
         Keeps(fn, point, yes), Keeps(fn, point, no)
  PROVE  DepthInv'
<1>1. At(fn, point) /\ UNCHANGED source /\ (Goto(yes) \/ Goto(no))
  BY DEF Test, Quiet
<1> QED
  BY <1>1, GotoDepth DEF Keeps

\* A choice between functions of the same height.
LEMMA SelectDepth ==
  ASSUME DepthInv, NEW fn, NEW point, NEW choices, NEW otherwise \in Names,
         Select(fn, point, choices, otherwise), fn # "source", Tall(otherwise) = Tall(fn),
         \A c \in choices : c[2] \in Names /\ Tall(c[2]) = Tall(fn)
  PROVE  DepthInv'
<1>1. At(fn, point) /\ UNCHANGED source
  BY DEF Select, Quiet
<1>2. Top.flag \in BOOLEAN
  BY <1>1, TopFrame DEF Frames
<1>3. PICK new \in Names : Become(Frame(new, Top.flag)) /\ Tall(new) = Tall(fn)
  BY DEF Select
<1> QED
  BY <1>1, <1>2, <1>3, BecomeDepth

\* The parse functions, one by one.
LEMMA CastDepth ==
  ASSUME DepthInv, ParseCast PROVE DepthInv'
<1>1. /\ "close" \in Names /\ "colon" \in Names /\ "end" \in Names /\ "expression" \in Names
      /\ "hint" \in Names /\ "hint done" \in Names /\ "open" \in Names /\ "operand" \in Names
      /\ "operand done" \in Names /\ "type" \in Names
  BY DEF Names
<1>2. "(" \in Tokens /\ ")" \in Tokens /\ ":" \in Tokens /\ "cast" \in Tokens
  BY DEF Tokens
<1>3. /\ Calls("cast", "operand", "expression", "operand done")
      /\ Keeps("cast", "operand done", "colon") /\ Keeps("cast", "colon", "close")
      /\ Calls("cast", "hint", "type", "hint done") /\ Keeps("cast", "hint done", "close")
  BY DEF Calls, Keeps, Height, Tall, Deep
<1>4. CASE Expect("cast", "start", "cast", "open")
  BY <1>1, <1>2, <1>4, ExpectDepth, Zenon
<1>5. CASE Expect("cast", "open", "(", "operand")
  BY <1>1, <1>2, <1>5, ExpectDepth, Zenon
<1>6. CASE Child("cast", "operand", Frame("expression", FALSE), "operand done", "colon")
  BY <1>1, <1>3, <1>6, ChildDepth, Zenon
<1>7. CASE Option("cast", "colon", ":", "hint", "close")
  BY <1>1, <1>2, <1>3, <1>7, OptionDepth, Zenon
<1>8. CASE Child("cast", "hint", Frame("type", TRUE), "hint done", "close")
  BY <1>1, <1>3, <1>8, ChildDepth, Zenon
<1>9. CASE Expect("cast", "close", ")", "end")
  BY <1>1, <1>2, <1>9, ExpectDepth, Zenon
<1> QED
  BY <1>4, <1>5, <1>6, <1>7, <1>8, <1>9 DEF ParseCast

\* ParseArray keeps the invariant.
LEMMA ArrayDepth ==
  ASSUME DepthInv, ParseArray PROVE DepthInv'
<1>1. /\ "close" \in Names /\ "comma" \in Names /\ "element" \in Names
      /\ "element done" \in Names /\ "end" \in Names /\ "expression" \in Names
      /\ "loop" \in Names
  BY DEF Names
<1>2. "," \in Tokens /\ "[" \in Tokens /\ "]" \in Tokens
  BY DEF Tokens
<1>3. /\ Keeps("array", "loop", "element") /\ Keeps("array", "loop", "close")
      /\ Calls("array", "element", "expression", "element done")
      /\ Keeps("array", "element done", "comma") /\ Keeps("array", "comma", "loop")
  BY DEF Calls, Keeps, Height, Tall, Deep
<1>4. CASE Expect("array", "start", "[", "loop")
  BY <1>1, <1>2, <1>4, ExpectDepth, Zenon
<1>5. CASE Test("array", "loop", HasInput /\ ~Is("]"), "element", "close")
  BY <1>1, <1>3, <1>5, TestDepth, Zenon
<1>6. CASE Child("array", "element", Frame("expression", FALSE), "element done", "comma")
  BY <1>1, <1>3, <1>6, ChildDepth, Zenon
<1>7. CASE Expect("array", "close", "]", "end")
  BY <1>1, <1>2, <1>7, ExpectDepth, Zenon
<1>8. CASE At("array", "comma") /\ Goto("loop") /\ Quiet
  BY <1>1, <1>3, <1>8, GotoDepth DEF Quiet, Keeps
<1>9. CASE Expect("array", "comma", ",", "loop")
  BY <1>1, <1>2, <1>9, ExpectDepth, Zenon
<1> QED
  BY <1>4, <1>5, <1>6, <1>7, <1>8, <1>9 DEF ParseArray

\* ParseReference keeps the invariant.
LEMMA ReferenceDepth ==
  ASSUME DepthInv, ParseReference PROVE DepthInv'
<1>1. /\ "end" \in Names /\ "expression" \in Names /\ "operand" \in Names
      /\ "operand done" \in Names
  BY DEF Names
<1>2. "&" \in Tokens
  BY DEF Tokens
<1>3. Calls("reference", "operand", "expression", "operand done")
  BY DEF Calls, Keeps, Height, Tall, Deep
<1>4. CASE Expect("reference", "start", "&", "operand")
  BY <1>1, <1>2, <1>4, ExpectDepth, Zenon
<1>5. CASE Child("reference", "operand", Frame("expression", FALSE), "operand done", "end")
  BY <1>1, <1>3, <1>5, ChildDepth, Zenon
<1> QED
  BY <1>4, <1>5 DEF ParseReference

\* ParseStructField keeps the invariant.
LEMMA StructFieldDepth ==
  ASSUME DepthInv, ParseStructField PROVE DepthInv'
<1>1. /\ "colon" \in Names /\ "end" \in Names /\ "expression" \in Names /\ "value" \in Names
      /\ "value done" \in Names
  BY DEF Names
<1>2. ":" \in Tokens /\ "id" \in Tokens
  BY DEF Tokens
<1>3. Calls("struct_field", "value", "expression", "value done")
  BY DEF Calls, Keeps, Height, Tall, Deep
<1>4. CASE Expect("struct_field", "start", "id", "colon")
  BY <1>1, <1>2, <1>4, ExpectDepth, Zenon
<1>5. CASE Expect("struct_field", "colon", ":", "value")
  BY <1>1, <1>2, <1>5, ExpectDepth, Zenon
<1>6. CASE Child("struct_field", "value", Frame("expression", FALSE), "value done", "end")
  BY <1>1, <1>3, <1>6, ChildDepth, Zenon
<1> QED
  BY <1>4, <1>5, <1>6 DEF ParseStructField

\* ParseBlock keeps the invariant.
LEMMA BlockDepth ==
  ASSUME DepthInv, ParseBlock PROVE DepthInv'
<1>1. /\ "close" \in Names /\ "declaration" \in Names /\ "end" \in Names /\ "loop" \in Names
      /\ "statement" \in Names /\ "statement done" \in Names
  BY DEF Names
<1>2. "{" \in Tokens /\ "}" \in Tokens
  BY DEF Tokens
<1>3. /\ Keeps("block", "loop", "statement") /\ Keeps("block", "loop", "close")
      /\ Calls("block", "statement", "declaration", "statement done")
      /\ Keeps("block", "statement done", "loop")
  BY DEF Calls, Keeps, Height, Tall, Deep
<1>4. CASE Expect("block", "start", "{", "loop")
  BY <1>1, <1>2, <1>4, ExpectDepth, Zenon
<1>5. CASE Test("block", "loop", HasInput /\ ~Is("}"), "statement", "close")
  BY <1>1, <1>3, <1>5, TestDepth, Zenon
<1>6. CASE Child("block", "statement", Frame("declaration", FALSE), "statement done", "loop")
  BY <1>1, <1>3, <1>6, ChildDepth, Zenon
<1>7. CASE Expect("block", "close", "}", "end")
  BY <1>1, <1>2, <1>7, ExpectDepth, Zenon
<1> QED
  BY <1>4, <1>5, <1>6, <1>7 DEF ParseBlock

\* ParseVariable keeps the invariant.
LEMMA VariableDepth ==
  ASSUME DepthInv, ParseVariable PROVE DepthInv'
<1>1. /\ "assign" \in Names /\ "colon" \in Names /\ "end" \in Names /\ "expression" \in Names
      /\ "hint" \in Names /\ "hint done" \in Names /\ "name" \in Names /\ "semicolon" \in Names
      /\ "type" \in Names /\ "value" \in Names /\ "value done" \in Names
  BY DEF Names
<1>2. /\ ":" \in Tokens /\ ";" \in Tokens /\ "=" \in Tokens /\ "id" \in Tokens
      /\ "var" \in Tokens
  BY DEF Tokens
<1>3. /\ Keeps("variable", "colon", "assign") /\ Calls("variable", "hint", "type", "hint done")
      /\ Keeps("variable", "hint done", "assign")
      /\ Calls("variable", "value", "expression", "value done")
      /\ Keeps("variable", "value done", "semicolon")
  BY DEF Calls, Keeps, Height, Tall, Deep
<1>4. CASE Expect("variable", "start", "var", "name")
  BY <1>1, <1>2, <1>4, ExpectDepth, Zenon
<1>5. CASE Expect("variable", "name", "id", "colon")
  BY <1>1, <1>2, <1>5, ExpectDepth, Zenon
<1>6. CASE Option("variable", "colon", ":", "hint", "assign")
  BY <1>1, <1>2, <1>3, <1>6, OptionDepth, Zenon
<1>7. CASE Child("variable", "hint", Frame("type", TRUE), "hint done", "assign")
  BY <1>1, <1>3, <1>7, ChildDepth, Zenon
<1>8. CASE Expect("variable", "assign", "=", "value")
  BY <1>1, <1>2, <1>8, ExpectDepth, Zenon
<1>9. CASE Child("variable", "value", Frame("expression", FALSE), "value done", "semicolon")
  BY <1>1, <1>3, <1>9, ChildDepth, Zenon
<1>10. CASE Expect("variable", "semicolon", ";", "end")
  BY <1>1, <1>2, <1>10, ExpectDepth, Zenon
<1> QED
  BY <1>4, <1>5, <1>6, <1>7, <1>8, <1>9, <1>10 DEF ParseVariable

\* ParseFieldDeclaration keeps the invariant.
LEMMA FieldDeclarationDepth ==
  ASSUME DepthInv, ParseFieldDeclaration PROVE DepthInv'
<1>1. /\ "colon" \in Names /\ "end" \in Names /\ "semicolon" \in Names /\ "type" \in Names
      /\ "type done" \in Names
  BY DEF Names
<1>2. ":" \in Tokens /\ ";" \in Tokens /\ "id" \in Tokens
  BY DEF Tokens
<1>3. /\ Calls("field_declaration", "type", "type", "type done")
      /\ Keeps("field_declaration", "type done", "semicolon")
  BY DEF Calls, Keeps, Height, Tall, Deep
<1>4. CASE Expect("field_declaration", "start", "id", "colon")
  BY <1>1, <1>2, <1>4, ExpectDepth, Zenon
<1>5. CASE Expect("field_declaration", "colon", ":", "type")
  BY <1>1, <1>2, <1>5, ExpectDepth, Zenon
<1>6. CASE Child("field_declaration", "type", Frame("type", FALSE), "type done", "semicolon")
  BY <1>1, <1>3, <1>6, ChildDepth, Zenon
<1>7. CASE Expect("field_declaration", "semicolon", ";", "end")
  BY <1>1, <1>2, <1>7, ExpectDepth, Zenon
<1> QED
  BY <1>4, <1>5, <1>6, <1>7 DEF ParseFieldDeclaration

\* ParseTypeName keeps the invariant.
LEMMA TypeNameDepth ==
  ASSUME DepthInv, ParseTypeName PROVE DepthInv'
<1>1. "end" \in Names /\ "id" \in Tokens
  BY DEF Names, Tokens
<1> QED
  BY <1>1, ExpectDepth DEF ParseTypeName

\* ParseType keeps the invariant.
LEMMA TypeDepth ==
  ASSUME DepthInv, ParseType PROVE DepthInv'
<1>1. "array_type" \in Names /\ "reference_type" \in Names /\ "type_name" \in Names
  BY DEF Names
<1>2. /\ Tall("array_type") = Tall("type") /\ Tall("reference_type") = Tall("type")
      /\ Tall("type_name") = Tall("type")
  BY DEF Tall, Deep
<1>3. /\ <<"&", "reference_type">>[2] = "reference_type"
      /\ <<"[", "array_type">>[2] = "array_type"
  OBVIOUS
<1>4. PICK choices : choices = {<<"&", "reference_type">>, <<"[", "array_type">>}
  OBVIOUS
<1>5. \A c \in choices : c[2] \in Names /\ Tall(c[2]) = Tall("type")
  BY <1>1, <1>2, <1>3, <1>4, Zenon
<1>6. Select("type", "start", choices, "type_name")
  BY <1>4, Zenon DEF ParseType
<1>7. "type" # "source"
  OBVIOUS
<1> QED
  BY <1>1, <1>2, <1>5, <1>6, <1>7, SelectDepth

\* ParseExpression keeps the invariant.
LEMMA ExpressionDepth ==
  ASSUME DepthInv, ParseExpression PROVE DepthInv'
<1>1. /\ "array" \in Names /\ "cast" \in Names /\ "identifier" \in Names /\ "literal" \in Names
      /\ "reference" \in Names /\ "struct_literal" \in Names
  BY DEF Names
<1>2. /\ Tall("array") = Tall("expression") /\ Tall("cast") = Tall("expression")
      /\ Tall("identifier") = Tall("expression") /\ Tall("literal") = Tall("expression")
      /\ Tall("reference") = Tall("expression") /\ Tall("struct_literal") = Tall("expression")
  BY DEF Tall, Deep
<1>3. /\ <<"cast", "cast">>[2] = "cast" /\ <<"[", "array">>[2] = "array"
      /\ <<"{", "struct_literal">>[2] = "struct_literal"
      /\ <<"&", "reference">>[2] = "reference" /\ <<"id", "identifier">>[2] = "identifier"
  OBVIOUS
<1>4. PICK choices : choices = {<<"cast", "cast">>, <<"[", "array">>, <<"{", "struct_literal">>, <<"&", "reference">>,
              <<"id", "identifier">>}
  OBVIOUS
<1>5. \A c \in choices : c[2] \in Names /\ Tall(c[2]) = Tall("expression")
  BY <1>1, <1>2, <1>3, <1>4, Zenon
<1>6. Select("expression", "start", choices, "literal")
  BY <1>4, Zenon DEF ParseExpression
<1>7. "expression" # "source"
  OBVIOUS
<1> QED
  BY <1>1, <1>2, <1>5, <1>6, <1>7, SelectDepth

\* ParseStatement keeps the invariant.
LEMMA StatementDepth ==
  ASSUME DepthInv, ParseStatement PROVE DepthInv'
<1>1. "block" \in Names /\ "expression_statement" \in Names /\ "if" \in Names
  BY DEF Names
<1>2. /\ Tall("block") = Tall("statement") /\ Tall("expression_statement") = Tall("statement")
      /\ Tall("if") = Tall("statement")
  BY DEF Tall, Deep
<1>3. <<"if", "if">>[2] = "if" /\ <<"{", "block">>[2] = "block"
  OBVIOUS
<1>4. PICK choices : choices = {<<"if", "if">>, <<"{", "block">>}
  OBVIOUS
<1>5. \A c \in choices : c[2] \in Names /\ Tall(c[2]) = Tall("statement")
  BY <1>1, <1>2, <1>3, <1>4, Zenon
<1>6. Select("statement", "start", choices, "expression_statement")
  BY <1>4, Zenon DEF ParseStatement
<1>7. "statement" # "source"
  OBVIOUS
<1> QED
  BY <1>1, <1>2, <1>5, <1>6, <1>7, SelectDepth

\* ParseLiteral keeps the invariant.
LEMMA LiteralDepth ==
  ASSUME DepthInv, ParseLiteral PROVE DepthInv'
<1>1. CASE At("literal", "start") /\ Return("null") /\ UNCHANGED source
  BY <1>1, ReturnedDepth
<1>2. CASE At("literal", "start") /\ look \in {"int", "bigint", "bool"} /\ Consume
           /\ (Return("node") \/ Return("null"))
  <2>1. look # Eof
    BY <1>2 DEF Eof
  <2> QED
    BY <1>2, <2>1, ReturnedDepth
<1> QED
  BY <1>1, <1>2 DEF ParseLiteral

\* ParseIdentifier keeps the invariant.
LEMMA IdentifierDepth ==
  ASSUME DepthInv, ParseIdentifier PROVE DepthInv'
<1>1. "named" \in Names /\ "struct_literal" \in Names
  BY DEF Names
<1>2. "id" \in Tokens
  BY DEF Tokens
<1>3. Tall("struct_literal") = Tall("identifier")
  BY DEF Calls, Keeps, Height, Tall, Deep
<1>4. CASE Expect("identifier", "start", "id", "named")
  BY <1>1, <1>2, <1>4, ExpectDepth, Zenon
<1>5. CASE At("identifier", "named") /\ Become(Frame("struct_literal", FALSE)) /\ UNCHANGED source
  BY <1>1, <1>3, <1>5, BecomeDepth
<1>6. CASE At("identifier", "named") /\ Return("node") /\ UNCHANGED source
  BY <1>6, ReturnedDepth
<1> QED
  BY <1>4, <1>5, <1>6 DEF ParseIdentifier, Quiet

\* ParseStructLiteral keeps the invariant.
LEMMA StructLiteralDepth ==
  ASSUME DepthInv, ParseStructLiteral PROVE DepthInv'
<1>1. /\ "close" \in Names /\ "end" \in Names /\ "field" \in Names /\ "field done" \in Names
      /\ "loop" \in Names /\ "next" \in Names /\ "skipped" \in Names /\ "struct_field" \in Names
      /\ "synchronize" \in Names
  BY DEF Names
<1>2. "," \in Tokens /\ "{" \in Tokens /\ "}" \in Tokens
  BY DEF Tokens
<1>3. /\ Keeps("struct_literal", "loop", "field") /\ Keeps("struct_literal", "loop", "close")
      /\ Calls("struct_literal", "field", "struct_field", "field done")
      /\ Keeps("struct_literal", "field done", "next")
      /\ Keeps("struct_literal", "next", "close")
      /\ Calls("struct_literal", "next", "synchronize", "skipped")
  BY DEF Calls, Keeps, Height, Tall, Deep
<1>4. CASE Expect("struct_literal", "start", "{", "loop")
  BY <1>1, <1>2, <1>4, ExpectDepth, Zenon
<1>5. CASE Test("struct_literal", "loop", HasInput, "field", "close")
  BY <1>1, <1>3, <1>5, TestDepth, Zenon
<1>6. CASE Child("struct_literal", "field", Frame("struct_field", FALSE), "field done", "next")
  BY <1>1, <1>3, <1>6, ChildDepth, Zenon
<1>7. CASE Expect("struct_literal", "close", "}", "end")
  BY <1>1, <1>2, <1>7, ExpectDepth, Zenon
<1>8. CASE At("struct_literal", "next") /\ Goto("close") /\ UNCHANGED source
  BY <1>1, <1>3, <1>8, GotoDepth DEF Keeps
<1>9. CASE At("struct_literal", "next") /\ Is(",") /\ Consume /\ Goto("loop")
  BY <1>1, <1>2, <1>9, KnownToken, GotoDepth
<1>10. CASE At("struct_literal", "next") /\ Call(Frame("synchronize", FALSE), "skipped") /\ UNCHANGED source
  BY <1>1, <1>3, <1>10, CalledDepth DEF Calls
<1>11. CASE At("struct_literal", "skipped") /\ Return("null") /\ UNCHANGED source
  BY <1>11, ReturnedDepth
<1> QED
  BY <1>4, <1>5, <1>6, <1>7, <1>8, <1>9, <1>10, <1>11 DEF ParseStructLiteral, Quiet

\* ParseExpressionStatement keeps the invariant.
LEMMA ExpressionStatementDepth ==
  ASSUME DepthInv, ParseExpressionStatement PROVE DepthInv'
<1>1. "expression" \in Names /\ "semicolon" \in Names
  BY DEF Names
<1>2. ";" \in Tokens
  BY DEF Tokens
<1>3. Calls("expression_statement", "start", "expression", "semicolon")
  BY DEF Calls, Keeps, Height, Tall, Deep
<1>4. CASE At("expression_statement", "start") /\ Call(Frame("expression", FALSE), "semicolon") /\ UNCHANGED source
  BY <1>1, <1>3, <1>4, CalledDepth DEF Calls
<1>5. CASE At("expression_statement", "semicolon") /\ Is(";") /\ Consume /\ Return(ret)
  BY <1>2, <1>5, KnownToken, ReturnedDepth
<1>6. CASE At("expression_statement", "semicolon") /\ Return("null") /\ UNCHANGED source
  BY <1>6, ReturnedDepth
<1> QED
  BY <1>4, <1>5, <1>6 DEF ParseExpressionStatement, Quiet

\* ParseIf keeps the invariant.
LEMMA IfDepth ==
  ASSUME DepthInv, ParseIf PROVE DepthInv'
<1>1. /\ "block" \in Names /\ "close" \in Names /\ "condition" \in Names
      /\ "condition done" \in Names /\ "else" \in Names /\ "else?" \in Names
      /\ "expression" \in Names /\ "if" \in Names /\ "open" \in Names /\ "then" \in Names
      /\ "then done" \in Names
  BY DEF Names
<1>2. "(" \in Tokens /\ ")" \in Tokens /\ "else" \in Tokens /\ "if" \in Tokens
  BY DEF Tokens
<1>3. /\ Calls("if", "condition", "expression", "condition done")
      /\ Keeps("if", "condition done", "close") /\ Calls("if", "then", "block", "then done")
      /\ Keeps("if", "then done", "else?") /\ Tall("block") = Tall("if")
  BY DEF Calls, Keeps, Height, Tall, Deep
<1>4. CASE Expect("if", "start", "if", "open")
  BY <1>1, <1>2, <1>4, ExpectDepth, Zenon
<1>5. CASE Expect("if", "open", "(", "condition")
  BY <1>1, <1>2, <1>5, ExpectDepth, Zenon
<1>6. CASE Child("if", "condition", Frame("expression", FALSE), "condition done", "close")
  BY <1>1, <1>3, <1>6, ChildDepth, Zenon
<1>7. CASE Expect("if", "close", ")", "then")
  BY <1>1, <1>2, <1>7, ExpectDepth, Zenon
<1>8. CASE Child("if", "then", Frame("block", FALSE), "then done", "else?")
  BY <1>1, <1>3, <1>8, ChildDepth, Zenon
<1>9. CASE At("if", "else?") /\ Is("else") /\ Consume /\ Goto("else")
  BY <1>1, <1>2, <1>9, KnownToken, GotoDepth
<1>10. CASE At("if", "else?") /\ Return("node") /\ UNCHANGED source
  BY <1>10, ReturnedDepth
<1>11. CASE At("if", "else") /\ Become(Frame(IF Is("if") THEN "if" ELSE "block", FALSE)) /\ Quiet
  BY <1>1, <1>3, <1>11, BecomeDepth DEF Quiet
<1> QED
  BY <1>4, <1>5, <1>6, <1>7, <1>8, <1>9, <1>10, <1>11 DEF ParseIf

\* ParseAttribute keeps the invariant.
LEMMA AttributeDepth ==
  ASSUME DepthInv, ParseAttribute PROVE DepthInv'
<1>1. /\ "arguments" \in Names /\ "arguments done" \in Names /\ "close" \in Names
      /\ "colon" \in Names /\ "comma" \in Names /\ "end" \in Names /\ "expression" \in Names
      /\ "loop" \in Names /\ "name" \in Names /\ "open" \in Names /\ "value" \in Names
      /\ "value done" \in Names
  BY DEF Names
<1>2. /\ "#" \in Tokens /\ "(" \in Tokens /\ ")" \in Tokens /\ "," \in Tokens /\ ":" \in Tokens
      /\ "[" \in Tokens /\ "]" \in Tokens /\ "id" \in Tokens
  BY DEF Tokens
<1>3. /\ Keeps("attribute", "arguments", "close")
      /\ Keeps("attribute", "loop", "arguments done")
      /\ Calls("attribute", "value", "expression", "value done")
      /\ Keeps("attribute", "value done", "comma")
      /\ Keeps("attribute", "comma", "arguments done")
  BY DEF Calls, Keeps, Height, Tall, Deep
<1>4. CASE Expect("attribute", "start", "#", "open")
  BY <1>1, <1>2, <1>4, ExpectDepth, Zenon
<1>5. CASE Expect("attribute", "open", "[", "name")
  BY <1>1, <1>2, <1>5, ExpectDepth, Zenon
<1>6. CASE Expect("attribute", "name", "id", "arguments")
  BY <1>1, <1>2, <1>6, ExpectDepth, Zenon
<1>7. CASE Option("attribute", "arguments", "(", "loop", "close")
  BY <1>1, <1>2, <1>3, <1>7, OptionDepth, Zenon
<1>8. CASE Option("attribute", "loop", "id", "colon", "arguments done")
  BY <1>1, <1>2, <1>3, <1>8, OptionDepth, Zenon
<1>9. CASE Expect("attribute", "colon", ":", "value")
  BY <1>1, <1>2, <1>9, ExpectDepth, Zenon
<1>10. CASE Child("attribute", "value", Frame("expression", FALSE), "value done", "comma")
  BY <1>1, <1>3, <1>10, ChildDepth, Zenon
<1>11. CASE Expect("attribute", "arguments done", ")", "close")
  BY <1>1, <1>2, <1>11, ExpectDepth, Zenon
<1>12. CASE Expect("attribute", "close", "]", "end")
  BY <1>1, <1>2, <1>12, ExpectDepth, Zenon
<1>13. CASE At("attribute", "comma") /\ Goto("arguments done") /\ UNCHANGED source
  BY <1>1, <1>3, <1>13, GotoDepth DEF Keeps
<1>14. CASE Expect("attribute", "comma", ",", "loop")
  BY <1>1, <1>2, <1>14, ExpectDepth, Zenon
<1> QED
  BY <1>4, <1>5, <1>6, <1>7, <1>8, <1>9, <1>10, <1>11, <1>12, <1>13, <1>14 DEF ParseAttribute, Quiet

\* ParseStruct keeps the invariant.
LEMMA StructDepth ==
  ASSUME DepthInv, ParseStruct PROVE DepthInv'
<1>1. /\ "close" \in Names /\ "end" \in Names /\ "field_declaration" \in Names
      /\ "loop" \in Names /\ "member" \in Names /\ "member done" \in Names
      /\ "members done" \in Names /\ "name" \in Names /\ "open" \in Names
  BY DEF Names
<1>2. "id" \in Tokens /\ "struct" \in Tokens /\ "{" \in Tokens /\ "}" \in Tokens
  BY DEF Tokens
<1>3. /\ Keeps("struct", "loop", "member") /\ Keeps("struct", "loop", "members done")
      /\ Calls("struct", "member", "field_declaration", "member done")
      /\ Keeps("struct", "member done", "loop") /\ Keeps("struct", "members done", "close")
  BY DEF Calls, Keeps, Height, Tall, Deep
<1>4. CASE Expect("struct", "start", "struct", "name")
  BY <1>1, <1>2, <1>4, ExpectDepth, Zenon
<1>5. CASE Expect("struct", "name", "id", "open")
  BY <1>1, <1>2, <1>5, ExpectDepth, Zenon
<1>6. CASE Expect("struct", "open", "{", "loop")
  BY <1>1, <1>2, <1>6, ExpectDepth, Zenon
<1>7. CASE Test("struct", "loop", HasInput /\ ~Is("}"), "member", "members done")
  BY <1>1, <1>3, <1>7, TestDepth, Zenon
<1>8. CASE Expect("struct", "close", "}", "end")
  BY <1>1, <1>2, <1>8, ExpectDepth, Zenon
<1>9. CASE At("struct", "member") /\ Call(Frame("field_declaration", FALSE), "member done") /\ UNCHANGED source
  BY <1>1, <1>3, <1>9, CalledDepth DEF Calls
<1>10. CASE At("struct", "member done") /\ Return("null") /\ UNCHANGED source
  BY <1>10, ReturnedDepth
<1>11. CASE At("struct", "member done") /\ GotoFlag("loop", TRUE) /\ UNCHANGED source
  BY <1>1, <1>3, <1>11, GotoDepth DEF Keeps
<1>12. CASE At("struct", "members done") /\ Goto("close") /\ UNCHANGED source
  BY <1>1, <1>3, <1>12, GotoDepth DEF Keeps
<1> QED
  BY <1>4, <1>5, <1>6, <1>7, <1>8, <1>9, <1>10, <1>11, <1>12 DEF ParseStruct, Quiet

\* ParseDeclaration keeps the invariant.
LEMMA DeclarationDepth ==
  ASSUME DepthInv, ParseDeclaration PROVE DepthInv'
<1>1. /\ "attribute" \in Names /\ "attribute done" \in Names /\ "start" \in Names
      /\ "statement" \in Names /\ "struct" \in Names /\ "variable" \in Names
  BY DEF Names
<1>2. /\ Calls("declaration", "start", "attribute", "attribute done")
      /\ Tall("variable") = Tall("declaration") /\ Tall("struct") = Tall("declaration")
      /\ Tall("statement") = Tall("declaration")
      /\ Keeps("declaration", "attribute done", "start")
  BY DEF Calls, Keeps, Height, Tall, Deep
<1>3. CASE At("declaration", "start") /\ Call(Frame("attribute", FALSE), "attribute done") /\ UNCHANGED source
  BY <1>1, <1>2, <1>3, CalledDepth DEF Calls
<1>4. CASE At("declaration", "start") /\ Become(Frame("variable", FALSE)) /\ UNCHANGED source
  BY <1>1, <1>2, <1>4, BecomeDepth
<1>5. CASE At("declaration", "start") /\ Become(Frame("struct", FALSE)) /\ UNCHANGED source
  BY <1>1, <1>2, <1>5, BecomeDepth
<1>6. CASE At("declaration", "start") /\ Become(Frame("statement", FALSE)) /\ UNCHANGED source
  BY <1>1, <1>2, <1>6, BecomeDepth
<1>7. CASE At("declaration", "attribute done") /\ GotoFlag("start", Top.flag \/ ret # "null") /\ UNCHANGED source
  <2>1. (Top.flag \/ ret # "null") \in BOOLEAN
    OBVIOUS
  <2> QED
    BY <1>1, <1>2, <1>7, <2>1, GotoDepth DEF Keeps
<1> QED
  BY <1>3, <1>4, <1>5, <1>6, <1>7 DEF ParseDeclaration, Quiet

\* ParseSource keeps the invariant.
LEMMA SourceDepth ==
  ASSUME DepthInv, ParseSource PROVE DepthInv'
<1>1. /\ "declaration" \in Names /\ "declared" \in Names /\ "separator" \in Names
      /\ "start" \in Names /\ "synchronize" \in Names /\ "synchronized" \in Names
  BY DEF Names
<1>2. ";" \in Tokens
  BY DEF Tokens
<1>3. /\ Keeps("source", "separator", "start")
      /\ Calls("source", "start", "declaration", "declared")
      /\ Calls("source", "declared", "synchronize", "synchronized")
      /\ Keeps("source", "declared", "separator") /\ Keeps("source", "synchronized", "start")
  BY DEF Calls, Keeps, Height, Tall, Deep
<1>4. CASE Option("source", "separator", ";", "start", "start")
  BY <1>1, <1>2, <1>3, <1>4, OptionDepth, Zenon
<1>5. CASE At("source", "start") /\ Call(Frame("declaration", FALSE), "declared") /\ UNCHANGED source
  BY <1>1, <1>3, <1>5, CalledDepth DEF Calls
<1>6. CASE At("source", "start") /\ Return("none") /\ UNCHANGED source
  BY <1>6, ReturnedDepth
<1>7. CASE At("source", "declared") /\ Call(Frame("synchronize", TRUE), "synchronized") /\ UNCHANGED source
  BY <1>1, <1>3, <1>7, CalledDepth DEF Calls
<1>8. CASE At("source", "declared") /\ Goto("separator") /\ UNCHANGED source
  BY <1>1, <1>3, <1>8, GotoDepth DEF Keeps
<1>9. CASE At("source", "synchronized") /\ Goto("start") /\ UNCHANGED source
  BY <1>1, <1>3, <1>9, GotoDepth DEF Keeps
<1>10. CASE At("source", "synchronized") /\ Return("none") /\ UNCHANGED source
  BY <1>10, ReturnedDepth
<1> QED
  BY <1>4, <1>5, <1>6, <1>7, <1>8, <1>9, <1>10 DEF ParseSource, Quiet

\* Synchronize keeps the invariant.
LEMMA SynchronizeDepth ==
  ASSUME DepthInv, Synchronize PROVE DepthInv'
<1>1. "start" \in Names
  BY DEF Names
<1>2. CASE At("synchronize", "start") /\ Return("lost") /\ UNCHANGED source
  BY <1>2, ReturnedDepth
<1>3. CASE At("synchronize", "start") /\ HasInput /\ Consume /\ (Return("found") \/ Goto("start"))
  BY <1>1, <1>3, GotoDepth, ReturnedDepth DEF HasInput
<1> QED
  BY <1>2, <1>3 DEF Synchronize

\* ParseReferenceType keeps the invariant.
LEMMA ReferenceTypeDepth ==
  ASSUME DepthInv, ParseReferenceType PROVE DepthInv'
<1>1. "element" \in Names /\ "made" \in Names /\ "type" \in Names
  BY DEF Names
<1>2. "&" \in Tokens
  BY DEF Tokens
<1>3. Calls("reference_type", "element", "type", "made")
  BY DEF Calls, Keeps, Height, Tall, Deep
<1>4. CASE Expect("reference_type", "start", "&", "element")
  BY <1>1, <1>2, <1>4, ExpectDepth, Zenon
<1>5. CASE At("reference_type", "element") /\ Call(Frame("type", Top.flag), "made") /\ UNCHANGED source
  <2>1. Top.flag \in BOOLEAN
    BY <1>5, TopFrame DEF Frames
  <2> QED
    BY <1>1, <1>3, <1>5, <2>1, CalledDepth DEF Calls
<1>6. CASE At("reference_type", "made") /\ Quiet
           /\ Return(IF ret = "null" THEN "holed" ELSE ret)
  BY <1>6, ReturnedDepth DEF Quiet
<1> QED
  BY <1>4, <1>5, <1>6 DEF ParseReferenceType, TypeElement, Quiet

\* ParseArrayType keeps the invariant.
LEMMA ArrayTypeDepth ==
  ASSUME DepthInv, ParseArrayType PROVE DepthInv'
<1>1. /\ "close" \in Names /\ "element" \in Names /\ "length" \in Names /\ "made" \in Names
      /\ "type" \in Names
  BY DEF Names
<1>2. "[" \in Tokens /\ "]" \in Tokens /\ "bigint" \in Tokens /\ "int" \in Tokens
  BY DEF Tokens
<1>3. /\ Keeps("array_type", "length", "close")
      /\ Calls("array_type", "element", "type", "made")
  BY DEF Calls, Keeps, Height, Tall, Deep
<1>4. CASE Expect("array_type", "start", "[", "length")
  BY <1>1, <1>2, <1>4, ExpectDepth, Zenon
<1>5. CASE Expect("array_type", "close", "]", "element")
  BY <1>1, <1>2, <1>5, ExpectDepth, Zenon
<1>6. CASE At("array_type", "length") /\ Goto("close") /\ UNCHANGED source
  BY <1>1, <1>3, <1>6, GotoDepth DEF Keeps
<1>7. CASE At("array_type", "length") /\ Is("int") /\ Consume /\ Goto("close")
  BY <1>1, <1>2, <1>7, KnownToken, GotoDepth
<1>8. CASE At("array_type", "length") /\ Is("bigint") /\ Consume /\ Return("null")
  BY <1>2, <1>8, KnownToken, ReturnedDepth
<1>9. CASE At("array_type", "element") /\ Call(Frame("type", Top.flag), "made") /\ UNCHANGED source
  <2>1. Top.flag \in BOOLEAN
    BY <1>9, TopFrame DEF Frames
  <2> QED
    BY <1>1, <1>3, <1>9, <2>1, CalledDepth DEF Calls
<1>10. CASE At("array_type", "made") /\ Quiet
            /\ Return(IF ret = "null" THEN "holed" ELSE ret)
  BY <1>10, ReturnedDepth DEF Quiet
<1> QED
  BY <1>4, <1>5, <1>6, <1>7, <1>8, <1>9, <1>10 DEF ParseArrayType, TypeElement, Quiet, Is

\* Every step keeps the invariant.
LEMMA StepDepth ==
  ASSUME DepthInv, [Next]_vars PROVE DepthInv'
<1>1. CASE UNCHANGED vars
  BY <1>1 DEF vars, DepthInv, SourceOK, Remaining, Top
<1>2. CASE Next
  BY <1>2, TypeDepth, TypeNameDepth, ReferenceTypeDepth, ArrayTypeDepth, ExpressionDepth,
     LiteralDepth, CastDepth, ArrayDepth, ReferenceDepth, IdentifierDepth, StructFieldDepth,
     StructLiteralDepth, ExpressionStatementDepth, BlockDepth, IfDepth, StatementDepth,
     VariableDepth, FieldDeclarationDepth, StructDepth, AttributeDepth, DeclarationDepth,
     SourceDepth, SynchronizeDepth DEF Next
<1> QED
  BY <1>1, <1>2

\* The call of zenit_parse_source is all there is at first.
LEMMA InitDepth ==
  ASSUME Init PROVE DepthInv
<1>1. SourceOK /\ Remaining \in Nat /\ Remaining <= MaxTokens + MaxBeginning
  <2>1. CASE look \in TokenTypes /\ given = <<>> /\ left = IF look = Eof THEN 0 ELSE MaxTokens
    <3>1. Len(<<>>) = 0 /\ <<>> \in Seq(Tokens)
      OBVIOUS
    <3> QED
      BY <2>1, <3>1, ParserAssumption DEF SourceOK, Remaining
  <2>2. ASSUME NEW b \in Beginnings \ {<<>>}, look = Head(b), given = Tail(b), left = MaxTokens
        PROVE  SourceOK /\ Remaining \in Nat /\ Remaining <= MaxTokens + MaxBeginning
    <3>1. b \in Seq(Tokens) /\ Len(b) <= MaxBeginning /\ b # <<>>
      BY ParserAssumption
    <3>2. /\ Head(b) \in Tokens /\ Tail(b) \in Seq(Tokens)
          /\ Len(Tail(b)) = Len(b) - 1 /\ Len(Tail(b)) \in Nat
      BY <3>1
    <3>3. Len(given) \in Nat /\ Len(given) + 1 <= MaxBeginning /\ look \in TokenTypes
      BY <2>2, <3>1, <3>2, ParserAssumption DEF TokenTypes
    <3> QED
      BY <2>2, <3>2, <3>3, ParserAssumption DEF SourceOK, Remaining
  <2> QED
    BY <2>1, <2>2 DEF Init
<1>2. PICK frame : frame = Frame("source", FALSE)
  OBVIOUS
<1>3. "source" \in Names
  BY DEF Names
<1>4. frame \in Frames /\ frame.fn = "source" /\ frame.at = "start"
  BY <1>2, <1>3, NewFrame
<1>5. stack = <<frame>>
  BY <1>2 DEF Init
<1>6. stack \in Seq(Frames) /\ Len(stack) = 1 /\ stack[1] = frame
  BY <1>4, <1>5
<1>7. Height("source", "start") = 1
  BY DEF Height, Tall
<1>8. 2..1 = {}
  OBVIOUS
<1>9. 1 + 2 * Remaining <= 2 * (MaxTokens + MaxBeginning) + 1
  BY <1>1, ParserAssumption
<1> QED
  BY <1>1, <1>4, <1>6, <1>7, <1>8, <1>9 DEF DepthInv, Top

\* The calls of the parser nest no deeper than the tokens of the source allow,
\* for every beginning and every number of tokens: at most two calls for each
\* token, and three.  The call at the bottom is zenit_parse_source.
THEOREM ParserTypeCorrect == Spec => []ParserTypeOK
<1> DEFINE Inv == DepthInv /\ ret \in Results /\ failed \in BOOLEAN /\ NullMeansError
<1>1. Init => Inv
  <2>1. Init => ret = "none" /\ failed = FALSE
    BY DEF Init
  <2>2. "none" \in Results
    BY DEF Results
  <2> QED
    BY <2>1, <2>2, InitDepth DEF NullMeansError
<1>2. Inv /\ [Next]_vars => Inv'
  <2> SUFFICES ASSUME Inv, [Next]_vars PROVE Inv'
    OBVIOUS
  <2>1. CASE Next
    BY <2>1, StepSound, StepDepth, StepKeepsErrors DEF Sound
  <2>2. CASE UNCHANGED vars
    BY <2>2, StepDepth DEF vars, NullMeansError
  <2> QED
    BY <2>1, <2>2
<1>3. Inv => ParserTypeOK
  <2> SUFFICES ASSUME Inv PROVE ParserTypeOK
    OBVIOUS
  <2>1. stack \in Seq(Frames)
    BY DEF DepthInv
  <2>2. ASSUME NEW i \in DOMAIN stack PROVE stack[i].flag \in BOOLEAN
    <3>1. stack[i] \in Frames
      BY <2>1
    <3>2. \A f \in Frames : f.flag \in BOOLEAN
      BY DEF Frames
    <3> QED
      BY <3>1, <3>2
  <2>3. Len(stack) <= MaxDepth
    <3>1. CASE stack = <<>>
      BY <3>1, ParserAssumption DEF MaxDepth
    <3>2. CASE stack # <<>>
      <4>1. Len(stack) + 2 * Remaining <= 2 * (MaxTokens + MaxBeginning) + Height(Top.fn, Top.at)
        BY <3>2 DEF DepthInv
      <4>2. Height(Top.fn, Top.at) \in 1..3
        BY Heights
      <4>3. Remaining \in Nat /\ Len(stack) \in Nat
        <5>1. SourceOK
          BY DEF DepthInv
        <5> QED
          BY <2>1, <5>1, SourceCounts
      <4> QED
        BY <4>1, <4>2, <4>3, ParserAssumption DEF MaxDepth
    <3> QED
      BY <3>1, <3>2
  <2> QED
    BY <2>2, <2>3 DEF DepthInv, SourceOK, ParserTypeOK
<1> HIDE DEF Inv
<1> QED
  BY <1>1, <1>2, <1>3, PTL DEF Spec

-----------------------------------------------------------------------------
(***************************************************************************)
(* What a set of forms lets come next.                                     *)
(***************************************************************************)

\* What the rules of the grammar define, and the symbols of its forms.
NonterminalNames ==
  {"empty", "declarations", "declaration", "attributes", "property", "struct_declaration", "fields",
   "field", "variable", "hint", "statement", "if_statement", "block", "named", "expression", "array",
   "elements", "struct_literal", "members", "member", "program", "properties", "arguments",
   "alternative", "literal", "type", "field_type"}
Symbols == Tokens \cup NonterminalNames
Forms == SUBSET Seq(Symbols)

\* The forms that begin with x and go on with one of R, and those that begin with
\* the symbols of p.
Dot(x, R) == {s \in Seq(Symbols) : s # <<>> /\ Head(s) = x /\ Tail(s) \in R}
Prefixed(p, R) == {s \in Seq(Symbols) : \E r \in R \cap Seq(Symbols) : s = p \o r}

\* What follows when token t is read, or the empty form if the source may end.
Row(F, t) ==
  IF t = Eof THEN F \cap {<<>>} ELSE {Tail(f) : f \in {g \in F : g # <<>> /\ Head(g) = t}}
After(F, t) == Row(Expanded(F), t)

\* The rules define these names, in either grammar.
LEMMA NonterminalsAre == Nonterminals = NonterminalNames
BY DEF Nonterminals, NonterminalNames, Common, Rules, Departures, AsDocumented

\* Tokens and names of rules are symbols, and no token names a rule.
LEMMA SymbolKinds ==
  /\ \A t \in Tokens : t \in Symbols /\ t \notin Nonterminals /\ t # Eof
  /\ \A n \in Nonterminals : n \in Symbols
BY NonterminalsAre DEF Tokens, NonterminalNames, Symbols, Eof

\* Forms.
LEMMA FormsKept ==
  /\ {} \in Forms /\ {<<>>} \in Forms
  /\ \A x, R : Dot(x, R) \in Forms
  /\ \A p, R : Prefixed(p, R) \in Forms
  /\ \A A, B \in Forms : A \cup B \in Forms
BY DEF Forms, Dot, Prefixed

\* One symbol before either of two sets of forms.
LEMMA DotUnion ==
  ASSUME NEW x, NEW A, NEW B
  PROVE  Dot(x, A \cup B) = Dot(x, A) \cup Dot(x, B)
BY DEF Dot

\* Something can follow a symbol that comes before something.
LEMMA DotNonempty ==
  ASSUME NEW x \in Symbols, NEW R \in Forms, R # {}
  PROVE  Dot(x, R) # {}
<1>1. PICK r : r \in R
  OBVIOUS
<1>2. r \in Seq(Symbols)
  BY <1>1 DEF Forms
<1>3. <<x>> \o r \in Seq(Symbols) /\ <<x>> \o r # <<>> /\ Head(<<x>> \o r) = x /\ Tail(<<x>> \o r) = r
  BY <1>2
<1> QED
  BY <1>1, <1>3 DEF Dot

\* Step by step.
LEMMA PrefixedNothing ==
  ASSUME NEW R \in Forms
  PROVE  <<>> \in Seq(Symbols) /\ Prefixed(<<>>, R) = R
<1>1. ASSUME NEW r \in Seq(Symbols) PROVE <<>> \o r = r
  OBVIOUS
<1>2. <<>> \in Seq(Symbols)
  OBVIOUS
<1> QED
  BY <1>1, <1>2 DEF Prefixed, Forms

\* Several symbols before a form, one symbol at a time.
LEMMA PrefixedFirst ==
  ASSUME NEW x \in Symbols, NEW p \in Seq(Symbols), NEW R
  PROVE  Prefixed(<<x>> \o p, R) = Dot(x, Prefixed(p, R))
<1>1. ASSUME NEW s \in Prefixed(<<x>> \o p, R) PROVE s \in Dot(x, Prefixed(p, R))
  <2>1. PICK r \in R \cap Seq(Symbols) : s = (<<x>> \o p) \o r
    BY DEF Prefixed
  <2>2. p \o r \in Seq(Symbols)
    OBVIOUS
  <2>3. s = <<x>> \o (p \o r)
    BY <2>1
  <2>4. s \in Seq(Symbols) /\ s # <<>> /\ Head(s) = x /\ Tail(s) = p \o r
    BY <2>2, <2>3
  <2> QED
    BY <2>2, <2>4 DEF Dot, Prefixed
<1>2. ASSUME NEW s \in Dot(x, Prefixed(p, R)) PROVE s \in Prefixed(<<x>> \o p, R)
  <2>1. s \in Seq(Symbols) /\ s # <<>> /\ Head(s) = x /\ Tail(s) \in Prefixed(p, R)
    BY DEF Dot
  <2>2. PICK r \in R \cap Seq(Symbols) : Tail(s) = p \o r
    BY <2>1 DEF Prefixed
  <2>3. s = <<Head(s)>> \o Tail(s)
    BY <2>1
  <2>4. s = (<<x>> \o p) \o r
    <3>1. <<x>> \o (p \o r) = (<<x>> \o p) \o r
      OBVIOUS
    <3> QED
      BY <3>1, <2>1, <2>2, <2>3
  <2> QED
    BY <2>1, <2>4 DEF Prefixed
<1> QED
  BY <1>1, <1>2

-----------------------------------------------------------------------------

\* Replacing the first name treats each form by itself.
LEMMA LeftmostUnion ==
  ASSUME NEW A, NEW B PROVE Leftmost(A \cup B) = Leftmost(A) \cup Leftmost(B)
BY DEF Leftmost

\* So does reading a token.
LEMMA RowUnion ==
  ASSUME NEW A, NEW B, NEW t PROVE Row(A \cup B, t) = Row(A, t) \cup Row(B, t)
BY DEF Row

\* A form that begins with a token stays.
LEMMA LeftmostToken ==
  ASSUME NEW x \in Tokens, NEW R PROVE Leftmost(Dot(x, R)) = Dot(x, R)
<1>1. \A f \in Dot(x, R) : ~(f # <<>> /\ Head(f) \in Nonterminals)
  BY SymbolKinds DEF Dot
<1> QED
  BY <1>1 DEF Leftmost

\* So does the empty form.
LEMMA LeftmostEmpty == Leftmost({<<>>}) = {<<>>} /\ Leftmost({}) = {}
BY DEF Leftmost

\* A name that comes first gives way to each of its productions.
LEMMA LeftmostNonterminal ==
  ASSUME NEW N \in Nonterminals, Productions(N) \subseteq Seq(Symbols), NEW R
  PROVE  Leftmost(Dot(N, R)) = UNION {Prefixed(p, R) : p \in Productions(N)}
<1>1. ASSUME NEW s \in Leftmost(Dot(N, R)) PROVE \E p \in Productions(N) : s \in Prefixed(p, R)
  <2>1. PICK f \in Dot(N, R) : s \in (IF f # <<>> /\ Head(f) \in Nonterminals
                                      THEN {p \o Tail(f) : p \in Productions(Head(f))} ELSE {f})
    BY DEF Leftmost
  <2>2. f \in Seq(Symbols) /\ f # <<>> /\ Head(f) = N /\ Tail(f) \in R
    BY DEF Dot
  <2>3. PICK p \in Productions(N) : s = p \o Tail(f)
    BY <2>1, <2>2
  <2>4. Tail(f) \in Seq(Symbols) /\ p \in Seq(Symbols)
    BY <2>2
  <2>5. s \in Seq(Symbols)
    BY <2>3, <2>4
  <2> QED
    BY <2>2, <2>3, <2>4, <2>5 DEF Prefixed
<1>2. ASSUME NEW p \in Productions(N), NEW s \in Prefixed(p, R) PROVE s \in Leftmost(Dot(N, R))
  <2>1. PICK r \in R \cap Seq(Symbols) : s = p \o r
    BY DEF Prefixed
  <2>2. N \in Symbols
    BY SymbolKinds
  <2> DEFINE f == <<N>> \o r
  <2>3. f \in Seq(Symbols) /\ f # <<>> /\ Head(f) = N /\ Tail(f) = r
    BY <2>1, <2>2
  <2> HIDE DEF f
  <2>4. f \in Dot(N, R)
    BY <2>1, <2>3 DEF Dot
  <2>5. s \in {q \o Tail(f) : q \in Productions(Head(f))}
    BY <2>1, <2>3
  <2> QED
    BY <2>3, <2>4, <2>5 DEF Leftmost
<1> QED
  BY <1>1, <1>2

\* The first name is replaced MaxSteps times.
LEMMA ExpandedIs ==
  ASSUME NEW F
  PROVE  Expanded(F) = Leftmost(Leftmost(Leftmost(Leftmost(Leftmost(Leftmost(Leftmost(F)))))))
<1> DEFINE f1 == Leftmost(F)  f2 == Leftmost(f1)  f3 == Leftmost(f2)  f4 == Leftmost(f3)
           f5 == Leftmost(f4)  f6 == Leftmost(f5)  f7 == Leftmost(f6)
           Rec(g) == g = [n \in 0..MaxSteps |-> IF n = 0 THEN F ELSE Leftmost(g[n - 1])]
           g0 == [n \in 0..MaxSteps |-> IF n = 0 THEN F ELSE IF n = 1 THEN f1 ELSE IF n = 2 THEN f2
                    ELSE IF n = 3 THEN f3 ELSE IF n = 4 THEN f4 ELSE IF n = 5 THEN f5 ELSE IF n = 6 THEN f6 ELSE f7]
<1>1. \A n \in 1..MaxSteps : g0[n] = Leftmost(g0[n - 1])
  <2> HIDE DEF f1, f2, f3, f4, f5, f6, f7
  <2>1. f1 = Leftmost(F) /\ f2 = Leftmost(f1) /\ f3 = Leftmost(f2) /\ f4 = Leftmost(f3)
        /\ f5 = Leftmost(f4) /\ f6 = Leftmost(f5) /\ f7 = Leftmost(f6)
    BY DEF f1, f2, f3, f4, f5, f6, f7
  <2>2. /\ g0[0] = F /\ g0[1] = f1 /\ g0[2] = f2 /\ g0[3] = f3 /\ g0[4] = f4 /\ g0[5] = f5
        /\ g0[6] = f6 /\ g0[7] = f7
    BY DEF MaxSteps
  <2> HIDE DEF g0
  <2>3. \A n \in 1..7 : n = 1 \/ n = 2 \/ n = 3 \/ n = 4 \/ n = 5 \/ n = 6 \/ n = 7
    OBVIOUS
  <2> SUFFICES ASSUME NEW n \in 1..7 PROVE g0[n] = Leftmost(g0[n - 1])
    BY DEF MaxSteps
  <2>4. 1 - 1 = 0 /\ 2 - 1 = 1 /\ 3 - 1 = 2 /\ 4 - 1 = 3 /\ 5 - 1 = 4 /\ 6 - 1 = 5 /\ 7 - 1 = 6
    OBVIOUS
  <2> QED
    BY <2>1, <2>2, <2>3, <2>4, Zenon
<1>2. Rec(g0)
  <2>1. \A n \in 0..MaxSteps : g0[n] = IF n = 0 THEN F ELSE Leftmost(g0[n - 1])
    BY <1>1 DEF MaxSteps
  <2> QED
    BY <2>1
<1>3. PICK g : g = CHOOSE h : Rec(h)
  OBVIOUS
<1>4. Rec(g)
  BY <1>2, <1>3, Zenon
<1>5. Expanded(F) = g[MaxSteps]
  BY <1>3 DEF Expanded
<1>6. /\ g[0] = F /\ g[1] = Leftmost(g[0]) /\ g[2] = Leftmost(g[1]) /\ g[3] = Leftmost(g[2])
      /\ g[4] = Leftmost(g[3]) /\ g[5] = Leftmost(g[4]) /\ g[6] = Leftmost(g[5]) /\ g[7] = Leftmost(g[6])
  <2>1. \A n \in 0..7 : g[n] = IF n = 0 THEN F ELSE Leftmost(g[n - 1])
    BY <1>4 DEF MaxSteps
  <2> HIDE DEF Rec
  <2> QED
    BY <2>1
<1> QED
  BY <1>5, <1>6 DEF MaxSteps

\* Reading.
LEMMA RowToken ==
  ASSUME NEW x \in Tokens, NEW R \in Forms, NEW t
  PROVE  Row(Dot(x, R), t) = IF t = x THEN R ELSE {}
<1>1. x \in Symbols /\ x # Eof
  BY SymbolKinds
<1>2. ASSUME t = Eof PROVE Row(Dot(x, R), t) = {}
  BY <1>2 DEF Row, Dot
<1>3. ASSUME t # Eof, t # x PROVE Row(Dot(x, R), t) = {}
  BY <1>3 DEF Row, Dot
<1>4. ASSUME t = x PROVE Row(Dot(x, R), t) = R
  <2>1. ASSUME NEW r \in R PROVE r \in Row(Dot(x, R), t)
    <3> DEFINE f == <<x>> \o r
    <3>1. r \in Seq(Symbols)
      BY DEF Forms
    <3>2. f \in Seq(Symbols) /\ f # <<>> /\ Head(f) = x /\ Tail(f) = r
      BY <1>1, <3>1
    <3> HIDE DEF f
    <3>3. f \in Dot(x, R)
      BY <3>2 DEF Dot
    <3> QED
      BY <1>1, <1>4, <3>2, <3>3 DEF Row
  <2>2. \A r \in Row(Dot(x, R), t) : r \in R
    BY <1>1, <1>4 DEF Row, Dot
  <2> QED
    BY <2>1, <2>2
<1> QED
  BY <1>1, <1>2, <1>3, <1>4

\* Nothing but the end of the source follows the empty form.
LEMMA RowEmpty ==
  ASSUME NEW t PROVE Row({<<>>}, t) = (IF t = Eof THEN {<<>>} ELSE {}) /\ Row({}, t) = {}
BY DEF Row

\* How soon forms begin with tokens.
Ends0(F) == Leftmost(F) = F
Ends1(F) == Ends0(Leftmost(F))
Ends2(F) == Ends1(Leftmost(F))
Ends3(F) == Ends2(Leftmost(F))
Ends4(F) == Ends3(Leftmost(F))
Ends5(F) == Ends4(Leftmost(F))
Ends6(F) == Ends5(Leftmost(F))
Ends7(F) == Ends6(Leftmost(F))

\* Forms that begin with tokens after n replacements still do after one more.
LEMMA EndsLater ==
  ASSUME NEW F
  PROVE  /\ (Ends0(F) => Ends1(F)) /\ (Ends1(F) => Ends2(F)) /\ (Ends2(F) => Ends3(F))
         /\ (Ends3(F) => Ends4(F)) /\ (Ends4(F) => Ends5(F)) /\ (Ends5(F) => Ends6(F))
         /\ (Ends6(F) => Ends7(F))
BY DEF Ends0, Ends1, Ends2, Ends3, Ends4, Ends5, Ends6, Ends7

\* Two sets that begin with tokens do so together.
LEMMA EndsUnion ==
  ASSUME NEW A, NEW B
  PROVE  /\ (Ends0(A) /\ Ends0(B) => Ends0(A \cup B))
         /\ (Ends1(A) /\ Ends1(B) => Ends1(A \cup B))
         /\ (Ends2(A) /\ Ends2(B) => Ends2(A \cup B))
         /\ (Ends3(A) /\ Ends3(B) => Ends3(A \cup B))
         /\ (Ends4(A) /\ Ends4(B) => Ends4(A \cup B))
         /\ (Ends5(A) /\ Ends5(B) => Ends5(A \cup B))
         /\ (Ends6(A) /\ Ends6(B) => Ends6(A \cup B))
<1>0. \A F, G : Ends0(F) /\ Ends0(G) => Ends0(F \cup G)
  BY LeftmostUnion DEF Ends0
<1>1. \A F, G : Ends1(F) /\ Ends1(G) => Ends1(F \cup G)
  BY <1>0, LeftmostUnion DEF Ends1
<1>2. \A F, G : Ends2(F) /\ Ends2(G) => Ends2(F \cup G)
  BY <1>1, LeftmostUnion DEF Ends2
<1>3. \A F, G : Ends3(F) /\ Ends3(G) => Ends3(F \cup G)
  BY <1>2, LeftmostUnion DEF Ends3
<1>4. \A F, G : Ends4(F) /\ Ends4(G) => Ends4(F \cup G)
  BY <1>3, LeftmostUnion DEF Ends4
<1>5. \A F, G : Ends5(F) /\ Ends5(G) => Ends5(F \cup G)
  BY <1>4, LeftmostUnion DEF Ends5
<1>6. \A F, G : Ends6(F) /\ Ends6(G) => Ends6(F \cup G)
  BY <1>5, LeftmostUnion DEF Ends6
<1> QED
  BY <1>0, <1>1, <1>2, <1>3, <1>4, <1>5, <1>6, Zenon

\* One replacement more changes nothing when the forms begin with tokens by then.
LEMMA AfterOnce ==
  ASSUME NEW F, NEW t, Ends7(F)
  PROVE  After(Leftmost(F), t) = After(F, t)
<1>1. Expanded(Leftmost(F)) = Leftmost(Expanded(F))
  BY ExpandedIs, Zenon
<1>2. Leftmost(Expanded(F)) = Expanded(F)
  BY ExpandedIs, Zenon DEF Ends0, Ends1, Ends2, Ends3, Ends4, Ends5, Ends6, Ends7
<1> QED
  BY <1>1, <1>2 DEF After

\* Forms that begin with tokens need no replacement.
LEMMA AfterReady ==
  ASSUME NEW F, NEW t, Ends0(F)
  PROVE  After(F, t) = Row(F, t)
BY ExpandedIs, Zenon DEF After, Ends0

\* What follows either of two sets of forms.
LEMMA AfterUnion ==
  ASSUME NEW A, NEW B, NEW t
  PROVE  After(A \cup B, t) = After(A, t) \cup After(B, t)
<1>1. Expanded(A \cup B) = Expanded(A) \cup Expanded(B)
  <2>1. \A F, G : Leftmost(F \cup G) = Leftmost(F) \cup Leftmost(G)
    BY LeftmostUnion
  <2> HIDE DEF Leftmost
  <2>2. PICK a2, b2 : a2 = Leftmost(Leftmost(A)) /\ b2 = Leftmost(Leftmost(B))
    OBVIOUS
  <2>3. PICK a4, b4 : a4 = Leftmost(Leftmost(a2)) /\ b4 = Leftmost(Leftmost(b2))
    OBVIOUS
  <2>4. Leftmost(Leftmost(A \cup B)) = a2 \cup b2
    BY <2>1, <2>2
  <2>5. Leftmost(Leftmost(a2 \cup b2)) = a4 \cup b4
    BY <2>1, <2>3
  <2>6. Leftmost(Leftmost(Leftmost(a4 \cup b4))) =
          Leftmost(Leftmost(Leftmost(a4))) \cup Leftmost(Leftmost(Leftmost(b4)))
    BY <2>1
  <2> QED
    BY <2>2, <2>3, <2>4, <2>5, <2>6, ExpandedIs
<1>2. PICK a, b : a = Expanded(A) /\ b = Expanded(B)
  OBVIOUS
<1>3. Row(a \cup b, t) = Row(a, t) \cup Row(b, t)
  BY RowUnion
<1> QED
  BY <1>1, <1>2, <1>3 DEF After

\* What follows a token that is read.
LEMMA AfterToken ==
  ASSUME NEW x \in Tokens, NEW R \in Forms, NEW t
  PROVE  After(Dot(x, R), t) = IF t = x THEN R ELSE {}
BY LeftmostToken, AfterReady, RowToken DEF Ends0

\* What follows the empty form.
LEMMA AfterEmpty ==
  ASSUME NEW t
  PROVE  After({<<>>}, t) = (IF t = Eof THEN {<<>>} ELSE {}) /\ After({}, t) = {}
BY LeftmostEmpty, AfterReady, RowEmpty, Zenon DEF Ends0

\* Productions of one to six symbols.
LEMMA Unrolled1 ==
  ASSUME NEW R \in Forms, NEW a \in Symbols
  PROVE  <<a>> \in Seq(Symbols) /\ Prefixed(<<a>>, R) = Dot(a, R)
<1>1. <<a>> = <<a>> \o <<>> /\ <<>> \in Seq(Symbols) /\ <<a>> \in Seq(Symbols)
  OBVIOUS
<1>2. Prefixed(<<a>> \o <<>>, R) = Dot(a, Prefixed(<<>>, R))
  BY <1>1, PrefixedFirst
<1> QED
  BY <1>1, <1>2, PrefixedNothing

\* Two,
LEMMA Unrolled2 ==
  ASSUME NEW R \in Forms,
         NEW a \in Symbols, NEW b \in Symbols
  PROVE  /\ <<a, b>> \in Seq(Symbols)
         /\ Prefixed(<<a, b>>, R) = Dot(a, Dot(b, R))
<1>1. PICK q, s : q = <<b>> /\ s = <<a>> \o q
  OBVIOUS
<1>2. q \in Seq(Symbols) /\ Len(q) = 1 /\ q[1] = b
  BY <1>1
<1>3. s \in Seq(Symbols) /\ Len(s) = 2 /\ s[1] = a /\ s[2] = b
  BY <1>1, <1>2
<1>4. s = [i \in 1..2 |-> s[i]] /\ [i \in 1..2 |-> s[i]] = <<a, b>>
  BY <1>3
<1>5. Prefixed(<<a>> \o q, R) = Dot(a, Prefixed(q, R))
  BY <1>2, PrefixedFirst
<1>6. Prefixed(<<b>>, R) = Dot(b, R)
  BY Unrolled1
<1>7. <<a, b>> \in Seq(Symbols)
  BY <1>3, <1>4, Zenon
<1> QED
  BY <1>1, <1>4, <1>5, <1>6, <1>7, Zenon

\* three,
LEMMA Unrolled3 ==
  ASSUME NEW R \in Forms,
         NEW a \in Symbols, NEW b \in Symbols, NEW c \in Symbols
  PROVE  /\ <<a, b, c>> \in Seq(Symbols)
         /\ Prefixed(<<a, b, c>>, R) = Dot(a, Dot(b, Dot(c, R)))
<1>1. PICK q, s : q = <<b, c>> /\ s = <<a>> \o q
  OBVIOUS
<1>2. q \in Seq(Symbols) /\ Len(q) = 2 /\ q[1] = b /\ q[2] = c
  BY <1>1
<1>3. s \in Seq(Symbols) /\ Len(s) = 3 /\ s[1] = a /\ s[2] = b /\ s[3] = c
  BY <1>1, <1>2
<1>4. s = [i \in 1..3 |-> s[i]] /\ [i \in 1..3 |-> s[i]] = <<a, b, c>>
  BY <1>3
<1>5. Prefixed(<<a>> \o q, R) = Dot(a, Prefixed(q, R))
  BY <1>2, PrefixedFirst
<1>6. Prefixed(<<b, c>>, R) = Dot(b, Dot(c, R))
  BY Unrolled2
<1>7. <<a, b, c>> \in Seq(Symbols)
  BY <1>3, <1>4, Zenon
<1> QED
  BY <1>1, <1>4, <1>5, <1>6, <1>7, Zenon

\* four,
LEMMA Unrolled4 ==
  ASSUME NEW R \in Forms,
         NEW a \in Symbols, NEW b \in Symbols, NEW c \in Symbols, NEW d \in Symbols
  PROVE  /\ <<a, b, c, d>> \in Seq(Symbols)
         /\ Prefixed(<<a, b, c, d>>, R) = Dot(a, Dot(b, Dot(c, Dot(d, R))))
<1>1. PICK q, s : q = <<b, c, d>> /\ s = <<a>> \o q
  OBVIOUS
<1>2. q \in Seq(Symbols) /\ Len(q) = 3 /\ q[1] = b /\ q[2] = c /\ q[3] = d
  BY <1>1
<1>3. s \in Seq(Symbols) /\ Len(s) = 4 /\ s[1] = a /\ s[2] = b /\ s[3] = c /\ s[4] = d
  BY <1>1, <1>2
<1>4. s = [i \in 1..4 |-> s[i]] /\ [i \in 1..4 |-> s[i]] = <<a, b, c, d>>
  BY <1>3
<1>5. Prefixed(<<a>> \o q, R) = Dot(a, Prefixed(q, R))
  BY <1>2, PrefixedFirst
<1>6. Prefixed(<<b, c, d>>, R) = Dot(b, Dot(c, Dot(d, R)))
  BY Unrolled3
<1>7. <<a, b, c, d>> \in Seq(Symbols)
  BY <1>3, <1>4, Zenon
<1> QED
  BY <1>1, <1>4, <1>5, <1>6, <1>7, Zenon

\* five,
LEMMA Unrolled5 ==
  ASSUME NEW R \in Forms,
         NEW a \in Symbols, NEW b \in Symbols, NEW c \in Symbols, NEW d \in Symbols, NEW e \in Symbols
  PROVE  /\ <<a, b, c, d, e>> \in Seq(Symbols)
         /\ Prefixed(<<a, b, c, d, e>>, R) = Dot(a, Dot(b, Dot(c, Dot(d, Dot(e, R)))))
<1>1. PICK q, s : q = <<b, c, d, e>> /\ s = <<a>> \o q
  OBVIOUS
<1>2. q \in Seq(Symbols) /\ Len(q) = 4 /\ q[1] = b /\ q[2] = c /\ q[3] = d /\ q[4] = e
  BY <1>1
<1>3. s \in Seq(Symbols) /\ Len(s) = 5 /\ s[1] = a /\ s[2] = b /\ s[3] = c /\ s[4] = d /\ s[5] = e
  BY <1>1, <1>2
<1>4. s = [i \in 1..5 |-> s[i]] /\ [i \in 1..5 |-> s[i]] = <<a, b, c, d, e>>
  BY <1>3
<1>5. Prefixed(<<a>> \o q, R) = Dot(a, Prefixed(q, R))
  BY <1>2, PrefixedFirst
<1>6. Prefixed(<<b, c, d, e>>, R) = Dot(b, Dot(c, Dot(d, Dot(e, R))))
  BY Unrolled4
<1>7. <<a, b, c, d, e>> \in Seq(Symbols)
  BY <1>3, <1>4, Zenon
<1> QED
  BY <1>1, <1>4, <1>5, <1>6, <1>7, Zenon

\* and six.
LEMMA Unrolled6 ==
  ASSUME NEW R \in Forms,
         NEW a \in Symbols, NEW b \in Symbols, NEW c \in Symbols, NEW d \in Symbols, NEW e \in Symbols, NEW f \in Symbols
  PROVE  /\ <<a, b, c, d, e, f>> \in Seq(Symbols)
         /\ Prefixed(<<a, b, c, d, e, f>>, R) = Dot(a, Dot(b, Dot(c, Dot(d, Dot(e, Dot(f, R))))))
<1>1. PICK q, s : q = <<b, c, d, e, f>> /\ s = <<a>> \o q
  OBVIOUS
<1>2. q \in Seq(Symbols) /\ Len(q) = 5 /\ q[1] = b /\ q[2] = c /\ q[3] = d /\ q[4] = e /\ q[5] = f
  BY <1>1
<1>3. s \in Seq(Symbols) /\ Len(s) = 6 /\ s[1] = a /\ s[2] = b /\ s[3] = c /\ s[4] = d /\ s[5] = e /\ s[6] = f
  BY <1>1, <1>2
<1>4. s = [i \in 1..6 |-> s[i]] /\ [i \in 1..6 |-> s[i]] = <<a, b, c, d, e, f>>
  BY <1>3
<1>5. Prefixed(<<a>> \o q, R) = Dot(a, Prefixed(q, R))
  BY <1>2, PrefixedFirst
<1>6. Prefixed(<<b, c, d, e, f>>, R) = Dot(b, Dot(c, Dot(d, Dot(e, Dot(f, R)))))
  BY Unrolled5
<1>7. <<a, b, c, d, e, f>> \in Seq(Symbols)
  BY <1>3, <1>4, Zenon
<1> QED
  BY <1>1, <1>4, <1>5, <1>6, <1>7, Zenon

\* Every token and every name of a rule is a symbol.
LEMMA SymbolNames ==
  /\ "int" \in Symbols /\ "bigint" \in Symbols /\ "bool" \in Symbols /\ "id" \in Symbols
  /\ "var" \in Symbols /\ "struct" \in Symbols /\ "cast" \in Symbols /\ "if" \in Symbols
  /\ "else" \in Symbols /\ "&" \in Symbols /\ "=" \in Symbols /\ "," \in Symbols
  /\ ";" \in Symbols /\ ":" \in Symbols /\ "{" \in Symbols /\ "}" \in Symbols
  /\ "[" \in Symbols /\ "]" \in Symbols /\ "(" \in Symbols /\ ")" \in Symbols
  /\ "#" \in Symbols /\ "unknown" \in Symbols /\ "program" \in Symbols /\ "properties" \in Symbols
  /\ "arguments" \in Symbols /\ "alternative" \in Symbols /\ "literal" \in Symbols /\ "type" \in Symbols
  /\ "field_type" \in Symbols /\ "empty" \in Symbols /\ "declarations" \in Symbols /\ "declaration" \in Symbols
  /\ "attributes" \in Symbols /\ "property" \in Symbols /\ "struct_declaration" \in Symbols /\ "fields" \in Symbols
  /\ "field" \in Symbols /\ "variable" \in Symbols /\ "hint" \in Symbols /\ "statement" \in Symbols
  /\ "if_statement" \in Symbols /\ "block" \in Symbols /\ "named" \in Symbols /\ "expression" \in Symbols
  /\ "array" \in Symbols /\ "elements" \in Symbols /\ "struct_literal" \in Symbols /\ "members" \in Symbols
  /\ "member" \in Symbols
BY DEF Symbols, Tokens, NonterminalNames

\* The names of rules are the nonterminals.
LEMMA RuleNames ==
  /\ "program" \in Nonterminals /\ "properties" \in Nonterminals /\ "arguments" \in Nonterminals /\ "alternative" \in Nonterminals
  /\ "literal" \in Nonterminals /\ "type" \in Nonterminals /\ "field_type" \in Nonterminals /\ "empty" \in Nonterminals
  /\ "declarations" \in Nonterminals /\ "declaration" \in Nonterminals /\ "attributes" \in Nonterminals /\ "property" \in Nonterminals
  /\ "struct_declaration" \in Nonterminals /\ "fields" \in Nonterminals /\ "field" \in Nonterminals /\ "variable" \in Nonterminals
  /\ "hint" \in Nonterminals /\ "statement" \in Nonterminals /\ "if_statement" \in Nonterminals /\ "block" \in Nonterminals
  /\ "named" \in Nonterminals /\ "expression" \in Nonterminals /\ "array" \in Nonterminals /\ "elements" \in Nonterminals
  /\ "struct_literal" \in Nonterminals /\ "members" \in Nonterminals /\ "member" \in Nonterminals
BY NonterminalsAre DEF NonterminalNames

\* The productions, symbol by symbol.
LEMMA ProductionsAre ==
  ASSUME ~Documented
  PROVE  /\ Productions("program") = {<<>>, <<"declaration", "empty", "program">>}
         /\ Productions("properties") = {<<>>, <<"property">>, <<"property", ",", "properties">>}
         /\ Productions("arguments") = {<<>>, <<"(", "properties", ")">>}
         /\ Productions("alternative") = {<<>>, <<"else", "if_statement">>, <<"else", "block">>}
         /\ Productions("literal") = {<<"struct_literal">>}
         /\ Productions("type") = {<<"id">>, <<"&", "type">>, <<"[", "int", "]", "type">>
              , <<"[", "]", "type">>}
         /\ Productions("field_type") = {<<"id">>, <<"&", "field_type">>
              , <<"[", "int", "]", "field_type">>}
         /\ Productions("empty") = {<<>>, <<";">>}
         /\ Productions("declarations") = {<<>>, <<"declaration", "declarations">>}
         /\ Productions("declaration") = {<<"attributes", "variable">>
              , <<"attributes", "struct_declaration">>, <<"statement">>}
         /\ Productions("attributes") = {<<>>, <<"#", "[", "id", "arguments", "]", "attributes">>}
         /\ Productions("property") = {<<"id", ":", "expression">>}
         /\ Productions("struct_declaration") = {<<"struct", "id", "{", "fields", "}">>}
         /\ Productions("fields") = {<<"field">>, <<"field", "fields">>}
         /\ Productions("field") = {<<"id", ":", "field_type", ";">>}
         /\ Productions("variable") = {<<"var", "id", "hint", "=", "expression", ";">>}
         /\ Productions("hint") = {<<>>, <<":", "type">>}
         /\ Productions("statement") = {<<"named", ";">>, <<"if_statement">>, <<"block">>}
         /\ Productions("if_statement") = {
              <<"if", "(", "expression", ")", "block", "alternative">>}
         /\ Productions("block") = {<<"{", "declarations", "}">>}
         /\ Productions("named") = {<<"cast", "(", "expression", "hint", ")">>, <<"array">>
              , <<"&", "expression">>, <<"id">>, <<"id", "struct_literal">>, <<"int">>, <<"bool">>}
         /\ Productions("expression") = {<<"named">>, <<"literal">>}
         /\ Productions("array") = {<<"[", "]">>, <<"[", "elements", "]">>}
         /\ Productions("elements") = {<<"expression">>, <<"expression", ",">>
              , <<"expression", ",", "elements">>}
         /\ Productions("struct_literal") = {<<"{", "members", "}">>}
         /\ Productions("members") = {<<"member">>, <<"member", ",", "members">>}
         /\ Productions("member") = {<<"id", ":", "expression">>}
BY ZenonT(60) DEF Productions, Rules, Departures, Common, Star, Optional

\* What a symbol gives way to.
LEMMA RulesAre ==
  ASSUME ~Documented, NEW R \in Forms
  PROVE  /\ Leftmost(Dot("program", R)) = R \cup Dot("declaration", Dot("empty", Dot("program", R)))
         /\ Leftmost(Dot("properties", R)) = R \cup Dot("property", R)
              \cup Dot("property", Dot(",", Dot("properties", R)))
         /\ Leftmost(Dot("arguments", R)) = R \cup Dot("(", Dot("properties", Dot(")", R)))
         /\ Leftmost(Dot("alternative", R)) = R \cup Dot("else", Dot("if_statement", R))
              \cup Dot("else", Dot("block", R))
         /\ Leftmost(Dot("literal", R)) = Dot("struct_literal", R)
         /\ Leftmost(Dot("type", R)) = Dot("id", R) \cup Dot("&", Dot("type", R))
              \cup Dot("[", Dot("int", Dot("]", Dot("type", R))))
              \cup Dot("[", Dot("]", Dot("type", R)))
         /\ Leftmost(Dot("field_type", R)) = Dot("id", R) \cup Dot("&", Dot("field_type", R))
              \cup Dot("[", Dot("int", Dot("]", Dot("field_type", R))))
         /\ Leftmost(Dot("empty", R)) = R \cup Dot(";", R)
         /\ Leftmost(Dot("declarations", R)) = R \cup Dot("declaration", Dot("declarations", R))
         /\ Leftmost(Dot("declaration", R)) = Dot("attributes", Dot("variable", R))
              \cup Dot("attributes", Dot("struct_declaration", R)) \cup Dot("statement", R)
         /\ Leftmost(Dot("attributes", R)) = R
              \cup Dot("#", Dot("[", Dot("id", Dot("arguments", Dot("]", Dot("attributes", R))))))
         /\ Leftmost(Dot("property", R)) = Dot("id", Dot(":", Dot("expression", R)))
         /\ Leftmost(Dot("struct_declaration", R)) =
              Dot("struct", Dot("id", Dot("{", Dot("fields", Dot("}", R)))))
         /\ Leftmost(Dot("fields", R)) = Dot("field", R) \cup Dot("field", Dot("fields", R))
         /\ Leftmost(Dot("field", R)) = Dot("id", Dot(":", Dot("field_type", Dot(";", R))))
         /\ Leftmost(Dot("variable", R)) =
              Dot("var", Dot("id", Dot("hint", Dot("=", Dot("expression", Dot(";", R))))))
         /\ Leftmost(Dot("hint", R)) = R \cup Dot(":", Dot("type", R))
         /\ Leftmost(Dot("statement", R)) = Dot("named", Dot(";", R)) \cup Dot("if_statement", R)
              \cup Dot("block", R)
         /\ Leftmost(Dot("if_statement", R)) =
              Dot("if", Dot("(", Dot("expression", Dot(")", Dot("block", Dot("alternative", R))))))
         /\ Leftmost(Dot("block", R)) = Dot("{", Dot("declarations", Dot("}", R)))
         /\ Leftmost(Dot("named", R)) =
              Dot("cast", Dot("(", Dot("expression", Dot("hint", Dot(")", R)))))
              \cup Dot("array", R) \cup Dot("&", Dot("expression", R)) \cup Dot("id", R)
              \cup Dot("id", Dot("struct_literal", R)) \cup Dot("int", R) \cup Dot("bool", R)
         /\ Leftmost(Dot("expression", R)) = Dot("named", R) \cup Dot("literal", R)
         /\ Leftmost(Dot("array", R)) = Dot("[", Dot("]", R))
              \cup Dot("[", Dot("elements", Dot("]", R)))
         /\ Leftmost(Dot("elements", R)) = Dot("expression", R)
              \cup Dot("expression", Dot(",", R))
              \cup Dot("expression", Dot(",", Dot("elements", R)))
         /\ Leftmost(Dot("struct_literal", R)) = Dot("{", Dot("members", Dot("}", R)))
         /\ Leftmost(Dot("members", R)) = Dot("member", R)
              \cup Dot("member", Dot(",", Dot("members", R)))
         /\ Leftmost(Dot("member", R)) = Dot("id", Dot(":", Dot("expression", R)))
         /\ \A n \in Nonterminals : Productions(n) \subseteq Seq(Symbols)
<1>1. /\ Leftmost(Dot("program", R)) = R \cup Dot("declaration", Dot("empty", Dot("program", R)))
      /\ Productions("program") \subseteq Seq(Symbols)
  <2>1. "program" \in Nonterminals /\ "declaration" \in Symbols /\ "empty" \in Symbols
        /\ "program" \in Symbols
    BY SymbolNames, RuleNames
  <2>2. PICK p, q : p = <<>> /\ q = <<"declaration", "empty", "program">>
    OBVIOUS
  <2>3. p \in Seq(Symbols) /\ Prefixed(p, R) = R
    BY <2>1, <2>2, PrefixedNothing
  <2>4. q \in Seq(Symbols) /\ Prefixed(q, R) = Dot("declaration", Dot("empty", Dot("program", R)))
    BY <2>1, <2>2, Unrolled3, ZenonT(60)
  <2>5. Productions("program") = {p, q}
    BY <2>2, ProductionsAre, Zenon
  <2>6. Productions("program") \subseteq Seq(Symbols)
    BY <2>3, <2>4, <2>5
  <2>7. Leftmost(Dot("program", R)) = UNION {Prefixed(x, R) : x \in Productions("program")}
    BY <2>1, <2>6, LeftmostNonterminal
  <2>8. Leftmost(Dot("program", R)) = Prefixed(p, R) \cup Prefixed(q, R)
    BY <2>5, <2>7
  <2> QED
    BY <2>3, <2>4, <2>6, <2>8, Zenon
<1>2. /\ Leftmost(Dot("properties", R)) = R \cup Dot("property", R)
              \cup Dot("property", Dot(",", Dot("properties", R)))
      /\ Productions("properties") \subseteq Seq(Symbols)
  <2>1. "properties" \in Nonterminals /\ "property" \in Symbols /\ "," \in Symbols
        /\ "properties" \in Symbols
    BY SymbolNames, RuleNames
  <2>2. PICK p, q, r : p = <<>> /\ q = <<"property">> /\ r = <<"property", ",", "properties">>
    OBVIOUS
  <2>3. p \in Seq(Symbols) /\ Prefixed(p, R) = R
    BY <2>1, <2>2, PrefixedNothing
  <2>4. q \in Seq(Symbols) /\ Prefixed(q, R) = Dot("property", R)
    BY <2>1, <2>2, Unrolled1, Zenon
  <2>5. r \in Seq(Symbols) /\ Prefixed(r, R) = Dot("property", Dot(",", Dot("properties", R)))
    BY <2>1, <2>2, Unrolled3, ZenonT(60)
  <2>6. Productions("properties") = {p, q, r}
    BY <2>2, ProductionsAre, Zenon
  <2>7. Productions("properties") \subseteq Seq(Symbols)
    BY <2>3, <2>4, <2>5, <2>6
  <2>8. Leftmost(Dot("properties", R)) = UNION {Prefixed(x, R) : x \in Productions("properties")}
    BY <2>1, <2>7, LeftmostNonterminal
  <2>9. Leftmost(Dot("properties", R)) = Prefixed(p, R) \cup Prefixed(q, R) \cup Prefixed(r, R)
    BY <2>6, <2>8
  <2> QED
    BY <2>3, <2>4, <2>5, <2>7, <2>9, Zenon
<1>3. /\ Leftmost(Dot("arguments", R)) = R \cup Dot("(", Dot("properties", Dot(")", R)))
      /\ Productions("arguments") \subseteq Seq(Symbols)
  <2>1. "arguments" \in Nonterminals /\ "(" \in Symbols /\ "properties" \in Symbols /\ ")" \in Symbols
    BY SymbolNames, RuleNames
  <2>2. PICK p, q : p = <<>> /\ q = <<"(", "properties", ")">>
    OBVIOUS
  <2>3. p \in Seq(Symbols) /\ Prefixed(p, R) = R
    BY <2>1, <2>2, PrefixedNothing
  <2>4. q \in Seq(Symbols) /\ Prefixed(q, R) = Dot("(", Dot("properties", Dot(")", R)))
    BY <2>1, <2>2, Unrolled3, ZenonT(60)
  <2>5. Productions("arguments") = {p, q}
    BY <2>2, ProductionsAre, Zenon
  <2>6. Productions("arguments") \subseteq Seq(Symbols)
    BY <2>3, <2>4, <2>5
  <2>7. Leftmost(Dot("arguments", R)) = UNION {Prefixed(x, R) : x \in Productions("arguments")}
    BY <2>1, <2>6, LeftmostNonterminal
  <2>8. Leftmost(Dot("arguments", R)) = Prefixed(p, R) \cup Prefixed(q, R)
    BY <2>5, <2>7
  <2> QED
    BY <2>3, <2>4, <2>6, <2>8, Zenon
<1>4. /\ Leftmost(Dot("alternative", R)) = R \cup Dot("else", Dot("if_statement", R))
              \cup Dot("else", Dot("block", R))
      /\ Productions("alternative") \subseteq Seq(Symbols)
  <2>1. "alternative" \in Nonterminals /\ "else" \in Symbols /\ "if_statement" \in Symbols
        /\ "block" \in Symbols
    BY SymbolNames, RuleNames
  <2>2. PICK p, q, r : p = <<>> /\ q = <<"else", "if_statement">> /\ r = <<"else", "block">>
    OBVIOUS
  <2>3. p \in Seq(Symbols) /\ Prefixed(p, R) = R
    BY <2>1, <2>2, PrefixedNothing
  <2>4. q \in Seq(Symbols) /\ Prefixed(q, R) = Dot("else", Dot("if_statement", R))
    BY <2>1, <2>2, Unrolled2, Zenon
  <2>5. r \in Seq(Symbols) /\ Prefixed(r, R) = Dot("else", Dot("block", R))
    BY <2>1, <2>2, Unrolled2, Zenon
  <2>6. Productions("alternative") = {p, q, r}
    BY <2>2, ProductionsAre, Zenon
  <2>7. Productions("alternative") \subseteq Seq(Symbols)
    BY <2>3, <2>4, <2>5, <2>6
  <2>8. Leftmost(Dot("alternative", R)) = UNION {Prefixed(x, R) : x \in Productions("alternative")}
    BY <2>1, <2>7, LeftmostNonterminal
  <2>9. Leftmost(Dot("alternative", R)) = Prefixed(p, R) \cup Prefixed(q, R) \cup Prefixed(r, R)
    BY <2>6, <2>8
  <2> QED
    BY <2>3, <2>4, <2>5, <2>7, <2>9, Zenon
<1>5. /\ Leftmost(Dot("literal", R)) = Dot("struct_literal", R)
      /\ Productions("literal") \subseteq Seq(Symbols)
  <2>1. "literal" \in Nonterminals /\ "struct_literal" \in Symbols
    BY SymbolNames, RuleNames
  <2>2. PICK p : p = <<"struct_literal">>
    OBVIOUS
  <2>3. p \in Seq(Symbols) /\ Prefixed(p, R) = Dot("struct_literal", R)
    BY <2>1, <2>2, Unrolled1, Zenon
  <2>4. Productions("literal") = {p}
    BY <2>2, ProductionsAre, Zenon
  <2>5. Productions("literal") \subseteq Seq(Symbols)
    BY <2>3, <2>4
  <2>6. Leftmost(Dot("literal", R)) = UNION {Prefixed(x, R) : x \in Productions("literal")}
    BY <2>1, <2>5, LeftmostNonterminal
  <2>7. Leftmost(Dot("literal", R)) = Prefixed(p, R)
    BY <2>4, <2>6
  <2> QED
    BY <2>3, <2>5, <2>7, Zenon
<1>6. /\ Leftmost(Dot("type", R)) = Dot("id", R) \cup Dot("&", Dot("type", R))
              \cup Dot("[", Dot("int", Dot("]", Dot("type", R))))
              \cup Dot("[", Dot("]", Dot("type", R)))
      /\ Productions("type") \subseteq Seq(Symbols)
  <2>1. "type" \in Nonterminals /\ "id" \in Symbols /\ "&" \in Symbols /\ "type" \in Symbols
        /\ "[" \in Symbols /\ "int" \in Symbols /\ "]" \in Symbols
    BY SymbolNames, RuleNames
  <2>2. PICK p, q, r, s : p = <<"id">> /\ q = <<"&", "type">> /\ r = <<"[", "int", "]", "type">> /\ s = <<"[", "]", "type">>
    OBVIOUS
  <2>3. p \in Seq(Symbols) /\ Prefixed(p, R) = Dot("id", R)
    BY <2>1, <2>2, Unrolled1, Zenon
  <2>4. q \in Seq(Symbols) /\ Prefixed(q, R) = Dot("&", Dot("type", R))
    BY <2>1, <2>2, Unrolled2, Zenon
  <2>5. r \in Seq(Symbols) /\ Prefixed(r, R) = Dot("[", Dot("int", Dot("]", Dot("type", R))))
    BY <2>1, <2>2, Unrolled4, SMT
  <2>6. s \in Seq(Symbols) /\ Prefixed(s, R) = Dot("[", Dot("]", Dot("type", R)))
    BY <2>1, <2>2, Unrolled3, SMT
  <2>7. Productions("type") = {p, q, r, s}
    BY <2>2, ProductionsAre, Zenon
  <2>8. Productions("type") \subseteq Seq(Symbols)
    BY <2>3, <2>4, <2>5, <2>6, <2>7
  <2>9. Leftmost(Dot("type", R)) = UNION {Prefixed(x, R) : x \in Productions("type")}
    BY <2>1, <2>8, LeftmostNonterminal
  <2>10. Leftmost(Dot("type", R)) = Prefixed(p, R) \cup Prefixed(q, R) \cup Prefixed(r, R) \cup Prefixed(s, R)
    BY <2>7, <2>9
  <2> QED
    BY <2>3, <2>4, <2>5, <2>6, <2>8, <2>10, Zenon
<1>7. /\ Leftmost(Dot("field_type", R)) = Dot("id", R) \cup Dot("&", Dot("field_type", R))
              \cup Dot("[", Dot("int", Dot("]", Dot("field_type", R))))
      /\ Productions("field_type") \subseteq Seq(Symbols)
  <2>1. "field_type" \in Nonterminals /\ "id" \in Symbols /\ "&" \in Symbols /\ "field_type" \in Symbols
        /\ "[" \in Symbols /\ "int" \in Symbols /\ "]" \in Symbols
    BY SymbolNames, RuleNames
  <2>2. PICK p, q, r : p = <<"id">> /\ q = <<"&", "field_type">> /\ r = <<"[", "int", "]", "field_type">>
    OBVIOUS
  <2>3. p \in Seq(Symbols) /\ Prefixed(p, R) = Dot("id", R)
    BY <2>1, <2>2, Unrolled1, Zenon
  <2>4. q \in Seq(Symbols) /\ Prefixed(q, R) = Dot("&", Dot("field_type", R))
    BY <2>1, <2>2, Unrolled2, Zenon
  <2>5. r \in Seq(Symbols) /\ Prefixed(r, R) = Dot("[", Dot("int", Dot("]", Dot("field_type", R))))
    BY <2>1, <2>2, Unrolled4, SMT
  <2>6. Productions("field_type") = {p, q, r}
    BY <2>2, ProductionsAre, Zenon
  <2>7. Productions("field_type") \subseteq Seq(Symbols)
    BY <2>3, <2>4, <2>5, <2>6
  <2>8. Leftmost(Dot("field_type", R)) = UNION {Prefixed(x, R) : x \in Productions("field_type")}
    BY <2>1, <2>7, LeftmostNonterminal
  <2>9. Leftmost(Dot("field_type", R)) = Prefixed(p, R) \cup Prefixed(q, R) \cup Prefixed(r, R)
    BY <2>6, <2>8
  <2> QED
    BY <2>3, <2>4, <2>5, <2>7, <2>9, Zenon
<1>8. /\ Leftmost(Dot("empty", R)) = R \cup Dot(";", R)
      /\ Productions("empty") \subseteq Seq(Symbols)
  <2>1. "empty" \in Nonterminals /\ ";" \in Symbols
    BY SymbolNames, RuleNames
  <2>2. PICK p, q : p = <<>> /\ q = <<";">>
    OBVIOUS
  <2>3. p \in Seq(Symbols) /\ Prefixed(p, R) = R
    BY <2>1, <2>2, PrefixedNothing
  <2>4. q \in Seq(Symbols) /\ Prefixed(q, R) = Dot(";", R)
    BY <2>1, <2>2, Unrolled1, Zenon
  <2>5. Productions("empty") = {p, q}
    BY <2>2, ProductionsAre, Zenon
  <2>6. Productions("empty") \subseteq Seq(Symbols)
    BY <2>3, <2>4, <2>5
  <2>7. Leftmost(Dot("empty", R)) = UNION {Prefixed(x, R) : x \in Productions("empty")}
    BY <2>1, <2>6, LeftmostNonterminal
  <2>8. Leftmost(Dot("empty", R)) = Prefixed(p, R) \cup Prefixed(q, R)
    BY <2>5, <2>7
  <2> QED
    BY <2>3, <2>4, <2>6, <2>8, Zenon
<1>9. /\ Leftmost(Dot("declarations", R)) = R \cup Dot("declaration", Dot("declarations", R))
      /\ Productions("declarations") \subseteq Seq(Symbols)
  <2>1. "declarations" \in Nonterminals /\ "declaration" \in Symbols /\ "declarations" \in Symbols
    BY SymbolNames, RuleNames
  <2>2. PICK p, q : p = <<>> /\ q = <<"declaration", "declarations">>
    OBVIOUS
  <2>3. p \in Seq(Symbols) /\ Prefixed(p, R) = R
    BY <2>1, <2>2, PrefixedNothing
  <2>4. q \in Seq(Symbols) /\ Prefixed(q, R) = Dot("declaration", Dot("declarations", R))
    BY <2>1, <2>2, Unrolled2, Zenon
  <2>5. Productions("declarations") = {p, q}
    BY <2>2, ProductionsAre, Zenon
  <2>6. Productions("declarations") \subseteq Seq(Symbols)
    BY <2>3, <2>4, <2>5
  <2>7. Leftmost(Dot("declarations", R)) = UNION {Prefixed(x, R) : x \in Productions("declarations")}
    BY <2>1, <2>6, LeftmostNonterminal
  <2>8. Leftmost(Dot("declarations", R)) = Prefixed(p, R) \cup Prefixed(q, R)
    BY <2>5, <2>7
  <2> QED
    BY <2>3, <2>4, <2>6, <2>8, Zenon
<1>10. /\ Leftmost(Dot("declaration", R)) = Dot("attributes", Dot("variable", R))
              \cup Dot("attributes", Dot("struct_declaration", R)) \cup Dot("statement", R)
      /\ Productions("declaration") \subseteq Seq(Symbols)
  <2>1. "declaration" \in Nonterminals /\ "attributes" \in Symbols /\ "variable" \in Symbols
        /\ "struct_declaration" \in Symbols /\ "statement" \in Symbols
    BY SymbolNames, RuleNames
  <2>2. PICK p, q, r : p = <<"attributes", "variable">> /\ q = <<"attributes", "struct_declaration">>
        /\ r = <<"statement">>
    OBVIOUS
  <2>3. p \in Seq(Symbols) /\ Prefixed(p, R) = Dot("attributes", Dot("variable", R))
    BY <2>1, <2>2, Unrolled2, Zenon
  <2>4. q \in Seq(Symbols) /\ Prefixed(q, R) = Dot("attributes", Dot("struct_declaration", R))
    BY <2>1, <2>2, Unrolled2, Zenon
  <2>5. r \in Seq(Symbols) /\ Prefixed(r, R) = Dot("statement", R)
    BY <2>1, <2>2, Unrolled1, Zenon
  <2>6. Productions("declaration") = {p, q, r}
    BY <2>2, ProductionsAre, Zenon
  <2>7. Productions("declaration") \subseteq Seq(Symbols)
    BY <2>3, <2>4, <2>5, <2>6
  <2>8. Leftmost(Dot("declaration", R)) = UNION {Prefixed(x, R) : x \in Productions("declaration")}
    BY <2>1, <2>7, LeftmostNonterminal
  <2>9. Leftmost(Dot("declaration", R)) = Prefixed(p, R) \cup Prefixed(q, R) \cup Prefixed(r, R)
    BY <2>6, <2>8
  <2> QED
    BY <2>3, <2>4, <2>5, <2>7, <2>9, Zenon
<1>11. /\ Leftmost(Dot("attributes", R)) = R
              \cup Dot("#", Dot("[", Dot("id", Dot("arguments", Dot("]", Dot("attributes", R))))))
      /\ Productions("attributes") \subseteq Seq(Symbols)
  <2>1. "attributes" \in Nonterminals /\ "#" \in Symbols /\ "[" \in Symbols /\ "id" \in Symbols
        /\ "arguments" \in Symbols /\ "]" \in Symbols /\ "attributes" \in Symbols
    BY SymbolNames, RuleNames
  <2>2. PICK p, q : p = <<>> /\ q = <<"#", "[", "id", "arguments", "]", "attributes">>
    OBVIOUS
  <2>3. p \in Seq(Symbols) /\ Prefixed(p, R) = R
    BY <2>1, <2>2, PrefixedNothing
  <2>4. q \in Seq(Symbols) /\ Prefixed(q, R) = Dot("#", Dot("[", Dot("id", Dot("arguments", Dot("]", Dot("attributes", R))))))
    BY <2>1, <2>2, Unrolled6, SMT
  <2>5. Productions("attributes") = {p, q}
    BY <2>2, ProductionsAre, Zenon
  <2>6. Productions("attributes") \subseteq Seq(Symbols)
    BY <2>3, <2>4, <2>5
  <2>7. Leftmost(Dot("attributes", R)) = UNION {Prefixed(x, R) : x \in Productions("attributes")}
    BY <2>1, <2>6, LeftmostNonterminal
  <2>8. Leftmost(Dot("attributes", R)) = Prefixed(p, R) \cup Prefixed(q, R)
    BY <2>5, <2>7
  <2> QED
    BY <2>3, <2>4, <2>6, <2>8, Zenon
<1>12. /\ Leftmost(Dot("property", R)) = Dot("id", Dot(":", Dot("expression", R)))
      /\ Productions("property") \subseteq Seq(Symbols)
  <2>1. "property" \in Nonterminals /\ "id" \in Symbols /\ ":" \in Symbols /\ "expression" \in Symbols
    BY SymbolNames, RuleNames
  <2>2. PICK p : p = <<"id", ":", "expression">>
    OBVIOUS
  <2>3. p \in Seq(Symbols) /\ Prefixed(p, R) = Dot("id", Dot(":", Dot("expression", R)))
    BY <2>1, <2>2, Unrolled3, ZenonT(60)
  <2>4. Productions("property") = {p}
    BY <2>2, ProductionsAre, Zenon
  <2>5. Productions("property") \subseteq Seq(Symbols)
    BY <2>3, <2>4
  <2>6. Leftmost(Dot("property", R)) = UNION {Prefixed(x, R) : x \in Productions("property")}
    BY <2>1, <2>5, LeftmostNonterminal
  <2>7. Leftmost(Dot("property", R)) = Prefixed(p, R)
    BY <2>4, <2>6
  <2> QED
    BY <2>3, <2>5, <2>7, Zenon
<1>13. /\ Leftmost(Dot("struct_declaration", R)) =
              Dot("struct", Dot("id", Dot("{", Dot("fields", Dot("}", R)))))
      /\ Productions("struct_declaration") \subseteq Seq(Symbols)
  <2>1. "struct_declaration" \in Nonterminals /\ "struct" \in Symbols /\ "id" \in Symbols
        /\ "{" \in Symbols /\ "fields" \in Symbols /\ "}" \in Symbols
    BY SymbolNames, RuleNames
  <2>2. PICK p : p = <<"struct", "id", "{", "fields", "}">>
    OBVIOUS
  <2>3. p \in Seq(Symbols) /\ Prefixed(p, R) = Dot("struct", Dot("id", Dot("{", Dot("fields", Dot("}", R)))))
    <3>1. PICK a, b, c, d, e : a = "struct" /\ b = "id" /\ c = "{" /\ d = "fields" /\ e = "}"
      OBVIOUS
    <3>2. a \in Symbols /\ b \in Symbols /\ c \in Symbols /\ d \in Symbols /\ e \in Symbols
      BY <2>1, <3>1
    <3>3. <<a, b, c, d, e>> \in Seq(Symbols) /\ Prefixed(<<a, b, c, d, e>>, R) = Dot(a, Dot(b, Dot(c, Dot(d, Dot(e, R)))))
      BY <3>2, Unrolled5
    <3>4. p = <<a, b, c, d, e>>
      BY <2>2, <3>1, Zenon
    <3> QED
      BY <3>1, <3>3, <3>4, Zenon
  <2>4. Productions("struct_declaration") = {p}
    BY <2>2, ProductionsAre, Zenon
  <2>5. Productions("struct_declaration") \subseteq Seq(Symbols)
    BY <2>3, <2>4
  <2>6. Leftmost(Dot("struct_declaration", R)) = UNION {Prefixed(x, R) : x \in Productions("struct_declaration")}
    BY <2>1, <2>5, LeftmostNonterminal
  <2>7. Leftmost(Dot("struct_declaration", R)) = Prefixed(p, R)
    BY <2>4, <2>6
  <2> QED
    BY <2>3, <2>5, <2>7, Zenon
<1>14. /\ Leftmost(Dot("fields", R)) = Dot("field", R) \cup Dot("field", Dot("fields", R))
      /\ Productions("fields") \subseteq Seq(Symbols)
  <2>1. "fields" \in Nonterminals /\ "field" \in Symbols /\ "fields" \in Symbols
    BY SymbolNames, RuleNames
  <2>2. PICK p, q : p = <<"field">> /\ q = <<"field", "fields">>
    OBVIOUS
  <2>3. p \in Seq(Symbols) /\ Prefixed(p, R) = Dot("field", R)
    BY <2>1, <2>2, Unrolled1, Zenon
  <2>4. q \in Seq(Symbols) /\ Prefixed(q, R) = Dot("field", Dot("fields", R))
    BY <2>1, <2>2, Unrolled2, Zenon
  <2>5. Productions("fields") = {p, q}
    BY <2>2, ProductionsAre, Zenon
  <2>6. Productions("fields") \subseteq Seq(Symbols)
    BY <2>3, <2>4, <2>5
  <2>7. Leftmost(Dot("fields", R)) = UNION {Prefixed(x, R) : x \in Productions("fields")}
    BY <2>1, <2>6, LeftmostNonterminal
  <2>8. Leftmost(Dot("fields", R)) = Prefixed(p, R) \cup Prefixed(q, R)
    BY <2>5, <2>7
  <2> QED
    BY <2>3, <2>4, <2>6, <2>8, Zenon
<1>15. /\ Leftmost(Dot("field", R)) = Dot("id", Dot(":", Dot("field_type", Dot(";", R))))
      /\ Productions("field") \subseteq Seq(Symbols)
  <2>1. "field" \in Nonterminals /\ "id" \in Symbols /\ ":" \in Symbols /\ "field_type" \in Symbols
        /\ ";" \in Symbols
    BY SymbolNames, RuleNames
  <2>2. PICK p : p = <<"id", ":", "field_type", ";">>
    OBVIOUS
  <2>3. p \in Seq(Symbols) /\ Prefixed(p, R) = Dot("id", Dot(":", Dot("field_type", Dot(";", R))))
    <3>1. PICK a, b, c, d : a = "id" /\ b = ":" /\ c = "field_type" /\ d = ";"
      OBVIOUS
    <3>2. a \in Symbols /\ b \in Symbols /\ c \in Symbols /\ d \in Symbols
      BY <2>1, <3>1
    <3>3. <<a, b, c, d>> \in Seq(Symbols) /\ Prefixed(<<a, b, c, d>>, R) = Dot(a, Dot(b, Dot(c, Dot(d, R))))
      BY <3>2, Unrolled4
    <3>4. p = <<a, b, c, d>>
      BY <2>2, <3>1, Zenon
    <3> QED
      BY <3>1, <3>3, <3>4, Zenon
  <2>4. Productions("field") = {p}
    BY <2>2, ProductionsAre, Zenon
  <2>5. Productions("field") \subseteq Seq(Symbols)
    BY <2>3, <2>4
  <2>6. Leftmost(Dot("field", R)) = UNION {Prefixed(x, R) : x \in Productions("field")}
    BY <2>1, <2>5, LeftmostNonterminal
  <2>7. Leftmost(Dot("field", R)) = Prefixed(p, R)
    BY <2>4, <2>6
  <2> QED
    BY <2>3, <2>5, <2>7, Zenon
<1>16. /\ Leftmost(Dot("variable", R)) =
              Dot("var", Dot("id", Dot("hint", Dot("=", Dot("expression", Dot(";", R))))))
      /\ Productions("variable") \subseteq Seq(Symbols)
  <2>1. "variable" \in Nonterminals /\ "var" \in Symbols /\ "id" \in Symbols /\ "hint" \in Symbols
        /\ "=" \in Symbols /\ "expression" \in Symbols /\ ";" \in Symbols
    BY SymbolNames, RuleNames
  <2>2. PICK p : p = <<"var", "id", "hint", "=", "expression", ";">>
    OBVIOUS
  <2>3. p \in Seq(Symbols) /\ Prefixed(p, R) = Dot("var", Dot("id", Dot("hint", Dot("=", Dot("expression", Dot(";", R))))))
    <3>1. PICK a, b, c, d, e, f : a = "var" /\ b = "id" /\ c = "hint" /\ d = "=" /\ e = "expression" /\ f = ";"
      OBVIOUS
    <3>2. a \in Symbols /\ b \in Symbols /\ c \in Symbols /\ d \in Symbols /\ e \in Symbols /\ f \in Symbols
      BY <2>1, <3>1
    <3>3. <<a, b, c, d, e, f>> \in Seq(Symbols) /\ Prefixed(<<a, b, c, d, e, f>>, R) = Dot(a, Dot(b, Dot(c, Dot(d, Dot(e, Dot(f, R))))))
      BY <3>2, Unrolled6
    <3>4. p = <<a, b, c, d, e, f>>
      BY <2>2, <3>1, Zenon
    <3> QED
      BY <3>1, <3>3, <3>4, Zenon
  <2>4. Productions("variable") = {p}
    BY <2>2, ProductionsAre, Zenon
  <2>5. Productions("variable") \subseteq Seq(Symbols)
    BY <2>3, <2>4
  <2>6. Leftmost(Dot("variable", R)) = UNION {Prefixed(x, R) : x \in Productions("variable")}
    BY <2>1, <2>5, LeftmostNonterminal
  <2>7. Leftmost(Dot("variable", R)) = Prefixed(p, R)
    BY <2>4, <2>6
  <2> QED
    BY <2>3, <2>5, <2>7, Zenon
<1>17. /\ Leftmost(Dot("hint", R)) = R \cup Dot(":", Dot("type", R))
      /\ Productions("hint") \subseteq Seq(Symbols)
  <2>1. "hint" \in Nonterminals /\ ":" \in Symbols /\ "type" \in Symbols
    BY SymbolNames, RuleNames
  <2>2. PICK p, q : p = <<>> /\ q = <<":", "type">>
    OBVIOUS
  <2>3. p \in Seq(Symbols) /\ Prefixed(p, R) = R
    BY <2>1, <2>2, PrefixedNothing
  <2>4. q \in Seq(Symbols) /\ Prefixed(q, R) = Dot(":", Dot("type", R))
    BY <2>1, <2>2, Unrolled2, Zenon
  <2>5. Productions("hint") = {p, q}
    BY <2>2, ProductionsAre, Zenon
  <2>6. Productions("hint") \subseteq Seq(Symbols)
    BY <2>3, <2>4, <2>5
  <2>7. Leftmost(Dot("hint", R)) = UNION {Prefixed(x, R) : x \in Productions("hint")}
    BY <2>1, <2>6, LeftmostNonterminal
  <2>8. Leftmost(Dot("hint", R)) = Prefixed(p, R) \cup Prefixed(q, R)
    BY <2>5, <2>7
  <2> QED
    BY <2>3, <2>4, <2>6, <2>8, Zenon
<1>18. /\ Leftmost(Dot("statement", R)) = Dot("named", Dot(";", R)) \cup Dot("if_statement", R)
              \cup Dot("block", R)
      /\ Productions("statement") \subseteq Seq(Symbols)
  <2>1. "statement" \in Nonterminals /\ "named" \in Symbols /\ ";" \in Symbols
        /\ "if_statement" \in Symbols /\ "block" \in Symbols
    BY SymbolNames, RuleNames
  <2>2. PICK p, q, r : p = <<"named", ";">> /\ q = <<"if_statement">> /\ r = <<"block">>
    OBVIOUS
  <2>3. p \in Seq(Symbols) /\ Prefixed(p, R) = Dot("named", Dot(";", R))
    BY <2>1, <2>2, Unrolled2, Zenon
  <2>4. q \in Seq(Symbols) /\ Prefixed(q, R) = Dot("if_statement", R)
    BY <2>1, <2>2, Unrolled1, Zenon
  <2>5. r \in Seq(Symbols) /\ Prefixed(r, R) = Dot("block", R)
    BY <2>1, <2>2, Unrolled1, Zenon
  <2>6. Productions("statement") = {p, q, r}
    BY <2>2, ProductionsAre, Zenon
  <2>7. Productions("statement") \subseteq Seq(Symbols)
    BY <2>3, <2>4, <2>5, <2>6
  <2>8. Leftmost(Dot("statement", R)) = UNION {Prefixed(x, R) : x \in Productions("statement")}
    BY <2>1, <2>7, LeftmostNonterminal
  <2>9. Leftmost(Dot("statement", R)) = Prefixed(p, R) \cup Prefixed(q, R) \cup Prefixed(r, R)
    BY <2>6, <2>8
  <2> QED
    BY <2>3, <2>4, <2>5, <2>7, <2>9, Zenon
<1>19. /\ Leftmost(Dot("if_statement", R)) =
              Dot("if", Dot("(", Dot("expression", Dot(")", Dot("block", Dot("alternative", R))))))
      /\ Productions("if_statement") \subseteq Seq(Symbols)
  <2>1. "if_statement" \in Nonterminals /\ "if" \in Symbols /\ "(" \in Symbols /\ "expression" \in Symbols
        /\ ")" \in Symbols /\ "block" \in Symbols /\ "alternative" \in Symbols
    BY SymbolNames, RuleNames
  <2>2. PICK p : p = <<"if", "(", "expression", ")", "block", "alternative">>
    OBVIOUS
  <2>3. p \in Seq(Symbols) /\ Prefixed(p, R) = Dot("if", Dot("(", Dot("expression", Dot(")", Dot("block", Dot("alternative", R))))))
    BY <2>1, <2>2, Unrolled6, SMT
  <2>4. Productions("if_statement") = {p}
    BY <2>2, ProductionsAre, Zenon
  <2>5. Productions("if_statement") \subseteq Seq(Symbols)
    BY <2>3, <2>4
  <2>6. Leftmost(Dot("if_statement", R)) = UNION {Prefixed(x, R) : x \in Productions("if_statement")}
    BY <2>1, <2>5, LeftmostNonterminal
  <2>7. Leftmost(Dot("if_statement", R)) = Prefixed(p, R)
    BY <2>4, <2>6
  <2> QED
    BY <2>3, <2>5, <2>7, Zenon
<1>20. /\ Leftmost(Dot("block", R)) = Dot("{", Dot("declarations", Dot("}", R)))
      /\ Productions("block") \subseteq Seq(Symbols)
  <2>1. "block" \in Nonterminals /\ "{" \in Symbols /\ "declarations" \in Symbols /\ "}" \in Symbols
    BY SymbolNames, RuleNames
  <2>2. PICK p : p = <<"{", "declarations", "}">>
    OBVIOUS
  <2>3. p \in Seq(Symbols) /\ Prefixed(p, R) = Dot("{", Dot("declarations", Dot("}", R)))
    BY <2>1, <2>2, Unrolled3, ZenonT(60)
  <2>4. Productions("block") = {p}
    BY <2>2, ProductionsAre, Zenon
  <2>5. Productions("block") \subseteq Seq(Symbols)
    BY <2>3, <2>4
  <2>6. Leftmost(Dot("block", R)) = UNION {Prefixed(x, R) : x \in Productions("block")}
    BY <2>1, <2>5, LeftmostNonterminal
  <2>7. Leftmost(Dot("block", R)) = Prefixed(p, R)
    BY <2>4, <2>6
  <2> QED
    BY <2>3, <2>5, <2>7, Zenon
<1>21. /\ Leftmost(Dot("named", R)) = Dot("cast", Dot("(", Dot("expression", Dot("hint", Dot(")", R)))))
              \cup Dot("array", R) \cup Dot("&", Dot("expression", R)) \cup Dot("id", R)
              \cup Dot("id", Dot("struct_literal", R)) \cup Dot("int", R) \cup Dot("bool", R)
      /\ Productions("named") \subseteq Seq(Symbols)
  <2>1. "named" \in Nonterminals /\ "cast" \in Symbols /\ "(" \in Symbols /\ "expression" \in Symbols
        /\ "hint" \in Symbols /\ ")" \in Symbols /\ "array" \in Symbols /\ "&" \in Symbols
        /\ "id" \in Symbols /\ "struct_literal" \in Symbols /\ "int" \in Symbols
        /\ "bool" \in Symbols
    BY SymbolNames, RuleNames
  <2>2. PICK p, q, r, s, t, u, v : p = <<"cast", "(", "expression", "hint", ")">> /\ q = <<"array">> /\ r = <<"&", "expression">>
        /\ s = <<"id">> /\ t = <<"id", "struct_literal">> /\ u = <<"int">> /\ v = <<"bool">>
    OBVIOUS
  <2>3. p \in Seq(Symbols) /\ Prefixed(p, R) = Dot("cast", Dot("(", Dot("expression", Dot("hint", Dot(")", R)))))
    BY <2>1, <2>2, Unrolled5, SMTT(60)
  <2>4. q \in Seq(Symbols) /\ Prefixed(q, R) = Dot("array", R)
    BY <2>1, <2>2, Unrolled1, Zenon
  <2>5. r \in Seq(Symbols) /\ Prefixed(r, R) = Dot("&", Dot("expression", R))
    BY <2>1, <2>2, Unrolled2, Zenon
  <2>6. s \in Seq(Symbols) /\ Prefixed(s, R) = Dot("id", R)
    BY <2>1, <2>2, Unrolled1, Zenon
  <2>7. t \in Seq(Symbols) /\ Prefixed(t, R) = Dot("id", Dot("struct_literal", R))
    BY <2>1, <2>2, Unrolled2, Zenon
  <2>8. u \in Seq(Symbols) /\ Prefixed(u, R) = Dot("int", R)
    BY <2>1, <2>2, Unrolled1, Zenon
  <2>9. v \in Seq(Symbols) /\ Prefixed(v, R) = Dot("bool", R)
    BY <2>1, <2>2, Unrolled1, Zenon
  <2>10. Productions("named") = {p, q, r, s, t, u, v}
    BY <2>2, ProductionsAre, Zenon
  <2>11. Productions("named") \subseteq Seq(Symbols)
    BY <2>3, <2>4, <2>5, <2>6, <2>7, <2>8, <2>9, <2>10
  <2>12. Leftmost(Dot("named", R)) = UNION {Prefixed(x, R) : x \in Productions("named")}
    BY <2>1, <2>11, LeftmostNonterminal
  <2>13. Leftmost(Dot("named", R)) = Prefixed(p, R) \cup Prefixed(q, R) \cup Prefixed(r, R) \cup Prefixed(s, R) \cup Prefixed(t, R) \cup Prefixed(u, R) \cup Prefixed(v, R)
    BY <2>10, <2>12
  <2> QED
    BY <2>3, <2>4, <2>5, <2>6, <2>7, <2>8, <2>9, <2>11, <2>13, Zenon
<1>22. /\ Leftmost(Dot("expression", R)) = Dot("named", R) \cup Dot("literal", R)
      /\ Productions("expression") \subseteq Seq(Symbols)
  <2>1. "expression" \in Nonterminals /\ "named" \in Symbols /\ "literal" \in Symbols
    BY SymbolNames, RuleNames
  <2>2. PICK p, q : p = <<"named">> /\ q = <<"literal">>
    OBVIOUS
  <2>3. p \in Seq(Symbols) /\ Prefixed(p, R) = Dot("named", R)
    BY <2>1, <2>2, Unrolled1, Zenon
  <2>4. q \in Seq(Symbols) /\ Prefixed(q, R) = Dot("literal", R)
    BY <2>1, <2>2, Unrolled1, Zenon
  <2>5. Productions("expression") = {p, q}
    BY <2>2, ProductionsAre, Zenon
  <2>6. Productions("expression") \subseteq Seq(Symbols)
    BY <2>3, <2>4, <2>5
  <2>7. Leftmost(Dot("expression", R)) = UNION {Prefixed(x, R) : x \in Productions("expression")}
    BY <2>1, <2>6, LeftmostNonterminal
  <2>8. Leftmost(Dot("expression", R)) = Prefixed(p, R) \cup Prefixed(q, R)
    BY <2>5, <2>7
  <2> QED
    BY <2>3, <2>4, <2>6, <2>8, Zenon
<1>23. /\ Leftmost(Dot("array", R)) = Dot("[", Dot("]", R)) \cup Dot("[", Dot("elements", Dot("]", R)))
      /\ Productions("array") \subseteq Seq(Symbols)
  <2>1. "array" \in Nonterminals /\ "[" \in Symbols /\ "]" \in Symbols /\ "elements" \in Symbols
    BY SymbolNames, RuleNames
  <2>2. PICK p, q : p = <<"[", "]">> /\ q = <<"[", "elements", "]">>
    OBVIOUS
  <2>3. p \in Seq(Symbols) /\ Prefixed(p, R) = Dot("[", Dot("]", R))
    BY <2>1, <2>2, Unrolled2, Zenon
  <2>4. q \in Seq(Symbols) /\ Prefixed(q, R) = Dot("[", Dot("elements", Dot("]", R)))
    BY <2>1, <2>2, Unrolled3, ZenonT(60)
  <2>5. Productions("array") = {p, q}
    BY <2>2, ProductionsAre, Zenon
  <2>6. Productions("array") \subseteq Seq(Symbols)
    BY <2>3, <2>4, <2>5
  <2>7. Leftmost(Dot("array", R)) = UNION {Prefixed(x, R) : x \in Productions("array")}
    BY <2>1, <2>6, LeftmostNonterminal
  <2>8. Leftmost(Dot("array", R)) = Prefixed(p, R) \cup Prefixed(q, R)
    BY <2>5, <2>7
  <2> QED
    BY <2>3, <2>4, <2>6, <2>8, Zenon
<1>24. /\ Leftmost(Dot("elements", R)) = Dot("expression", R) \cup Dot("expression", Dot(",", R))
              \cup Dot("expression", Dot(",", Dot("elements", R)))
      /\ Productions("elements") \subseteq Seq(Symbols)
  <2>1. "elements" \in Nonterminals /\ "expression" \in Symbols /\ "," \in Symbols
        /\ "elements" \in Symbols
    BY SymbolNames, RuleNames
  <2>2. PICK p, q, r : p = <<"expression">> /\ q = <<"expression", ",">> /\ r = <<"expression", ",", "elements">>
    OBVIOUS
  <2>3. p \in Seq(Symbols) /\ Prefixed(p, R) = Dot("expression", R)
    BY <2>1, <2>2, Unrolled1, Zenon
  <2>4. q \in Seq(Symbols) /\ Prefixed(q, R) = Dot("expression", Dot(",", R))
    BY <2>1, <2>2, Unrolled2, Zenon
  <2>5. r \in Seq(Symbols) /\ Prefixed(r, R) = Dot("expression", Dot(",", Dot("elements", R)))
    BY <2>1, <2>2, Unrolled3, ZenonT(60)
  <2>6. Productions("elements") = {p, q, r}
    BY <2>2, ProductionsAre, Zenon
  <2>7. Productions("elements") \subseteq Seq(Symbols)
    BY <2>3, <2>4, <2>5, <2>6
  <2>8. Leftmost(Dot("elements", R)) = UNION {Prefixed(x, R) : x \in Productions("elements")}
    BY <2>1, <2>7, LeftmostNonterminal
  <2>9. Leftmost(Dot("elements", R)) = Prefixed(p, R) \cup Prefixed(q, R) \cup Prefixed(r, R)
    BY <2>6, <2>8
  <2> QED
    BY <2>3, <2>4, <2>5, <2>7, <2>9, Zenon
<1>25. /\ Leftmost(Dot("struct_literal", R)) = Dot("{", Dot("members", Dot("}", R)))
      /\ Productions("struct_literal") \subseteq Seq(Symbols)
  <2>1. "struct_literal" \in Nonterminals /\ "{" \in Symbols /\ "members" \in Symbols /\ "}" \in Symbols
    BY SymbolNames, RuleNames
  <2>2. PICK p : p = <<"{", "members", "}">>
    OBVIOUS
  <2>3. p \in Seq(Symbols) /\ Prefixed(p, R) = Dot("{", Dot("members", Dot("}", R)))
    BY <2>1, <2>2, Unrolled3, ZenonT(60)
  <2>4. Productions("struct_literal") = {p}
    BY <2>2, ProductionsAre, Zenon
  <2>5. Productions("struct_literal") \subseteq Seq(Symbols)
    BY <2>3, <2>4
  <2>6. Leftmost(Dot("struct_literal", R)) = UNION {Prefixed(x, R) : x \in Productions("struct_literal")}
    BY <2>1, <2>5, LeftmostNonterminal
  <2>7. Leftmost(Dot("struct_literal", R)) = Prefixed(p, R)
    BY <2>4, <2>6
  <2> QED
    BY <2>3, <2>5, <2>7, Zenon
<1>26. /\ Leftmost(Dot("members", R)) = Dot("member", R) \cup Dot("member", Dot(",", Dot("members", R)))
      /\ Productions("members") \subseteq Seq(Symbols)
  <2>1. "members" \in Nonterminals /\ "member" \in Symbols /\ "," \in Symbols /\ "members" \in Symbols
    BY SymbolNames, RuleNames
  <2>2. PICK p, q : p = <<"member">> /\ q = <<"member", ",", "members">>
    OBVIOUS
  <2>3. p \in Seq(Symbols) /\ Prefixed(p, R) = Dot("member", R)
    BY <2>1, <2>2, Unrolled1, Zenon
  <2>4. q \in Seq(Symbols) /\ Prefixed(q, R) = Dot("member", Dot(",", Dot("members", R)))
    BY <2>1, <2>2, Unrolled3, ZenonT(60)
  <2>5. Productions("members") = {p, q}
    BY <2>2, ProductionsAre, Zenon
  <2>6. Productions("members") \subseteq Seq(Symbols)
    BY <2>3, <2>4, <2>5
  <2>7. Leftmost(Dot("members", R)) = UNION {Prefixed(x, R) : x \in Productions("members")}
    BY <2>1, <2>6, LeftmostNonterminal
  <2>8. Leftmost(Dot("members", R)) = Prefixed(p, R) \cup Prefixed(q, R)
    BY <2>5, <2>7
  <2> QED
    BY <2>3, <2>4, <2>6, <2>8, Zenon
<1>27. /\ Leftmost(Dot("member", R)) = Dot("id", Dot(":", Dot("expression", R)))
      /\ Productions("member") \subseteq Seq(Symbols)
  <2>1. "member" \in Nonterminals /\ "id" \in Symbols /\ ":" \in Symbols /\ "expression" \in Symbols
    BY SymbolNames, RuleNames
  <2>2. PICK p : p = <<"id", ":", "expression">>
    OBVIOUS
  <2>3. p \in Seq(Symbols) /\ Prefixed(p, R) = Dot("id", Dot(":", Dot("expression", R)))
    BY <2>1, <2>2, Unrolled3, ZenonT(60)
  <2>4. Productions("member") = {p}
    BY <2>2, ProductionsAre, Zenon
  <2>5. Productions("member") \subseteq Seq(Symbols)
    BY <2>3, <2>4
  <2>6. Leftmost(Dot("member", R)) = UNION {Prefixed(x, R) : x \in Productions("member")}
    BY <2>1, <2>5, LeftmostNonterminal
  <2>7. Leftmost(Dot("member", R)) = Prefixed(p, R)
    BY <2>4, <2>6
  <2> QED
    BY <2>3, <2>5, <2>7, Zenon
<1>28. \A n \in Nonterminals : Productions(n) \subseteq Seq(Symbols)
  BY NonterminalsAre, <1>1, <1>2, <1>3, <1>4, <1>5, <1>6, <1>7, <1>8, <1>9, <1>10, <1>11, <1>12,
     <1>13, <1>14, <1>15
     , <1>16, <1>17, <1>18, <1>19, <1>20, <1>21, <1>22, <1>23, <1>24, <1>25, <1>26, <1>27 DEF NonterminalNames
<1> QED
  BY <1>1, <1>2, <1>3, <1>4, <1>5, <1>6, <1>7, <1>8, <1>9, <1>10, <1>11, <1>12, <1>13, <1>14, <1>15
     , <1>16, <1>17, <1>18, <1>19, <1>20, <1>21, <1>22, <1>23, <1>24, <1>25, <1>26, <1>27, <1>28

-----------------------------------------------------------------------------
\* The forms stay sequences of symbols.
LEMMA LeftmostForms ==
  ASSUME ~Documented, NEW F \in Forms
  PROVE  Leftmost(F) \in Forms
<1>1. \A n \in Nonterminals : Productions(n) \subseteq Seq(Symbols)
  BY RulesAre, FormsKept
<1>2. ASSUME NEW s \in Leftmost(F) PROVE s \in Seq(Symbols)
  <2>1. PICK f \in F : s \in (IF f # <<>> /\ Head(f) \in Nonterminals
                              THEN {p \o Tail(f) : p \in Productions(Head(f))} ELSE {f})
    BY DEF Leftmost
  <2>2. f \in Seq(Symbols)
    BY DEF Forms
  <2>3. CASE f # <<>> /\ Head(f) \in Nonterminals
    <3>1. PICK p \in Productions(Head(f)) : s = p \o Tail(f)
      BY <2>1, <2>3
    <3>2. p \in Seq(Symbols) /\ Tail(f) \in Seq(Symbols)
      BY <1>1, <2>2, <2>3
    <3> QED
      BY <3>1, <3>2
  <2>4. CASE ~(f # <<>> /\ Head(f) \in Nonterminals)
    BY <2>1, <2>2, <2>4
  <2> QED
    BY <2>3, <2>4
<1> QED
  BY <1>2 DEF Forms

\* So does what they derive, and no form has the end of the source in it: what may
\* follow is what the grammar says, and the source may end where the empty form is left.
LEMMA AfterIs ==
  ASSUME ~Documented, NEW F \in Forms, NEW t
  PROVE  /\ After(F, t) \in Forms
         /\ t # Eof => Derive(F, t) = After(F, t)
         /\ t = Eof => Derive(F, t) = {}
         /\ t = Eof => (MayEnd(F) <=> After(F, t) # {})
<1>1. Expanded(F) \in Forms
  <2>1. \A G \in Forms : Leftmost(G) \in Forms
    BY LeftmostForms
  <2> QED
    BY <2>1, ExpandedIs, Zenon
<1>2. \A f \in Expanded(F) : f \in Seq(Symbols)
  BY <1>1 DEF Forms
<1>3. ASSUME NEW f \in Expanded(F), f # <<>> PROVE Head(f) \in Symbols /\ Tail(f) \in Seq(Symbols)
  BY <1>2, <1>3
<1>4. Eof \notin Symbols
  BY DEF Eof, Symbols, Tokens, NonterminalNames
<1>5. After(F, t) \in Forms
  <2>1. <<>> \in Seq(Symbols)
    OBVIOUS
  <2> QED
    BY <1>3, <2>1 DEF After, Row, Forms
<1>6. t # Eof => Derive(F, t) = After(F, t)
  BY DEF Derive, After, Row
<1>7. t = Eof => Derive(F, t) = {}
  BY <1>3, <1>4 DEF Derive
<1>8. t = Eof => (MayEnd(F) <=> After(F, t) # {})
  BY DEF MayEnd, After, Row
<1> QED
  BY <1>5, <1>6, <1>7, <1>8

\* Forms that begin with a token are ready.
LEMMA TokenEnds ==
  ASSUME NEW x \in Tokens, NEW R
  PROVE  /\ Ends0(Dot(x, R)) /\ Ends1(Dot(x, R)) /\ Ends2(Dot(x, R)) /\ Ends3(Dot(x, R))
         /\ Ends4(Dot(x, R)) /\ Ends5(Dot(x, R)) /\ Ends6(Dot(x, R)) /\ Ends7(Dot(x, R))
BY LeftmostToken, EndsLater DEF Ends0

\* The tokens of the grammar.
LEMMA TokenNames ==
  /\ "int" \in Tokens /\ "bigint" \in Tokens /\ "bool" \in Tokens /\ "id" \in Tokens
  /\ "var" \in Tokens /\ "struct" \in Tokens /\ "cast" \in Tokens /\ "if" \in Tokens
  /\ "else" \in Tokens /\ "&" \in Tokens /\ "=" \in Tokens /\ "," \in Tokens
  /\ ";" \in Tokens /\ ":" \in Tokens /\ "{" \in Tokens /\ "}" \in Tokens
  /\ "[" \in Tokens /\ "]" \in Tokens /\ "(" \in Tokens /\ ")" \in Tokens
  /\ "#" \in Tokens /\ "unknown" \in Tokens
BY DEF Tokens

\* A rule with one production, that begins with a token.
LEMMA FirstToken ==
  ASSUME NEW x \in Tokens, NEW Q \in Forms, NEW F, Leftmost(F) = Dot(x, Q), NEW t
  PROVE  Ends1(F) /\ After(F, t) = IF t = x THEN Q ELSE {}
<1>1. Ends1(F)
  BY TokenEnds DEF Ends1
<1>2. After(F, t) = After(Dot(x, Q), t)
  BY <1>1, EndsLater, AfterOnce
<1> QED
  BY <1>1, <1>2, AfterToken

\* What comes first where a rule has one production, and what is then to follow.
LEMMA SimpleRows ==
  ASSUME ~Documented, NEW R \in Forms, NEW t
  PROVE  /\ Ends1(Dot("if_statement", R))
         /\ After(Dot("if_statement", R), t) =
              IF t = "if" THEN Dot("(", Dot("expression", Dot(")", Dot("block", Dot("alternative", R))))) ELSE {}
         /\ Ends1(Dot("variable", R))
         /\ After(Dot("variable", R), t) =
              IF t = "var" THEN Dot("id", Dot("hint", Dot("=", Dot("expression", Dot(";", R))))) ELSE {}
         /\ Ends1(Dot("block", R))
         /\ After(Dot("block", R), t) =
              IF t = "{" THEN Dot("declarations", Dot("}", R)) ELSE {}
         /\ Ends1(Dot("struct_declaration", R))
         /\ After(Dot("struct_declaration", R), t) =
              IF t = "struct" THEN Dot("id", Dot("{", Dot("fields", Dot("}", R)))) ELSE {}
         /\ Ends1(Dot("property", R))
         /\ After(Dot("property", R), t) =
              IF t = "id" THEN Dot(":", Dot("expression", R)) ELSE {}
         /\ Ends1(Dot("field", R))
         /\ After(Dot("field", R), t) =
              IF t = "id" THEN Dot(":", Dot("field_type", Dot(";", R))) ELSE {}
         /\ Ends1(Dot("struct_literal", R))
         /\ After(Dot("struct_literal", R), t) =
              IF t = "{" THEN Dot("members", Dot("}", R)) ELSE {}
         /\ Ends1(Dot("member", R))
         /\ After(Dot("member", R), t) =
              IF t = "id" THEN Dot(":", Dot("expression", R)) ELSE {}
<1>1. /\ Ends1(Dot("if_statement", R))
      /\ After(Dot("if_statement", R), t) =
           IF t = "if" THEN Dot("(", Dot("expression", Dot(")", Dot("block", Dot("alternative", R))))) ELSE {}
  <2>1. PICK q : q = Dot("(", Dot("expression", Dot(")", Dot("block", Dot("alternative", R)))))
    OBVIOUS
  <2>2. q \in Forms /\ "if" \in Tokens
    BY <2>1, FormsKept, TokenNames
  <2>3. Leftmost(Dot("if_statement", R)) = Dot("if", q)
    BY <2>1, RulesAre, Zenon
  <2>4. Ends1(Dot("if_statement", R)) /\ After(Dot("if_statement", R), t) = IF t = "if" THEN q ELSE {}
    BY <2>2, <2>3, FirstToken, Zenon
  <2> QED
    BY <2>1, <2>4
<1>2. /\ Ends1(Dot("variable", R))
      /\ After(Dot("variable", R), t) =
           IF t = "var" THEN Dot("id", Dot("hint", Dot("=", Dot("expression", Dot(";", R))))) ELSE {}
  <2>1. PICK q : q = Dot("id", Dot("hint", Dot("=", Dot("expression", Dot(";", R)))))
    OBVIOUS
  <2>2. q \in Forms /\ "var" \in Tokens
    BY <2>1, FormsKept, TokenNames
  <2>3. Leftmost(Dot("variable", R)) = Dot("var", q)
    BY <2>1, RulesAre, Zenon
  <2>4. Ends1(Dot("variable", R)) /\ After(Dot("variable", R), t) = IF t = "var" THEN q ELSE {}
    BY <2>2, <2>3, FirstToken, Zenon
  <2> QED
    BY <2>1, <2>4
<1>3. /\ Ends1(Dot("block", R))
      /\ After(Dot("block", R), t) =
           IF t = "{" THEN Dot("declarations", Dot("}", R)) ELSE {}
  <2>1. PICK q : q = Dot("declarations", Dot("}", R))
    OBVIOUS
  <2>2. q \in Forms /\ "{" \in Tokens
    BY <2>1, FormsKept, TokenNames
  <2>3. Leftmost(Dot("block", R)) = Dot("{", q)
    BY <2>1, RulesAre, Zenon
  <2>4. Ends1(Dot("block", R)) /\ After(Dot("block", R), t) = IF t = "{" THEN q ELSE {}
    BY <2>2, <2>3, FirstToken, Zenon
  <2> QED
    BY <2>1, <2>4
<1>4. /\ Ends1(Dot("struct_declaration", R))
      /\ After(Dot("struct_declaration", R), t) =
           IF t = "struct" THEN Dot("id", Dot("{", Dot("fields", Dot("}", R)))) ELSE {}
  <2>1. PICK q : q = Dot("id", Dot("{", Dot("fields", Dot("}", R))))
    OBVIOUS
  <2>2. q \in Forms /\ "struct" \in Tokens
    BY <2>1, FormsKept, TokenNames
  <2>3. Leftmost(Dot("struct_declaration", R)) = Dot("struct", q)
    BY <2>1, RulesAre, Zenon
  <2>4. Ends1(Dot("struct_declaration", R)) /\ After(Dot("struct_declaration", R), t) = IF t = "struct" THEN q ELSE {}
    BY <2>2, <2>3, FirstToken, Zenon
  <2> QED
    BY <2>1, <2>4
<1>5. /\ Ends1(Dot("property", R))
      /\ After(Dot("property", R), t) =
           IF t = "id" THEN Dot(":", Dot("expression", R)) ELSE {}
  <2>1. PICK q : q = Dot(":", Dot("expression", R))
    OBVIOUS
  <2>2. q \in Forms /\ "id" \in Tokens
    BY <2>1, FormsKept, TokenNames
  <2>3. Leftmost(Dot("property", R)) = Dot("id", q)
    BY <2>1, RulesAre, Zenon
  <2>4. Ends1(Dot("property", R)) /\ After(Dot("property", R), t) = IF t = "id" THEN q ELSE {}
    BY <2>2, <2>3, FirstToken, Zenon
  <2> QED
    BY <2>1, <2>4
<1>6. /\ Ends1(Dot("field", R))
      /\ After(Dot("field", R), t) =
           IF t = "id" THEN Dot(":", Dot("field_type", Dot(";", R))) ELSE {}
  <2>1. PICK q : q = Dot(":", Dot("field_type", Dot(";", R)))
    OBVIOUS
  <2>2. q \in Forms /\ "id" \in Tokens
    BY <2>1, FormsKept, TokenNames
  <2>3. Leftmost(Dot("field", R)) = Dot("id", q)
    BY <2>1, RulesAre, Zenon
  <2>4. Ends1(Dot("field", R)) /\ After(Dot("field", R), t) = IF t = "id" THEN q ELSE {}
    BY <2>2, <2>3, FirstToken, Zenon
  <2> QED
    BY <2>1, <2>4
<1>7. /\ Ends1(Dot("struct_literal", R))
      /\ After(Dot("struct_literal", R), t) =
           IF t = "{" THEN Dot("members", Dot("}", R)) ELSE {}
  <2>1. PICK q : q = Dot("members", Dot("}", R))
    OBVIOUS
  <2>2. q \in Forms /\ "{" \in Tokens
    BY <2>1, FormsKept, TokenNames
  <2>3. Leftmost(Dot("struct_literal", R)) = Dot("{", q)
    BY <2>1, RulesAre, Zenon
  <2>4. Ends1(Dot("struct_literal", R)) /\ After(Dot("struct_literal", R), t) = IF t = "{" THEN q ELSE {}
    BY <2>2, <2>3, FirstToken, Zenon
  <2> QED
    BY <2>1, <2>4
<1>8. /\ Ends1(Dot("member", R))
      /\ After(Dot("member", R), t) =
           IF t = "id" THEN Dot(":", Dot("expression", R)) ELSE {}
  <2>1. PICK q : q = Dot(":", Dot("expression", R))
    OBVIOUS
  <2>2. q \in Forms /\ "id" \in Tokens
    BY <2>1, FormsKept, TokenNames
  <2>3. Leftmost(Dot("member", R)) = Dot("id", q)
    BY <2>1, RulesAre, Zenon
  <2>4. Ends1(Dot("member", R)) /\ After(Dot("member", R), t) = IF t = "id" THEN q ELSE {}
    BY <2>2, <2>3, FirstToken, Zenon
  <2> QED
    BY <2>1, <2>4
<1> QED
  BY <1>1, <1>2, <1>3, <1>4, <1>5, <1>6, <1>7, <1>8

\* What may come first in an array, and what is then to follow.
LEMMA ArrayRow ==
  ASSUME ~Documented, NEW R \in Forms, NEW t
  PROVE  /\ Ends1(Dot("array", R))
         /\ (t = "[" => After(Dot("array", R), t) = Dot("]", R) \cup Dot("elements", Dot("]", R)))
         /\ (t \notin {"["}
              => After(Dot("array", R), t) = {})
<1>1. PICK a, b : a = Dot("[", Dot("]", R)) /\ b = Dot("[", Dot("elements", Dot("]", R)))
  OBVIOUS
<1>2. Leftmost(Dot("array", R)) = a \cup b
  BY <1>1, RulesAre, Zenon
<1>3. /\ Ends0(a)
      /\ (t = "[" => After(a, t) = Dot("]", R))
      /\ (t \notin {"["}
           => After(a, t) = {})
  BY <1>1, TokenNames, TokenEnds, AfterToken, FormsKept
<1>4. /\ Ends0(b)
      /\ (t = "[" => After(b, t) = Dot("elements", Dot("]", R)))
      /\ (t \notin {"["}
           => After(b, t) = {})
  BY <1>1, TokenNames, TokenEnds, AfterToken, FormsKept, ZenonT(60)
<1>5. Ends1(Dot("array", R))
  BY <1>2, <1>3, <1>4, EndsUnion DEF Ends1
<1>6. After(Dot("array", R), t) = After(a \cup b, t)
  BY <1>2, <1>5, EndsLater, AfterOnce
<1>7. After(a \cup b, t) = After(a, t) \cup After(b, t)
  BY AfterUnion
<1> QED
  BY <1>3, <1>4, <1>5, <1>6, <1>7

\* What may come first in a type, and what is then to follow.
LEMMA TypeRow ==
  ASSUME ~Documented, NEW R \in Forms, NEW t
  PROVE  /\ Ends1(Dot("type", R))
         /\ (t = "id" => After(Dot("type", R), t) = R)
         /\ (t = "&" => After(Dot("type", R), t) = Dot("type", R))
         /\ (t = "[" => After(Dot("type", R), t) = Dot("int", Dot("]", Dot("type", R)))
              \cup Dot("]", Dot("type", R)))
         /\ (t \notin {"id", "&", "["}
              => After(Dot("type", R), t) = {})
<1>1. PICK a, b, c, d : a = Dot("id", R) /\ b = Dot("&", Dot("type", R))
      /\ c = Dot("[", Dot("int", Dot("]", Dot("type", R))))
      /\ d = Dot("[", Dot("]", Dot("type", R)))
  OBVIOUS
<1>2. Leftmost(Dot("type", R)) = a \cup b \cup c \cup d
  BY <1>1, RulesAre, Zenon
<1>3. /\ Ends0(a)
      /\ (t = "id" => After(a, t) = R)
      /\ (t \notin {"id"}
           => After(a, t) = {})
  BY <1>1, TokenNames, TokenEnds, AfterToken, FormsKept
<1>4. /\ Ends0(b)
      /\ (t = "&" => After(b, t) = Dot("type", R))
      /\ (t \notin {"&"}
           => After(b, t) = {})
  BY <1>1, TokenNames, TokenEnds, AfterToken, FormsKept
<1>5. /\ Ends0(c)
      /\ (t = "[" => After(c, t) = Dot("int", Dot("]", Dot("type", R))))
      /\ (t \notin {"["}
           => After(c, t) = {})
  BY <1>1, TokenNames, TokenEnds, AfterToken, FormsKept, ZenonT(60)
<1>6. /\ Ends0(d)
      /\ (t = "[" => After(d, t) = Dot("]", Dot("type", R)))
      /\ (t \notin {"["}
           => After(d, t) = {})
  BY <1>1, TokenNames, TokenEnds, AfterToken, FormsKept, ZenonT(60)
<1>7. Ends1(Dot("type", R))
  BY <1>2, <1>3, <1>4, <1>5, <1>6, EndsUnion DEF Ends1
<1>8. After(Dot("type", R), t) = After(a \cup b \cup c \cup d, t)
  BY <1>2, <1>7, EndsLater, AfterOnce
<1>9. After(a \cup b, t) = After(a, t) \cup After(b, t)
  BY AfterUnion
<1>10. After(a \cup b \cup c, t) = After(a \cup b, t) \cup After(c, t)
  BY AfterUnion
<1>11. After(a \cup b \cup c \cup d, t) = After(a \cup b \cup c, t) \cup After(d, t)
  BY AfterUnion
<1> QED
  BY <1>3, <1>4, <1>5, <1>6, <1>7, <1>8, <1>9, <1>10, <1>11

\* What may come first in a field type, and what is then to follow.
LEMMA FieldTypeRow ==
  ASSUME ~Documented, NEW R \in Forms, NEW t
  PROVE  /\ Ends1(Dot("field_type", R))
         /\ (t = "id" => After(Dot("field_type", R), t) = R)
         /\ (t = "&" => After(Dot("field_type", R), t) = Dot("field_type", R))
         /\ (t = "[" => After(Dot("field_type", R), t) =
              Dot("int", Dot("]", Dot("field_type", R))))
         /\ (t \notin {"id", "&", "["}
              => After(Dot("field_type", R), t) = {})
<1>1. PICK a, b, c : a = Dot("id", R) /\ b = Dot("&", Dot("field_type", R))
      /\ c = Dot("[", Dot("int", Dot("]", Dot("field_type", R))))
  OBVIOUS
<1>2. Leftmost(Dot("field_type", R)) = a \cup b \cup c
  BY <1>1, RulesAre, Zenon
<1>3. /\ Ends0(a)
      /\ (t = "id" => After(a, t) = R)
      /\ (t \notin {"id"}
           => After(a, t) = {})
  BY <1>1, TokenNames, TokenEnds, AfterToken, FormsKept
<1>4. /\ Ends0(b)
      /\ (t = "&" => After(b, t) = Dot("field_type", R))
      /\ (t \notin {"&"}
           => After(b, t) = {})
  BY <1>1, TokenNames, TokenEnds, AfterToken, FormsKept
<1>5. /\ Ends0(c)
      /\ (t = "[" => After(c, t) = Dot("int", Dot("]", Dot("field_type", R))))
      /\ (t \notin {"["}
           => After(c, t) = {})
  BY <1>1, TokenNames, TokenEnds, AfterToken, FormsKept, ZenonT(60)
<1>6. Ends1(Dot("field_type", R))
  BY <1>2, <1>3, <1>4, <1>5, EndsUnion DEF Ends1
<1>7. After(Dot("field_type", R), t) = After(a \cup b \cup c, t)
  BY <1>2, <1>6, EndsLater, AfterOnce
<1>8. After(a \cup b, t) = After(a, t) \cup After(b, t)
  BY AfterUnion
<1>9. After(a \cup b \cup c, t) = After(a \cup b, t) \cup After(c, t)
  BY AfterUnion
<1> QED
  BY <1>3, <1>4, <1>5, <1>6, <1>7, <1>8, <1>9

\* What may come first in a named, and what is then to follow.
LEMMA NamedRow ==
  ASSUME ~Documented, NEW R \in Forms, NEW t
  PROVE  /\ Ends2(Dot("named", R))
         /\ (t = "cast" => After(Dot("named", R), t) =
              Dot("(", Dot("expression", Dot("hint", Dot(")", R)))))
         /\ (t = "[" => After(Dot("named", R), t) = Dot("]", R) \cup Dot("elements", Dot("]", R)))
         /\ (t = "&" => After(Dot("named", R), t) = Dot("expression", R))
         /\ (t = "id" => After(Dot("named", R), t) = R \cup Dot("struct_literal", R))
         /\ (t = "int" => After(Dot("named", R), t) = R)
         /\ (t = "bool" => After(Dot("named", R), t) = R)
         /\ (t \notin {"cast", "[", "&", "id", "int", "bool"}
              => After(Dot("named", R), t) = {})
<1>1. PICK a, b, c, d, e, f, g : a = Dot("cast", Dot("(", Dot("expression", Dot("hint", Dot(")", R))))) /\ b = Dot("array", R)
      /\ c = Dot("&", Dot("expression", R)) /\ d = Dot("id", R)
      /\ e = Dot("id", Dot("struct_literal", R)) /\ f = Dot("int", R) /\ g = Dot("bool", R)
  OBVIOUS
<1>2. Leftmost(Dot("named", R)) = a \cup b \cup c \cup d \cup e \cup f \cup g
  BY <1>1, RulesAre, Zenon
<1>3. /\ Ends1(a)
      /\ (t = "cast" => After(a, t) = Dot("(", Dot("expression", Dot("hint", Dot(")", R)))))
      /\ (t \notin {"cast"}
           => After(a, t) = {})
  BY <1>1, TokenNames, TokenEnds, AfterToken, FormsKept, ZenonT(60)
<1>4. /\ Ends1(b)
      /\ (t = "[" => After(b, t) = Dot("]", R) \cup Dot("elements", Dot("]", R)))
      /\ (t \notin {"["}
           => After(b, t) = {})
  BY <1>1, FormsKept, ArrayRow, EndsLater
<1>5. /\ Ends1(c)
      /\ (t = "&" => After(c, t) = Dot("expression", R))
      /\ (t \notin {"&"}
           => After(c, t) = {})
  BY <1>1, TokenNames, TokenEnds, AfterToken, FormsKept
<1>6. /\ Ends1(d)
      /\ (t = "id" => After(d, t) = R)
      /\ (t \notin {"id"}
           => After(d, t) = {})
  BY <1>1, TokenNames, TokenEnds, AfterToken, FormsKept
<1>7. /\ Ends1(e)
      /\ (t = "id" => After(e, t) = Dot("struct_literal", R))
      /\ (t \notin {"id"}
           => After(e, t) = {})
  BY <1>1, TokenNames, TokenEnds, AfterToken, FormsKept
<1>8. /\ Ends1(f)
      /\ (t = "int" => After(f, t) = R)
      /\ (t \notin {"int"}
           => After(f, t) = {})
  BY <1>1, TokenNames, TokenEnds, AfterToken, FormsKept
<1>9. /\ Ends1(g)
      /\ (t = "bool" => After(g, t) = R)
      /\ (t \notin {"bool"}
           => After(g, t) = {})
  BY <1>1, TokenNames, TokenEnds, AfterToken, FormsKept
<1>10. Ends2(Dot("named", R))
  BY <1>2, <1>3, <1>4, <1>5, <1>6, <1>7, <1>8, <1>9, EndsUnion DEF Ends2
<1>11. After(Dot("named", R), t) = After(a \cup b \cup c \cup d \cup e \cup f \cup g, t)
  BY <1>2, <1>10, EndsLater, AfterOnce
<1>12. After(a \cup b, t) = After(a, t) \cup After(b, t)
  BY AfterUnion
<1>13. After(a \cup b \cup c, t) = After(a \cup b, t) \cup After(c, t)
  BY AfterUnion
<1>14. After(a \cup b \cup c \cup d, t) = After(a \cup b \cup c, t) \cup After(d, t)
  BY AfterUnion
<1>15. After(a \cup b \cup c \cup d \cup e, t) = After(a \cup b \cup c \cup d, t) \cup After(e, t)
  BY AfterUnion
<1>16. After(a \cup b \cup c \cup d \cup e \cup f, t) = After(a \cup b \cup c \cup d \cup e, t) \cup After(f, t)
  BY AfterUnion
<1>17. After(a \cup b \cup c \cup d \cup e \cup f \cup g, t) = After(a \cup b \cup c \cup d \cup e \cup f, t) \cup After(g, t)
  BY AfterUnion
<1> QED
  BY <1>3, <1>4, <1>5, <1>6, <1>7, <1>8, <1>9, <1>10, <1>11, <1>12, <1>13, <1>14, <1>15, <1>16, <1>17, ZenonT(60)

\* What may come first in a literal, and what is then to follow.
LEMMA LiteralRow ==
  ASSUME ~Documented, NEW R \in Forms, NEW t
  PROVE  /\ Ends2(Dot("literal", R))
         /\ (t = "{" => After(Dot("literal", R), t) = Dot("members", Dot("}", R)))
         /\ (t \notin {"{"}
              => After(Dot("literal", R), t) = {})
<1>1. PICK a : a = Dot("struct_literal", R)
  OBVIOUS
<1>2. Leftmost(Dot("literal", R)) = a
  BY <1>1, RulesAre, Zenon
<1>3. /\ Ends1(a)
      /\ (t = "{" => After(a, t) = Dot("members", Dot("}", R)))
      /\ (t \notin {"{"}
           => After(a, t) = {})
  BY <1>1, FormsKept, SimpleRows, EndsLater
<1>4. Ends2(Dot("literal", R))
  BY <1>2, <1>3, EndsUnion DEF Ends2
<1>5. After(Dot("literal", R), t) = After(a, t)
  BY <1>2, <1>4, EndsLater, AfterOnce
<1>6. After(a, t) = After(a, t)
  BY AfterUnion
<1> QED
  BY <1>3, <1>4, <1>5, <1>6

\* What may come first in a members, and what is then to follow.
LEMMA MembersRow ==
  ASSUME ~Documented, NEW R \in Forms, NEW t
  PROVE  /\ Ends2(Dot("members", R))
         /\ (t = "id" => After(Dot("members", R), t) = Dot(":", Dot("expression", R))
              \cup Dot(":", Dot("expression", Dot(",", Dot("members", R)))))
         /\ (t \notin {"id"}
              => After(Dot("members", R), t) = {})
<1>1. PICK a, b : a = Dot("member", R) /\ b = Dot("member", Dot(",", Dot("members", R)))
  OBVIOUS
<1>2. Leftmost(Dot("members", R)) = a \cup b
  BY <1>1, RulesAre, Zenon
<1>3. /\ Ends1(a)
      /\ (t = "id" => After(a, t) = Dot(":", Dot("expression", R)))
      /\ (t \notin {"id"}
           => After(a, t) = {})
  BY <1>1, FormsKept, SimpleRows, EndsLater
<1>4. /\ Ends1(b)
      /\ (t = "id" => After(b, t) = Dot(":", Dot("expression", Dot(",", Dot("members", R)))))
      /\ (t \notin {"id"}
           => After(b, t) = {})
  BY <1>1, FormsKept, SimpleRows, EndsLater, ZenonT(60)
<1>5. Ends2(Dot("members", R))
  BY <1>2, <1>3, <1>4, EndsUnion DEF Ends2
<1>6. After(Dot("members", R), t) = After(a \cup b, t)
  BY <1>2, <1>5, EndsLater, AfterOnce
<1>7. After(a \cup b, t) = After(a, t) \cup After(b, t)
  BY AfterUnion
<1> QED
  BY <1>3, <1>4, <1>5, <1>6, <1>7

\* What may come first in a fields, and what is then to follow.
LEMMA FieldsRow ==
  ASSUME ~Documented, NEW R \in Forms, NEW t
  PROVE  /\ Ends2(Dot("fields", R))
         /\ (t = "id" => After(Dot("fields", R), t) = Dot(":", Dot("field_type", Dot(";", R)))
              \cup Dot(":", Dot("field_type", Dot(";", Dot("fields", R)))))
         /\ (t \notin {"id"}
              => After(Dot("fields", R), t) = {})
<1>1. PICK a, b : a = Dot("field", R) /\ b = Dot("field", Dot("fields", R))
  OBVIOUS
<1>2. Leftmost(Dot("fields", R)) = a \cup b
  BY <1>1, RulesAre, Zenon
<1>3. /\ Ends1(a)
      /\ (t = "id" => After(a, t) = Dot(":", Dot("field_type", Dot(";", R))))
      /\ (t \notin {"id"}
           => After(a, t) = {})
  BY <1>1, FormsKept, SimpleRows, EndsLater
<1>4. /\ Ends1(b)
      /\ (t = "id" => After(b, t) = Dot(":", Dot("field_type", Dot(";", Dot("fields", R)))))
      /\ (t \notin {"id"}
           => After(b, t) = {})
  BY <1>1, FormsKept, SimpleRows, EndsLater
<1>5. Ends2(Dot("fields", R))
  BY <1>2, <1>3, <1>4, EndsUnion DEF Ends2
<1>6. After(Dot("fields", R), t) = After(a \cup b, t)
  BY <1>2, <1>5, EndsLater, AfterOnce
<1>7. After(a \cup b, t) = After(a, t) \cup After(b, t)
  BY AfterUnion
<1> QED
  BY <1>3, <1>4, <1>5, <1>6, <1>7

\* What may come first in an expression, and what is then to follow.
LEMMA ExpressionRow ==
  ASSUME ~Documented, NEW R \in Forms, NEW t
  PROVE  /\ Ends3(Dot("expression", R))
         /\ (t = "cast" => After(Dot("expression", R), t) =
              Dot("(", Dot("expression", Dot("hint", Dot(")", R)))))
         /\ (t = "[" => After(Dot("expression", R), t) = Dot("]", R)
              \cup Dot("elements", Dot("]", R)))
         /\ (t = "&" => After(Dot("expression", R), t) = Dot("expression", R))
         /\ (t = "id" => After(Dot("expression", R), t) = R \cup Dot("struct_literal", R))
         /\ (t = "int" => After(Dot("expression", R), t) = R)
         /\ (t = "bool" => After(Dot("expression", R), t) = R)
         /\ (t = "{" => After(Dot("expression", R), t) = Dot("members", Dot("}", R)))
         /\ (t \notin {"cast", "[", "&", "id", "int", "bool", "{"}
              => After(Dot("expression", R), t) = {})
<1>1. PICK a, b : a = Dot("named", R) /\ b = Dot("literal", R)
  OBVIOUS
<1>2. Leftmost(Dot("expression", R)) = a \cup b
  BY <1>1, RulesAre, Zenon
<1>3. /\ Ends2(a)
      /\ (t = "cast" => After(a, t) = Dot("(", Dot("expression", Dot("hint", Dot(")", R)))))
      /\ (t = "[" => After(a, t) = Dot("]", R) \cup Dot("elements", Dot("]", R)))
      /\ (t = "&" => After(a, t) = Dot("expression", R))
      /\ (t = "id" => After(a, t) = R \cup Dot("struct_literal", R))
      /\ (t = "int" => After(a, t) = R)
      /\ (t = "bool" => After(a, t) = R)
      /\ (t \notin {"cast", "[", "&", "id", "int", "bool"}
           => After(a, t) = {})
  BY <1>1, FormsKept, NamedRow, EndsLater
<1>4. /\ Ends2(b)
      /\ (t = "{" => After(b, t) = Dot("members", Dot("}", R)))
      /\ (t \notin {"{"}
           => After(b, t) = {})
  BY <1>1, FormsKept, LiteralRow, EndsLater
<1>5. Ends3(Dot("expression", R))
  BY <1>2, <1>3, <1>4, EndsUnion DEF Ends3
<1>6. After(Dot("expression", R), t) = After(a \cup b, t)
  BY <1>2, <1>5, EndsLater, AfterOnce
<1>7. After(a \cup b, t) = After(a, t) \cup After(b, t)
  BY AfterUnion
<1> QED
  BY <1>3, <1>4, <1>5, <1>6, <1>7

\* What may come first in a statement, and what is then to follow.
LEMMA StatementRow ==
  ASSUME ~Documented, NEW R \in Forms, NEW t
  PROVE  /\ Ends3(Dot("statement", R))
         /\ (t = "cast" => After(Dot("statement", R), t) =
              Dot("(", Dot("expression", Dot("hint", Dot(")", Dot(";", R))))))
         /\ (t = "[" => After(Dot("statement", R), t) = Dot("]", Dot(";", R))
              \cup Dot("elements", Dot("]", Dot(";", R))))
         /\ (t = "&" => After(Dot("statement", R), t) = Dot("expression", Dot(";", R)))
         /\ (t = "id" => After(Dot("statement", R), t) = Dot(";", R)
              \cup Dot("struct_literal", Dot(";", R)))
         /\ (t = "int" => After(Dot("statement", R), t) = Dot(";", R))
         /\ (t = "bool" => After(Dot("statement", R), t) = Dot(";", R))
         /\ (t = "if" => After(Dot("statement", R), t) =
              Dot("(", Dot("expression", Dot(")", Dot("block", Dot("alternative", R))))))
         /\ (t = "{" => After(Dot("statement", R), t) = Dot("declarations", Dot("}", R)))
         /\ (t \notin {"cast", "[", "&", "id", "int", "bool", "if", "{"}
              => After(Dot("statement", R), t) = {})
<1>1. PICK a, b, c : a = Dot("named", Dot(";", R)) /\ b = Dot("if_statement", R) /\ c = Dot("block", R)
  OBVIOUS
<1>2. Leftmost(Dot("statement", R)) = a \cup b \cup c
  BY <1>1, RulesAre, Zenon
<1>3. /\ Ends2(a)
      /\ (t = "cast" => After(a, t) =
           Dot("(", Dot("expression", Dot("hint", Dot(")", Dot(";", R))))))
      /\ (t = "[" => After(a, t) = Dot("]", Dot(";", R))
           \cup Dot("elements", Dot("]", Dot(";", R))))
      /\ (t = "&" => After(a, t) = Dot("expression", Dot(";", R)))
      /\ (t = "id" => After(a, t) = Dot(";", R) \cup Dot("struct_literal", Dot(";", R)))
      /\ (t = "int" => After(a, t) = Dot(";", R))
      /\ (t = "bool" => After(a, t) = Dot(";", R))
      /\ (t \notin {"cast", "[", "&", "id", "int", "bool"}
           => After(a, t) = {})
  BY <1>1, FormsKept, NamedRow, EndsLater, ZenonT(60)
<1>4. /\ Ends2(b)
      /\ (t = "if" => After(b, t) =
           Dot("(", Dot("expression", Dot(")", Dot("block", Dot("alternative", R))))))
      /\ (t \notin {"if"}
           => After(b, t) = {})
  BY <1>1, FormsKept, SimpleRows, EndsLater
<1>5. /\ Ends2(c)
      /\ (t = "{" => After(c, t) = Dot("declarations", Dot("}", R)))
      /\ (t \notin {"{"}
           => After(c, t) = {})
  BY <1>1, FormsKept, SimpleRows, EndsLater
<1>6. Ends3(Dot("statement", R))
  BY <1>2, <1>3, <1>4, <1>5, EndsUnion DEF Ends3
<1>7. After(Dot("statement", R), t) = After(a \cup b \cup c, t)
  BY <1>2, <1>6, EndsLater, AfterOnce
<1>8. After(a \cup b, t) = After(a, t) \cup After(b, t)
  BY AfterUnion
<1>9. After(a \cup b \cup c, t) = After(a \cup b, t) \cup After(c, t)
  BY AfterUnion
<1> QED
  BY <1>3, <1>4, <1>5, <1>6, <1>7, <1>8, <1>9

\* What may come first in an elements, and what is then to follow.
LEMMA ElementsRow ==
  ASSUME ~Documented, NEW R \in Forms, NEW t
  PROVE  /\ Ends4(Dot("elements", R))
         /\ (t = "cast" => After(Dot("elements", R), t) =
              Dot("(", Dot("expression", Dot("hint", Dot(")", R))))
              \cup Dot("(", Dot("expression", Dot("hint", Dot(")", Dot(",", R)))))
              \cup Dot("(", Dot("expression", Dot("hint", Dot(")", Dot(",", Dot("elements", R)))))))
         /\ (t = "[" => After(Dot("elements", R), t) = Dot("]", R)
              \cup Dot("elements", Dot("]", R)) \cup Dot("]", Dot(",", R))
              \cup Dot("elements", Dot("]", Dot(",", R)))
              \cup Dot("]", Dot(",", Dot("elements", R)))
              \cup Dot("elements", Dot("]", Dot(",", Dot("elements", R)))))
         /\ (t = "&" => After(Dot("elements", R), t) = Dot("expression", R)
              \cup Dot("expression", Dot(",", R))
              \cup Dot("expression", Dot(",", Dot("elements", R))))
         /\ (t = "id" => After(Dot("elements", R), t) = R \cup Dot("struct_literal", R)
              \cup Dot(",", R) \cup Dot("struct_literal", Dot(",", R))
              \cup Dot(",", Dot("elements", R))
              \cup Dot("struct_literal", Dot(",", Dot("elements", R))))
         /\ (t = "int" => After(Dot("elements", R), t) = R \cup Dot(",", R)
              \cup Dot(",", Dot("elements", R)))
         /\ (t = "bool" => After(Dot("elements", R), t) = R \cup Dot(",", R)
              \cup Dot(",", Dot("elements", R)))
         /\ (t = "{" => After(Dot("elements", R), t) = Dot("members", Dot("}", R))
              \cup Dot("members", Dot("}", Dot(",", R)))
              \cup Dot("members", Dot("}", Dot(",", Dot("elements", R)))))
         /\ (t \notin {"cast", "[", "&", "id", "int", "bool", "{"}
              => After(Dot("elements", R), t) = {})
<1>1. PICK a, b, c : a = Dot("expression", R) /\ b = Dot("expression", Dot(",", R))
      /\ c = Dot("expression", Dot(",", Dot("elements", R)))
  OBVIOUS
<1>2. Leftmost(Dot("elements", R)) = a \cup b \cup c
  BY <1>1, RulesAre, Zenon
<1>3. /\ Ends3(a)
      /\ (t = "cast" => After(a, t) = Dot("(", Dot("expression", Dot("hint", Dot(")", R)))))
      /\ (t = "[" => After(a, t) = Dot("]", R) \cup Dot("elements", Dot("]", R)))
      /\ (t = "&" => After(a, t) = Dot("expression", R))
      /\ (t = "id" => After(a, t) = R \cup Dot("struct_literal", R))
      /\ (t = "int" => After(a, t) = R)
      /\ (t = "bool" => After(a, t) = R)
      /\ (t = "{" => After(a, t) = Dot("members", Dot("}", R)))
      /\ (t \notin {"cast", "[", "&", "id", "int", "bool", "{"}
           => After(a, t) = {})
  BY <1>1, FormsKept, ExpressionRow, EndsLater
<1>4. /\ Ends3(b)
      /\ (t = "cast" => After(b, t) =
           Dot("(", Dot("expression", Dot("hint", Dot(")", Dot(",", R))))))
      /\ (t = "[" => After(b, t) = Dot("]", Dot(",", R))
           \cup Dot("elements", Dot("]", Dot(",", R))))
      /\ (t = "&" => After(b, t) = Dot("expression", Dot(",", R)))
      /\ (t = "id" => After(b, t) = Dot(",", R) \cup Dot("struct_literal", Dot(",", R)))
      /\ (t = "int" => After(b, t) = Dot(",", R))
      /\ (t = "bool" => After(b, t) = Dot(",", R))
      /\ (t = "{" => After(b, t) = Dot("members", Dot("}", Dot(",", R))))
      /\ (t \notin {"cast", "[", "&", "id", "int", "bool", "{"}
           => After(b, t) = {})
  BY <1>1, FormsKept, ExpressionRow, EndsLater, ZenonT(60)
<1>5. /\ Ends3(c)
      /\ (t = "cast" => After(c, t) =
           Dot("(", Dot("expression", Dot("hint", Dot(")", Dot(",", Dot("elements", R)))))))
      /\ (t = "[" => After(c, t) = Dot("]", Dot(",", Dot("elements", R)))
           \cup Dot("elements", Dot("]", Dot(",", Dot("elements", R)))))
      /\ (t = "&" => After(c, t) = Dot("expression", Dot(",", Dot("elements", R))))
      /\ (t = "id" => After(c, t) = Dot(",", Dot("elements", R))
           \cup Dot("struct_literal", Dot(",", Dot("elements", R))))
      /\ (t = "int" => After(c, t) = Dot(",", Dot("elements", R)))
      /\ (t = "bool" => After(c, t) = Dot(",", Dot("elements", R)))
      /\ (t = "{" => After(c, t) = Dot("members", Dot("}", Dot(",", Dot("elements", R)))))
      /\ (t \notin {"cast", "[", "&", "id", "int", "bool", "{"}
           => After(c, t) = {})
  BY <1>1, FormsKept, ExpressionRow, EndsLater, ZenonT(60)
<1>6. Ends4(Dot("elements", R))
  <2>1. Ends3(a \cup b)
    BY <1>3, <1>4, EndsUnion
  <2>2. Ends3(a \cup b \cup c)
    BY <1>5, <2>1, EndsUnion
  <2> QED
    BY <1>2, <2>2 DEF Ends4
<1>7. After(Dot("elements", R), t) = After(a \cup b \cup c, t)
  BY <1>2, <1>6, EndsLater, AfterOnce
<1>8. After(a \cup b, t) = After(a, t) \cup After(b, t)
  BY AfterUnion
<1>9. After(a \cup b \cup c, t) = After(a \cup b, t) \cup After(c, t)
  BY AfterUnion
<1> QED
  BY <1>3, <1>4, <1>5, <1>6, <1>7, <1>8, <1>9, ZenonT(60)

-----------------------------------------------------------------------------
\* Parts that may be left out: a hint before the token that comes after it.
LEMMA HintRow ==
  ASSUME ~Documented, NEW x \in Tokens, x # ":", NEW Q \in Forms, NEW t
  PROVE  /\ (t = ":" => After(Dot("hint", Dot(x, Q)), t) = Dot("type", Dot(x, Q)))
         /\ (t = x => After(Dot("hint", Dot(x, Q)), t) = Q)
         /\ (t \notin {":", x} => After(Dot("hint", Dot(x, Q)), t) = {})
<1>1. PICK a, b, c : a = Dot(x, Q) /\ c = Dot("type", a) /\ b = Dot(":", c)
  OBVIOUS
<1>2. a \in Forms /\ c \in Forms /\ ":" \in Tokens
  BY <1>1, FormsKept, TokenNames
<1>3. Leftmost(Dot("hint", a)) = a \cup b
  BY <1>1, <1>2, RulesAre
<1>4. Ends0(a) /\ Ends0(b) /\ After(a, t) = (IF t = x THEN Q ELSE {}) /\ After(b, t) = IF t = ":" THEN c ELSE {}
  BY <1>1, <1>2, TokenEnds, AfterToken
<1>5. Ends7(Dot("hint", a))
  BY <1>3, <1>4, EndsUnion, EndsLater DEF Ends1
<1>6. After(Dot("hint", a), t) = After(a \cup b, t)
  BY <1>3, <1>5, AfterOnce
<1>7. After(a \cup b, t) = After(a, t) \cup After(b, t)
  BY AfterUnion
<1> QED
  BY <1>1, <1>4, <1>6, <1>7

\* The arguments of an attribute.
LEMMA ArgumentsRow ==
  ASSUME ~Documented, NEW Q \in Forms, NEW t
  PROVE  /\ (t = "(" => After(Dot("arguments", Dot("]", Q)), t) = Dot("properties", Dot(")", Dot("]", Q))))
         /\ (t # "(" => After(Dot("arguments", Dot("]", Q)), t) = After(Dot("]", Q), t))
<1>1. PICK a, b, c : a = Dot("]", Q) /\ c = Dot("properties", Dot(")", a)) /\ b = Dot("(", c)
  OBVIOUS
<1>2. a \in Forms /\ c \in Forms /\ "]" \in Tokens /\ "(" \in Tokens
  BY <1>1, FormsKept, TokenNames
<1>3. Leftmost(Dot("arguments", a)) = a \cup b
  BY <1>1, <1>2, RulesAre
<1>4. Ends0(a) /\ Ends0(b) /\ After(a, t) = (IF t = "]" THEN Q ELSE {}) /\ After(b, t) = IF t = "(" THEN c ELSE {}
  BY <1>1, <1>2, TokenEnds, AfterToken
<1>5. Ends7(Dot("arguments", a))
  BY <1>3, <1>4, EndsUnion, EndsLater DEF Ends1
<1>6. After(Dot("arguments", a), t) = After(a \cup b, t)
  BY <1>3, <1>5, AfterOnce
<1>7. After(a \cup b, t) = After(a, t) \cup After(b, t)
  BY AfterUnion
<1> QED
  BY <1>1, <1>4, <1>6, <1>7

\* What comes after a property, and the properties themselves.
NextProperty(R) == Dot(")", Dot("]", R)) \cup Dot(",", Dot("properties", Dot(")", Dot("]", R))))

\* The properties of an attribute.
LEMMA PropertiesRow ==
  ASSUME ~Documented, NEW R \in Forms, NEW t
  PROVE  /\ (t = "id" => After(Dot("properties", Dot(")", Dot("]", R))), t) = Dot(":", Dot("expression", NextProperty(R))))
         /\ (t # "id" => After(Dot("properties", Dot(")", Dot("]", R))), t) = After(Dot(")", Dot("]", R)), t))
<1>1. PICK q, a : q = Dot("]", R) /\ a = Dot(")", q)
  OBVIOUS
<1>2. PICK d, e : e = Dot(",", Dot("properties", a)) /\ d = a \cup e
  OBVIOUS
<1>3. a \in Forms /\ q \in Forms /\ e \in Forms /\ d \in Forms /\ ")" \in Tokens
  BY <1>1, <1>2, FormsKept, TokenNames
<1>4. Leftmost(Dot("properties", a)) = a \cup Dot("property", a) \cup Dot("property", e)
  BY <1>1, <1>2, <1>3, RulesAre
<1>5. Dot("property", d) = Dot("property", a) \cup Dot("property", e)
  <2>1. Dot("property", a \cup e) = Dot("property", a) \cup Dot("property", e)
    BY DotUnion
  <2> QED
    BY <1>2, <2>1
<1>6. Leftmost(Dot("properties", a)) = a \cup Dot("property", d)
  BY <1>4, <1>5
<1>7. Ends0(a) /\ Ends1(Dot("property", d)) /\ After(a, t) = (IF t = ")" THEN q ELSE {})
      /\ After(Dot("property", d), t) = IF t = "id" THEN Dot(":", Dot("expression", d)) ELSE {}
  <2>1. Ends0(a) /\ After(a, t) = (IF t = ")" THEN q ELSE {})
    BY <1>1, <1>3, TokenEnds, AfterToken
  <2>2. Ends1(Dot("property", d)) /\ After(Dot("property", d), t) = IF t = "id" THEN Dot(":", Dot("expression", d)) ELSE {}
    BY <1>3, SimpleRows, Zenon
  <2> QED
    BY <2>1, <2>2
<1>8. Ends7(Dot("properties", a))
  BY <1>6, <1>7, EndsUnion, EndsLater DEF Ends2
<1>9. After(Dot("properties", a), t) = After(a \cup Dot("property", d), t)
  BY <1>6, <1>8, AfterOnce
<1>10. After(a \cup Dot("property", d), t) = After(a, t) \cup After(Dot("property", d), t)
  BY AfterUnion
<1>11. NextProperty(R) = d
  BY <1>1, <1>2 DEF NextProperty
<1> QED
  BY <1>1, <1>7, <1>9, <1>10, <1>11

\* A declaration after its attributes.
Attributed(R) == Dot("attributes", Dot("variable", R)) \cup Dot("attributes", Dot("struct_declaration", R))

\* Attributes before a rule that takes a token first.
LEMMA AttributesRow ==
  ASSUME ~Documented, NEW F \in Forms, Ends1(F), NEW t
  PROVE  /\ Ends2(Dot("attributes", F))
         /\ After(Dot("attributes", F), t) =
              After(F, t) \cup (IF t = "#" THEN Dot("[", Dot("id", Dot("arguments", Dot("]", Dot("attributes", F))))) ELSE {})
<1>1. PICK b, c : c = Dot("[", Dot("id", Dot("arguments", Dot("]", Dot("attributes", F))))) /\ b = Dot("#", c)
  OBVIOUS
<1>2. c \in Forms /\ "#" \in Tokens
  BY <1>1, FormsKept, TokenNames
<1>3. Leftmost(Dot("attributes", F)) = F \cup b
  BY <1>1, RulesAre
<1>4. Ends1(b) /\ After(b, t) = IF t = "#" THEN c ELSE {}
  BY <1>1, <1>2, TokenEnds, AfterToken
<1>5. Ends2(Dot("attributes", F))
  BY <1>3, <1>4, EndsUnion DEF Ends2
<1>6. After(Dot("attributes", F), t) = After(F \cup b, t)
  BY <1>3, <1>5, EndsLater, AfterOnce
<1>7. After(F \cup b, t) = After(F, t) \cup After(b, t)
  BY AfterUnion
<1> QED
  BY <1>1, <1>4, <1>5, <1>6, <1>7

\* What an attribute is followed by distributes over what its declaration is.
LEMMA AttributeUnion ==
  ASSUME NEW A, NEW B
  PROVE  Dot("[", Dot("id", Dot("arguments", Dot("]", A \cup B)))) =
           Dot("[", Dot("id", Dot("arguments", Dot("]", A)))) \cup Dot("[", Dot("id", Dot("arguments", Dot("]", B))))
<1>1. Dot("]", A \cup B) = Dot("]", A) \cup Dot("]", B)
  BY DotUnion
<1>2. PICK a, b, c : a = Dot("]", A) /\ b = Dot("]", B) /\ c = Dot("]", A \cup B)
  OBVIOUS
<1>3. Dot("arguments", a \cup b) = Dot("arguments", a) \cup Dot("arguments", b)
  BY DotUnion
<1>4. PICK d, e : d = Dot("arguments", a) /\ e = Dot("arguments", b)
  OBVIOUS
<1>5. Dot("id", d \cup e) = Dot("id", d) \cup Dot("id", e)
  BY DotUnion
<1>6. PICK f, g : f = Dot("id", d) /\ g = Dot("id", e)
  OBVIOUS
<1>7. Dot("[", f \cup g) = Dot("[", f) \cup Dot("[", g)
  BY DotUnion
<1>8. c = a \cup b
  BY <1>1, <1>2
<1>9. Dot("arguments", c) = d \cup e
  BY <1>3, <1>4, <1>8
<1>10. Dot("id", Dot("arguments", c)) = f \cup g
  BY <1>5, <1>6, <1>9
<1>11. Dot("[", Dot("id", Dot("arguments", c))) = Dot("[", f) \cup Dot("[", g)
  BY <1>7, <1>10
<1> QED
  BY <1>2, <1>4, <1>6, <1>11, Zenon

\* What may come after an attribute.
LEMMA AttributedRow ==
  ASSUME ~Documented, NEW R \in Forms, NEW t
  PROVE  /\ (t = "#" => After(Attributed(R), t) = Dot("[", Dot("id", Dot("arguments", Dot("]", Attributed(R))))))
         /\ (t = "var" => After(Attributed(R), t) = After(Dot("variable", R), t))
         /\ (t = "struct" => After(Attributed(R), t) = After(Dot("struct_declaration", R), t))
         /\ (t \notin {"#", "var", "struct"} => After(Attributed(R), t) = {})
         /\ Ends2(Attributed(R))
<1>1. PICK a, b : a = Dot("variable", R) /\ b = Dot("struct_declaration", R)
  OBVIOUS
<1>2. /\ a \in Forms /\ b \in Forms /\ Ends1(a) /\ Ends1(b)
      /\ (t # "var" => After(a, t) = {}) /\ (t # "struct" => After(b, t) = {})
  BY <1>1, FormsKept, SimpleRows
<1>3. PICK c, d : c = Dot("attributes", a) /\ d = Dot("attributes", b)
  OBVIOUS
<1>4. Attributed(R) = c \cup d
  BY <1>1, <1>3 DEF Attributed
<1>5. After(Attributed(R), t) = After(c, t) \cup After(d, t)
  BY <1>4, AfterUnion
<1>6. PICK p, q, r : /\ p = Dot("[", Dot("id", Dot("arguments", Dot("]", c)))) /\ q = Dot("[", Dot("id", Dot("arguments", Dot("]", d))))
                     /\ r = Dot("[", Dot("id", Dot("arguments", Dot("]", c \cup d))))
  OBVIOUS
<1>7. r = p \cup q
  BY <1>6, AttributeUnion
<1>8. /\ Ends2(c) /\ After(c, t) = After(a, t) \cup (IF t = "#" THEN p ELSE {})
      /\ Ends2(d) /\ After(d, t) = After(b, t) \cup (IF t = "#" THEN q ELSE {})
  BY <1>2, <1>3, <1>6, AttributesRow
<1>9. Ends2(Attributed(R))
  BY <1>4, <1>8, EndsUnion
<1>10. r = Dot("[", Dot("id", Dot("arguments", Dot("]", Attributed(R)))))
  BY <1>4, <1>6, Zenon
<1>11. t = "#" => After(Attributed(R), t) = p \cup q
  BY <1>2, <1>5, <1>8
<1>12. (t = "var" => After(Attributed(R), t) = After(a, t)) /\ (t = "struct" => After(Attributed(R), t) = After(b, t))
       /\ (t \notin {"#", "var", "struct"} => After(Attributed(R), t) = {})
  BY <1>2, <1>5, <1>8
<1> QED
  BY <1>1, <1>7, <1>9, <1>10, <1>11, <1>12, Zenon

\* What may come first in a declaration.
LEMMA DeclarationRow ==
  ASSUME ~Documented, NEW R \in Forms, NEW t
  PROVE  /\ Ends4(Dot("declaration", R))
         /\ (t \in {"#", "var", "struct"} => After(Dot("declaration", R), t) = After(Attributed(R), t))
         /\ (t \notin {"#", "var", "struct"} => After(Dot("declaration", R), t) = After(Dot("statement", R), t))
<1>1. PICK a, b : a = Attributed(R) /\ b = Dot("statement", R)
  OBVIOUS
<1>2. Leftmost(Dot("declaration", R)) = a \cup b
  BY <1>1, RulesAre DEF Attributed
<1>3. Ends2(a) /\ (t \notin {"#", "var", "struct"} => After(a, t) = {})
  BY <1>1, AttributedRow
<1>4. Ends3(b) /\ (t \in {"#", "var", "struct"} => After(b, t) = {})
  BY <1>1, StatementRow
<1>5. Ends4(Dot("declaration", R))
  BY <1>2, <1>3, <1>4, EndsUnion, EndsLater DEF Ends4
<1>6. After(Dot("declaration", R), t) = After(a \cup b, t)
  BY <1>2, <1>5, EndsLater, AfterOnce
<1>7. After(a \cup b, t) = After(a, t) \cup After(b, t)
  BY AfterUnion
<1> QED
  BY <1>1, <1>3, <1>4, <1>5, <1>6, <1>7

\* No declaration begins with one of these tokens, or with the end of the source.
LEMMA NoDeclaration ==
  ASSUME ~Documented, NEW R \in Forms, NEW t \in {"}", ";", "else", Eof}
  PROVE  After(Dot("declaration", R), t) = {}
<1>1. t \notin {"#", "var", "struct"} /\ t \notin {"cast", "[", "&", "id", "int", "bool", "if", "{"}
  BY DEF Eof
<1> QED
  BY <1>1, DeclarationRow, StatementRow

\* What may come next in a block: its end, or a declaration.
LEMMA DeclarationsRow ==
  ASSUME ~Documented, NEW Q \in Forms, NEW t
  PROVE  /\ Ends6(Dot("declarations", Dot("}", Q)))
         /\ (t \in {"}", Eof} => After(Dot("declarations", Dot("}", Q)), t) = After(Dot("}", Q), t))
         /\ (t # "}" => After(Dot("declarations", Dot("}", Q)), t) = After(Dot("declaration", Dot("declarations", Dot("}", Q))), t))
         /\ (t = "else" => After(Dot("declarations", Dot("}", Q)), t) = {})
<1>1. PICK a, b : a = Dot("}", Q) /\ b = Dot("declaration", Dot("declarations", a))
  OBVIOUS
<1>2. a \in Forms /\ Dot("declarations", a) \in Forms /\ "}" \in Tokens /\ "}" # Eof /\ "else" # "}"
  BY <1>1, FormsKept, TokenNames, SymbolKinds
<1>3. Leftmost(Dot("declarations", a)) = a \cup b
  BY <1>1, <1>2, RulesAre
<1>4. Ends4(a) /\ (t # "}" => After(a, t) = {})
  BY <1>1, <1>2, TokenEnds, AfterToken
<1>5. Ends4(b) /\ (t \in {"}", "else", Eof} => After(b, t) = {})
  BY <1>1, <1>2, DeclarationRow, NoDeclaration
<1>6. Ends5(Dot("declarations", a))
  BY <1>3, <1>4, <1>5, EndsUnion DEF Ends5
<1>7. After(Dot("declarations", a), t) = After(a \cup b, t)
  BY <1>3, <1>6, EndsLater, AfterOnce
<1>8. After(a \cup b, t) = After(a, t) \cup After(b, t)
  BY AfterUnion
<1> QED
  BY <1>1, <1>2, <1>4, <1>5, <1>6, <1>7, <1>8, EndsLater

\* What may come next between the declarations of the program.
LEMMA ProgramRow ==
  ASSUME ~Documented, NEW t
  PROVE  LET P == Dot("program", {<<>>}) IN
         /\ (t = Eof => After(P, t) = {<<>>})
         /\ (t # Eof => After(P, t) = After(Dot("declaration", Dot("empty", P)), t))
         /\ (t = ";" => After(Dot("empty", P), t) = P)
         /\ (t # ";" => After(Dot("empty", P), t) = After(P, t))
         /\ Ends6(Dot("empty", P)) /\ After(Dot("empty", P), "else") = {}
         /\ P \in Forms /\ P # {} /\ Dot("empty", P) \in Forms
<1>1. PICK P, S, D : P = Dot("program", {<<>>}) /\ S = Dot(";", P) /\ D = Dot("declaration", Dot("empty", P))
  OBVIOUS
<1>2. {<<>>} \in Forms /\ P \in Forms /\ P # {} /\ Dot("empty", P) \in Forms /\ ";" \in Tokens
  BY <1>1, FormsKept, DotNonempty, SymbolNames, TokenNames
<1>3. Leftmost(P) = {<<>>} \cup D /\ Leftmost(Dot("empty", P)) = P \cup S
  BY <1>1, <1>2, RulesAre
<1>4. Ends4({<<>>}) /\ Ends4(D) /\ Ends5(S)
  BY <1>1, <1>2, LeftmostEmpty, EndsLater, DeclarationRow, TokenEnds DEF Ends0
<1>5. Ends5(P)
  BY <1>3, <1>4, EndsUnion DEF Ends5
<1>6. Ends6(Dot("empty", P))
  BY <1>3, <1>4, <1>5, EndsUnion DEF Ends6
<1>7. ASSUME NEW u
      PROVE  /\ After(P, u) = After({<<>>}, u) \cup After(D, u)
             /\ After(Dot("empty", P), u) = After(P, u) \cup After(S, u)
  <2>1. After(P, u) = After({<<>>} \cup D, u) /\ After(Dot("empty", P), u) = After(P \cup S, u)
    BY <1>3, <1>5, <1>6, EndsLater, AfterOnce
  <2>2. After({<<>>} \cup D, u) = After({<<>>}, u) \cup After(D, u)
    BY AfterUnion
  <2>3. After(P \cup S, u) = After(P, u) \cup After(S, u)
    BY AfterUnion
  <2> QED
    BY <2>1, <2>2, <2>3, Zenon
<1>8. ASSUME NEW u
      PROVE  /\ After({<<>>}, u) = (IF u = Eof THEN {<<>>} ELSE {}) /\ (u \in {";", "else", Eof} => After(D, u) = {})
             /\ After(S, u) = IF u = ";" THEN P ELSE {}
  BY <1>1, <1>2, AfterEmpty, NoDeclaration, AfterToken
<1>9. ";" # Eof /\ "else" # Eof /\ ";" # "else"
  BY DEF Eof
<1>10. /\ (t = Eof => After(P, t) = {<<>>}) /\ (t # Eof => After(P, t) = After(D, t))
       /\ (t = ";" => After(Dot("empty", P), t) = P) /\ (t # ";" => After(Dot("empty", P), t) = After(P, t))
  BY <1>7, <1>8, <1>9
<1>11. After(Dot("empty", P), "else") = {}
  BY <1>7, <1>8, <1>9
<1> QED
  BY <1>1, <1>2, <1>6, <1>10, <1>11, Zenon

\* What may come after the block of an if.
LEMMA AlternativeRow ==
  ASSUME ~Documented, NEW R \in Forms, Ends6(R), After(R, "else") = {}, NEW t
  PROVE  /\ (t = "else" => After(Dot("alternative", R), t) = Dot("if_statement", R) \cup Dot("block", R))
         /\ (t # "else" => After(Dot("alternative", R), t) = After(R, t))
<1>1. PICK i, b, e : i = Dot("if_statement", R) /\ b = Dot("block", R) /\ e = Dot("else", i) \cup Dot("else", b)
  OBVIOUS
<1>2. i \in Forms /\ b \in Forms /\ "else" \in Tokens
  BY <1>1, FormsKept, TokenNames
<1>3. Leftmost(Dot("alternative", R)) = R \cup e
  BY <1>1, RulesAre
<1>4. Ends6(e)
  BY <1>1, <1>2, TokenEnds, EndsUnion
<1>5. After(e, t) = IF t = "else" THEN i \cup b ELSE {}
  <2>1. PICK d, f : d = Dot("else", i) /\ f = Dot("else", b)
    OBVIOUS
  <2>2. After(d, t) = (IF t = "else" THEN i ELSE {}) /\ After(f, t) = IF t = "else" THEN b ELSE {}
    BY <1>2, <2>1, AfterToken
  <2>3. After(d \cup f, t) = After(d, t) \cup After(f, t)
    BY AfterUnion
  <2>4. e = d \cup f
    BY <1>1, <2>1
  <2> QED
    BY <2>2, <2>3, <2>4
<1>6. Ends7(Dot("alternative", R))
  BY <1>3, <1>4, EndsUnion DEF Ends7
<1>7. After(Dot("alternative", R), t) = After(R \cup e, t)
  BY <1>3, <1>6, AfterOnce
<1>8. After(R \cup e, t) = After(R, t) \cup After(e, t)
  BY AfterUnion
<1> QED
  BY <1>1, <1>5, <1>7, <1>8

-----------------------------------------------------------------------------
(***************************************************************************)
(* What a call in progress still has to find.                              *)
(***************************************************************************)

\* What may follow an element of an array, a member of a struct literal, a field of a struct.
MoreElements(R) == Dot("]", R) \cup Dot("elements", Dot("]", R))
NextElement(R) == Dot("]", R) \cup Dot(",", MoreElements(R))
NextMember(R) == Dot("}", R) \cup Dot(",", Dot("members", Dot("}", R)))
MoreFields(R) == Dot("}", R) \cup Dot("fields", Dot("}", R))
TypeRule(flag) == IF flag THEN "type" ELSE "field_type"

\* X is what a call at a point of its function has to find when R comes after it.
SourceLeft(at, R, X) ==
  /\ R = {<<>>}
  /\ \/ at = "start" /\ X = Dot("program", R)
     \/ at \in {"declared", "separator"} /\ X = Dot("empty", Dot("program", R))
DeclarationLeft(at, flag, R, X) ==
  \/ at = "start" /\ ~flag /\ X = Dot("declaration", R)
  \/ at = "start" /\ flag /\ X = Attributed(R)
  \/ at = "attribute done" /\ X = Attributed(R)
AttributeLeft(at, R, X) ==
  \/ at = "start" /\ X = Dot("#", Dot("[", Dot("id", Dot("arguments", Dot("]", R)))))
  \/ at = "open" /\ X = Dot("[", Dot("id", Dot("arguments", Dot("]", R))))
  \/ at = "name" /\ X = Dot("id", Dot("arguments", Dot("]", R)))
  \/ at = "arguments" /\ X = Dot("arguments", Dot("]", R))
  \/ at = "loop" /\ X = Dot("properties", Dot(")", Dot("]", R)))
  \/ at = "colon" /\ X = Dot(":", Dot("expression", NextProperty(R)))
  \/ at = "value" /\ X = Dot("expression", NextProperty(R))
  \/ at \in {"value done", "comma"} /\ X = NextProperty(R)
  \/ at = "arguments done" /\ X = Dot(")", Dot("]", R))
  \/ at = "close" /\ X = Dot("]", R)
VariableLeft(at, R, X) ==
  \/ at = "start" /\ X = Dot("var", Dot("id", Dot("hint", Dot("=", Dot("expression", Dot(";", R))))))
  \/ at = "name" /\ X = Dot("id", Dot("hint", Dot("=", Dot("expression", Dot(";", R)))))
  \/ at = "colon" /\ X = Dot("hint", Dot("=", Dot("expression", Dot(";", R))))
  \/ at = "hint" /\ X = Dot("type", Dot("=", Dot("expression", Dot(";", R))))
  \/ at \in {"hint done", "assign"} /\ X = Dot("=", Dot("expression", Dot(";", R)))
  \/ at = "value" /\ X = Dot("expression", Dot(";", R))
  \/ at \in {"value done", "semicolon"} /\ X = Dot(";", R)
TypeLeft(at, flag, R, X) ==
  \/ at = "start" /\ X = Dot(TypeRule(flag), R)
TypeNameLeft(at, R, X) ==
  \/ at = "start" /\ X = Dot("id", R)
ReferenceTypeLeft(at, flag, R, X) ==
  \/ at = "start" /\ X = Dot("&", Dot(TypeRule(flag), R))
  \/ at = "element" /\ X = Dot(TypeRule(flag), R)
  \/ at = "made" /\ X = R
ArrayTypeLeft(at, flag, R, X) ==
  \/ at = "start" /\ flag /\ X = Dot("[", Dot("int", Dot("]", Dot("type", R)))) \cup Dot("[", Dot("]", Dot("type", R)))
  \/ at = "start" /\ ~flag /\ X = Dot("[", Dot("int", Dot("]", Dot("field_type", R))))
  \/ at = "length" /\ flag /\ X = Dot("int", Dot("]", Dot("type", R))) \cup Dot("]", Dot("type", R))
  \/ at = "length" /\ ~flag /\ X = Dot("int", Dot("]", Dot("field_type", R)))
  \/ at = "close" /\ X = Dot("]", Dot(TypeRule(flag), R))
  \/ at = "element" /\ X = Dot(TypeRule(flag), R)
  \/ at = "made" /\ X = R
ExpressionLeft(at, R, X) ==
  \/ at = "start" /\ X = Dot("expression", R)
LiteralLeft(at, R, X) ==
  \/ at = "start" /\ X = Dot("int", R) \cup Dot("bool", R)
CastLeft(at, R, X) ==
  \/ at = "start" /\ X = Dot("cast", Dot("(", Dot("expression", Dot("hint", Dot(")", R)))))
  \/ at = "open" /\ X = Dot("(", Dot("expression", Dot("hint", Dot(")", R))))
  \/ at = "operand" /\ X = Dot("expression", Dot("hint", Dot(")", R)))
  \/ at \in {"operand done", "colon"} /\ X = Dot("hint", Dot(")", R))
  \/ at = "hint" /\ X = Dot("type", Dot(")", R))
  \/ at \in {"hint done", "close"} /\ X = Dot(")", R)
ArrayLeft(at, R, X) ==
  \/ at = "start" /\ X = Dot("[", MoreElements(R))
  \/ at = "loop" /\ X = MoreElements(R)
  \/ at = "element" /\ X = Dot("expression", NextElement(R))
  \/ at \in {"element done", "comma"} /\ X = NextElement(R)
  \/ at = "close" /\ X = Dot("]", R)
ReferenceLeft(at, R, X) ==
  \/ at = "start" /\ X = Dot("&", Dot("expression", R))
  \/ at = "operand" /\ X = Dot("expression", R)
  \/ at = "operand done" /\ X = R
IdentifierLeft(at, R, X) ==
  \/ at = "start" /\ X = Dot("id", R) \cup Dot("id", Dot("struct_literal", R))
  \/ at = "named" /\ X = R \cup Dot("struct_literal", R)
StructFieldLeft(at, R, X) ==
  \/ at = "start" /\ X = Dot("id", Dot(":", Dot("expression", R)))
  \/ at = "colon" /\ X = Dot(":", Dot("expression", R))
  \/ at = "value" /\ X = Dot("expression", R)
  \/ at = "value done" /\ X = R
StructLiteralLeft(at, R, X) ==
  \/ at = "start" /\ X = Dot("{", Dot("members", Dot("}", R)))
  \/ at = "loop" /\ X = Dot("members", Dot("}", R))
  \/ at = "field" /\ X = Dot("id", Dot(":", Dot("expression", NextMember(R))))
  \/ at \in {"field done", "next"} /\ X = NextMember(R)
  \/ at = "skipped" /\ X = {}
  \/ at = "close" /\ X = Dot("}", R)
ExpressionStatementLeft(at, R, X) ==
  \/ at = "start" /\ X = Dot("expression", Dot(";", R))
  \/ at = "semicolon" /\ X = Dot(";", R)
BlockLeft(at, R, X) ==
  \/ at = "start" /\ X = Dot("{", Dot("declarations", Dot("}", R)))
  \/ at \in {"loop", "statement done"} /\ X = Dot("declarations", Dot("}", R))
  \/ at = "statement" /\ X = Dot("declaration", Dot("declarations", Dot("}", R)))
  \/ at = "close" /\ X = Dot("}", R)
IfLeft(at, R, X) ==
  \/ at = "start" /\ X = Dot("if", Dot("(", Dot("expression", Dot(")", Dot("block", Dot("alternative", R))))))
  \/ at = "open" /\ X = Dot("(", Dot("expression", Dot(")", Dot("block", Dot("alternative", R)))))
  \/ at = "condition" /\ X = Dot("expression", Dot(")", Dot("block", Dot("alternative", R))))
  \/ at \in {"condition done", "close"} /\ X = Dot(")", Dot("block", Dot("alternative", R)))
  \/ at = "then" /\ X = Dot("block", Dot("alternative", R))
  \/ at \in {"then done", "else?"} /\ X = Dot("alternative", R)
  \/ at = "else" /\ X = Dot("if_statement", R) \cup Dot("block", R)
StatementLeft(at, R, X) ==
  \/ at = "start" /\ X = Dot("statement", R)
StructLeft(at, flag, R, X) ==
  \/ at = "start" /\ ~flag /\ X = Dot("struct", Dot("id", Dot("{", Dot("fields", Dot("}", R)))))
  \/ at = "name" /\ ~flag /\ X = Dot("id", Dot("{", Dot("fields", Dot("}", R))))
  \/ at = "open" /\ ~flag /\ X = Dot("{", Dot("fields", Dot("}", R)))
  \/ at = "loop" /\ ~flag /\ X = Dot("fields", Dot("}", R))
  \/ at = "loop" /\ flag /\ X = MoreFields(R)
  \/ at = "member" /\ X = Dot("id", Dot(":", Dot("field_type", Dot(";", MoreFields(R)))))
  \/ at = "member done" /\ X = MoreFields(R)
  \/ at = "members done" /\ flag /\ X = Dot("}", R)
  \/ at = "members done" /\ ~flag /\ X = {}
  \/ at = "close" /\ X = Dot("}", R)
FieldDeclarationLeft(at, R, X) ==
  \/ at = "start" /\ X = Dot("id", Dot(":", Dot("field_type", Dot(";", R))))
  \/ at = "colon" /\ X = Dot(":", Dot("field_type", Dot(";", R)))
  \/ at = "type" /\ X = Dot("field_type", Dot(";", R))
  \/ at \in {"type done", "semicolon"} /\ X = Dot(";", R)
SynchronizeLeft(at, R, X) ==
  \/ at = "start" /\ R = {} /\ X = {}

Left(fn, at, flag, R, X) ==
  \/ fn = "source" /\ SourceLeft(at, R, X)
  \/ fn = "declaration" /\ DeclarationLeft(at, flag, R, X)
  \/ fn = "attribute" /\ AttributeLeft(at, R, X)
  \/ fn = "variable" /\ VariableLeft(at, R, X)
  \/ fn = "type" /\ TypeLeft(at, flag, R, X)
  \/ fn = "type_name" /\ TypeNameLeft(at, R, X)
  \/ fn = "reference_type" /\ ReferenceTypeLeft(at, flag, R, X)
  \/ fn = "array_type" /\ ArrayTypeLeft(at, flag, R, X)
  \/ fn = "expression" /\ ExpressionLeft(at, R, X)
  \/ fn = "literal" /\ LiteralLeft(at, R, X)
  \/ fn = "cast" /\ CastLeft(at, R, X)
  \/ fn = "array" /\ ArrayLeft(at, R, X)
  \/ fn = "reference" /\ ReferenceLeft(at, R, X)
  \/ fn = "identifier" /\ IdentifierLeft(at, R, X)
  \/ fn = "struct_field" /\ StructFieldLeft(at, R, X)
  \/ fn = "struct_literal" /\ StructLiteralLeft(at, R, X)
  \/ fn = "expression_statement" /\ ExpressionStatementLeft(at, R, X)
  \/ fn = "block" /\ BlockLeft(at, R, X)
  \/ fn = "if" /\ IfLeft(at, R, X)
  \/ fn = "statement" /\ StatementLeft(at, R, X)
  \/ fn = "struct" /\ StructLeft(at, flag, R, X)
  \/ fn = "field_declaration" /\ FieldDeclarationLeft(at, R, X)
  \/ fn = "synchronize" /\ SynchronizeLeft(at, R, X)

\* The name of a struct literal is consumed before the brace is seen, and the block of an if before
\* the else: what comes after these calls must not begin with that token.
Values == {"expression", "reference", "identifier", "struct_field"}
Statements == {"declaration", "statement", "if"}
Fits(fn, R) ==
  /\ R \in Forms /\ (fn # "synchronize" => R # {})
  /\ (fn \in Values => After(R, "{") = {})
  /\ (fn \in Statements => Ends6(R) /\ After(R, "else") = {})

\* The calls of s, the innermost first, have to find X: each what it needs, with what the
\* calls that wait for it need behind it.
Awaits(s, X) ==
  \E r \in [1..(Len(s) + 1) -> Forms] :
    /\ r[1] = X /\ r[Len(s) + 1] = {<<>>}
    /\ \A i \in 1..Len(s) : Fits(s[i].fn, r[i + 1]) /\ Left(s[i].fn, s[i].at, s[i].flag, r[i + 1], r[i])

\* The calls in progress and the grammar agree on what may come next.
Agrees == \E X \in Forms : Awaits(stack, X) /\ After(forms, look) = After(X, look)
Skipping ==
  /\ stack # <<>>
  /\ Top.at = "skipped" \/ (Top.fn = "synchronize" /\ Len(stack) > 1 /\ stack[2].at = "skipped")

\* The table, function by function.
LEMMA LeftIs ==
  ASSUME NEW at, NEW flag, NEW R, NEW X
  PROVE  /\ (Left("source", at, flag, R, X) <=> SourceLeft(at, R, X))
         /\ (Left("declaration", at, flag, R, X) <=> DeclarationLeft(at, flag, R, X))
         /\ (Left("attribute", at, flag, R, X) <=> AttributeLeft(at, R, X))
         /\ (Left("variable", at, flag, R, X) <=> VariableLeft(at, R, X))
         /\ (Left("type", at, flag, R, X) <=> TypeLeft(at, flag, R, X))
         /\ (Left("type_name", at, flag, R, X) <=> TypeNameLeft(at, R, X))
         /\ (Left("reference_type", at, flag, R, X) <=> ReferenceTypeLeft(at, flag, R, X))
         /\ (Left("array_type", at, flag, R, X) <=> ArrayTypeLeft(at, flag, R, X))
         /\ (Left("expression", at, flag, R, X) <=> ExpressionLeft(at, R, X))
         /\ (Left("literal", at, flag, R, X) <=> LiteralLeft(at, R, X))
         /\ (Left("cast", at, flag, R, X) <=> CastLeft(at, R, X))
         /\ (Left("array", at, flag, R, X) <=> ArrayLeft(at, R, X))
         /\ (Left("reference", at, flag, R, X) <=> ReferenceLeft(at, R, X))
         /\ (Left("identifier", at, flag, R, X) <=> IdentifierLeft(at, R, X))
         /\ (Left("struct_field", at, flag, R, X) <=> StructFieldLeft(at, R, X))
         /\ (Left("struct_literal", at, flag, R, X) <=> StructLiteralLeft(at, R, X))
         /\ (Left("expression_statement", at, flag, R, X) <=> ExpressionStatementLeft(at, R, X))
         /\ (Left("block", at, flag, R, X) <=> BlockLeft(at, R, X))
         /\ (Left("if", at, flag, R, X) <=> IfLeft(at, R, X))
         /\ (Left("statement", at, flag, R, X) <=> StatementLeft(at, R, X))
         /\ (Left("struct", at, flag, R, X) <=> StructLeft(at, flag, R, X))
         /\ (Left("field_declaration", at, flag, R, X) <=> FieldDeclarationLeft(at, R, X))
         /\ (Left("synchronize", at, flag, R, X) <=> SynchronizeLeft(at, R, X))
BY DEF Left

\* What a call has to find are forms.
LEMMA LeftForms ==
  ASSUME NEW fn, NEW at, NEW flag, NEW R \in Forms, NEW X, Left(fn, at, flag, R, X)
  PROVE  X \in Forms
<1>a. \A x, Q : Dot(x, Q) \in Forms
  BY FormsKept
<1>b. /\ NextProperty(R) \in Forms /\ MoreElements(R) \in Forms /\ NextElement(R) \in Forms
      /\ NextMember(R) \in Forms /\ MoreFields(R) \in Forms /\ Attributed(R) \in Forms
  BY FormsKept DEF NextProperty, MoreElements, NextElement, NextMember, MoreFields, Attributed
<1>c. /\ {} \in Forms /\ Dot("int", R) \cup Dot("bool", R) \in Forms
      /\ Dot("id", R) \cup Dot("id", Dot("struct_literal", R)) \in Forms
      /\ R \cup Dot("struct_literal", R) \in Forms /\ Dot("if_statement", R) \cup Dot("block", R) \in Forms
      /\ Dot("[", Dot("int", Dot("]", Dot("type", R)))) \cup Dot("[", Dot("]", Dot("type", R))) \in Forms
      /\ Dot("int", Dot("]", Dot("type", R))) \cup Dot("]", Dot("type", R)) \in Forms
  BY FormsKept
<1>1. SourceLeft(at, R, X) => X \in Forms
  BY <1>a, <1>b, <1>c DEF SourceLeft
<1>2. DeclarationLeft(at, flag, R, X) => X \in Forms
  BY <1>a, <1>b, <1>c DEF DeclarationLeft
<1>3. AttributeLeft(at, R, X) => X \in Forms
  BY <1>a, <1>b, <1>c DEF AttributeLeft
<1>4. VariableLeft(at, R, X) => X \in Forms
  BY <1>a, <1>b, <1>c DEF VariableLeft
<1>5. TypeLeft(at, flag, R, X) => X \in Forms
  BY <1>a, <1>b, <1>c DEF TypeLeft
<1>6. TypeNameLeft(at, R, X) => X \in Forms
  BY <1>a, <1>b, <1>c DEF TypeNameLeft
<1>7. ReferenceTypeLeft(at, flag, R, X) => X \in Forms
  BY <1>a, <1>b, <1>c DEF ReferenceTypeLeft
<1>8. ArrayTypeLeft(at, flag, R, X) => X \in Forms
  BY <1>a, <1>b, <1>c DEF ArrayTypeLeft
<1>9. ExpressionLeft(at, R, X) => X \in Forms
  BY <1>a, <1>b, <1>c DEF ExpressionLeft
<1>10. LiteralLeft(at, R, X) => X \in Forms
  BY <1>a, <1>b, <1>c DEF LiteralLeft
<1>11. CastLeft(at, R, X) => X \in Forms
  BY <1>a, <1>b, <1>c DEF CastLeft
<1>12. ArrayLeft(at, R, X) => X \in Forms
  BY <1>a, <1>b, <1>c DEF ArrayLeft
<1>13. ReferenceLeft(at, R, X) => X \in Forms
  BY <1>a, <1>b, <1>c DEF ReferenceLeft
<1>14. IdentifierLeft(at, R, X) => X \in Forms
  BY <1>a, <1>b, <1>c DEF IdentifierLeft
<1>15. StructFieldLeft(at, R, X) => X \in Forms
  BY <1>a, <1>b, <1>c DEF StructFieldLeft
<1>16. StructLiteralLeft(at, R, X) => X \in Forms
  BY <1>a, <1>b, <1>c DEF StructLiteralLeft
<1>17. ExpressionStatementLeft(at, R, X) => X \in Forms
  BY <1>a, <1>b, <1>c DEF ExpressionStatementLeft
<1>18. BlockLeft(at, R, X) => X \in Forms
  BY <1>a, <1>b, <1>c DEF BlockLeft
<1>19. IfLeft(at, R, X) => X \in Forms
  BY <1>a, <1>b, <1>c DEF IfLeft
<1>20. StatementLeft(at, R, X) => X \in Forms
  BY <1>a, <1>b, <1>c DEF StatementLeft
<1>21. StructLeft(at, flag, R, X) => X \in Forms
  BY <1>a, <1>b, <1>c DEF StructLeft
<1>22. FieldDeclarationLeft(at, R, X) => X \in Forms
  BY <1>a, <1>b, <1>c DEF FieldDeclarationLeft
<1>23. SynchronizeLeft(at, R, X) => X \in Forms
  BY <1>a, <1>b, <1>c DEF SynchronizeLeft
<1> QED
  BY <1>1, <1>2, <1>3, <1>4, <1>5, <1>6, <1>7, <1>8, <1>9, <1>10, <1>11, <1>12, <1>13, <1>14, <1>15,
     <1>16, <1>17, <1>18, <1>19, <1>20, <1>21, <1>22, <1>23 DEF Left

\* A call has something to find, except where the parser is about to report an error.
LEMMA LeftSomething ==
  ASSUME NEW fn, NEW at, NEW flag, NEW R \in Forms, R # {}, NEW X, Left(fn, at, flag, R, X),
         fn # "synchronize", at \notin {"skipped", "members done"}
  PROVE  X # {}
<1>0. ASSUME NEW x \in Symbols, NEW Q \in Forms, Q # {} PROVE Dot(x, Q) \in Forms /\ Dot(x, Q) # {}
  BY <1>0, DotNonempty, FormsKept
<1>00. \A x, Q : Dot(x, Q) \in Forms
  BY FormsKept
<1>b. /\ NextProperty(R) # {} /\ MoreElements(R) # {} /\ NextElement(R) # {}
      /\ NextMember(R) # {} /\ MoreFields(R) # {} /\ Attributed(R) # {}
      /\ NextProperty(R) \in Forms /\ MoreElements(R) \in Forms /\ NextElement(R) \in Forms
      /\ NextMember(R) \in Forms /\ MoreFields(R) \in Forms /\ Attributed(R) \in Forms
  <2>1. /\ "]" \in Symbols /\ ")" \in Symbols /\ "}" \in Symbols /\ "variable" \in Symbols /\ "attributes" \in Symbols
    BY SymbolNames
  <2>2. Dot("]", R) # {} /\ Dot(")", Dot("]", R)) # {} /\ Dot("}", R) # {} /\ Dot("attributes", Dot("variable", R)) # {}
    BY <1>0, <2>1
  <2>3. \A A, B : A # {} => A \cup B # {}
    OBVIOUS
  <2>4. \A A, B \in Forms : A \cup B \in Forms
    BY FormsKept
  <2> QED
    BY <1>00, <2>2, <2>3, <2>4 DEF NextProperty, MoreElements, NextElement, NextMember, MoreFields, Attributed
<1>1. SourceLeft(at, R, X) => X # {}
  <2>1. "program" \in Symbols /\ "empty" \in Symbols
    BY SymbolNames
  <2> QED
    BY <1>0, <1>b, <2>1 DEF SourceLeft
<1>2. DeclarationLeft(at, flag, R, X) => X # {}
  <2>1. "declaration" \in Symbols
    BY SymbolNames
  <2> QED
    BY <1>0, <1>b, <2>1 DEF DeclarationLeft
<1>3. AttributeLeft(at, R, X) => X # {}
  <2>1. "#" \in Symbols /\ "[" \in Symbols /\ "id" \in Symbols /\ "arguments" \in Symbols /\ "]" \in Symbols /\ "properties" \in Symbols /\ ")" \in Symbols /\ ":" \in Symbols /\ "expression" \in Symbols
    BY SymbolNames
  <2> QED
    BY <1>0, <1>b, <2>1 DEF AttributeLeft
<1>4. VariableLeft(at, R, X) => X # {}
  <2>1. "var" \in Symbols /\ "id" \in Symbols /\ "hint" \in Symbols /\ "=" \in Symbols /\ "expression" \in Symbols /\ ";" \in Symbols /\ "type" \in Symbols
    BY SymbolNames
  <2> QED
    BY <1>0, <1>b, <2>1 DEF VariableLeft
<1>5. TypeLeft(at, flag, R, X) => X # {}
  <2>1. "type" \in Symbols /\ "field_type" \in Symbols
    BY SymbolNames
  <2> QED
    BY <1>0, <1>b, <2>1 DEF TypeLeft, TypeRule
<1>6. TypeNameLeft(at, R, X) => X # {}
  <2>1. "id" \in Symbols
    BY SymbolNames
  <2> QED
    BY <1>0, <1>b, <2>1 DEF TypeNameLeft
<1>7. ReferenceTypeLeft(at, flag, R, X) => X # {}
  <2>1. "&" \in Symbols /\ "type" \in Symbols /\ "field_type" \in Symbols
    BY SymbolNames
  <2> QED
    BY <1>0, <1>b, <2>1 DEF ReferenceTypeLeft, TypeRule
<1>8. ArrayTypeLeft(at, flag, R, X) => X # {}
  <2>1. "[" \in Symbols /\ "int" \in Symbols /\ "]" \in Symbols /\ "type" \in Symbols /\ "field_type" \in Symbols
    BY SymbolNames
  <2> QED
    BY <1>0, <1>b, <2>1 DEF ArrayTypeLeft, TypeRule
<1>9. ExpressionLeft(at, R, X) => X # {}
  <2>1. "expression" \in Symbols
    BY SymbolNames
  <2> QED
    BY <1>0, <1>b, <2>1 DEF ExpressionLeft
<1>10. LiteralLeft(at, R, X) => X # {}
  <2>1. "int" \in Symbols /\ "bool" \in Symbols
    BY SymbolNames
  <2> QED
    BY <1>0, <1>b, <2>1 DEF LiteralLeft
<1>11. CastLeft(at, R, X) => X # {}
  <2>1. "cast" \in Symbols /\ "(" \in Symbols /\ "expression" \in Symbols /\ "hint" \in Symbols /\ ")" \in Symbols /\ "type" \in Symbols
    BY SymbolNames
  <2> QED
    BY <1>0, <1>b, <2>1 DEF CastLeft
<1>12. ArrayLeft(at, R, X) => X # {}
  <2>1. "[" \in Symbols /\ "expression" \in Symbols /\ "]" \in Symbols
    BY SymbolNames
  <2> QED
    BY <1>0, <1>b, <2>1 DEF ArrayLeft
<1>13. ReferenceLeft(at, R, X) => X # {}
  <2>1. "&" \in Symbols /\ "expression" \in Symbols
    BY SymbolNames
  <2> QED
    BY <1>0, <1>b, <2>1 DEF ReferenceLeft
<1>14. IdentifierLeft(at, R, X) => X # {}
  <2>1. "id" \in Symbols /\ "struct_literal" \in Symbols
    BY SymbolNames
  <2> QED
    BY <1>0, <1>b, <2>1 DEF IdentifierLeft
<1>15. StructFieldLeft(at, R, X) => X # {}
  <2>1. "id" \in Symbols /\ ":" \in Symbols /\ "expression" \in Symbols
    BY SymbolNames
  <2> QED
    BY <1>0, <1>b, <2>1 DEF StructFieldLeft
<1>16. StructLiteralLeft(at, R, X) => X # {}
  <2>1. "{" \in Symbols /\ "members" \in Symbols /\ "}" \in Symbols /\ "id" \in Symbols /\ ":" \in Symbols /\ "expression" \in Symbols
    BY SymbolNames
  <2> QED
    BY <1>0, <1>b, <2>1 DEF StructLiteralLeft
<1>17. ExpressionStatementLeft(at, R, X) => X # {}
  <2>1. "expression" \in Symbols /\ ";" \in Symbols
    BY SymbolNames
  <2> QED
    BY <1>0, <1>b, <2>1 DEF ExpressionStatementLeft
<1>18. BlockLeft(at, R, X) => X # {}
  <2>1. "{" \in Symbols /\ "declarations" \in Symbols /\ "}" \in Symbols /\ "declaration" \in Symbols
    BY SymbolNames
  <2> QED
    BY <1>0, <1>b, <2>1 DEF BlockLeft
<1>19. IfLeft(at, R, X) => X # {}
  <2>1. "if" \in Symbols /\ "(" \in Symbols /\ "expression" \in Symbols /\ ")" \in Symbols /\ "block" \in Symbols /\ "alternative" \in Symbols /\ "if_statement" \in Symbols
    BY SymbolNames
  <2> QED
    BY <1>0, <1>b, <2>1 DEF IfLeft
<1>20. StatementLeft(at, R, X) => X # {}
  <2>1. "statement" \in Symbols
    BY SymbolNames
  <2> QED
    BY <1>0, <1>b, <2>1 DEF StatementLeft
<1>21. StructLeft(at, flag, R, X) => X # {}
  <2>1. "struct" \in Symbols /\ "id" \in Symbols /\ "{" \in Symbols /\ "fields" \in Symbols /\ "}" \in Symbols /\ ":" \in Symbols /\ "field_type" \in Symbols /\ ";" \in Symbols
    BY SymbolNames
  <2> QED
    BY <1>0, <1>b, <2>1 DEF StructLeft
<1>22. FieldDeclarationLeft(at, R, X) => X # {}
  <2>1. "id" \in Symbols /\ ":" \in Symbols /\ "field_type" \in Symbols /\ ";" \in Symbols
    BY SymbolNames
  <2> QED
    BY <1>0, <1>b, <2>1 DEF FieldDeclarationLeft
<1> QED
  BY <1>1, <1>2, <1>3, <1>4, <1>5, <1>6, <1>7, <1>8, <1>9, <1>10, <1>11, <1>12, <1>13, <1>14, <1>15,
     <1>16, <1>17, <1>18, <1>19, <1>20, <1>21, <1>22 DEF Left

-----------------------------------------------------------------------------
\* When no call is in progress the source must have been read.
LEMMA AwaitsNothing ==
  ASSUME NEW X
  PROVE  Awaits(<<>>, X) <=> X = {<<>>}
<1>1. Len(<<>>) = 0 /\ 0 + 1 = 1 /\ 1..0 = {} /\ 1 \in 1..1
  OBVIOUS
<1>2. ASSUME X = {<<>>} PROVE Awaits(<<>>, X)
  <2>1. PICK r : r = [i \in 1..1 |-> X]
    OBVIOUS
  <2>2. r \in [1..1 -> Forms] /\ r[1] = X
    BY <1>2, <2>1, FormsKept
  <2> QED
    BY <1>1, <1>2, <2>2 DEF Awaits
<1> QED
  BY <1>1, <1>2 DEF Awaits

\* The calls behind the one on top, and in front of others.
LEMMA FrontFrames ==
  ASSUME NEW s \in Seq(Frames)
  PROVE  /\ s # <<>> => Tail(s) \in Seq(Frames) /\ s[1] \in Frames
         /\ \A f : <<f>> \o s \in Seq(Frames) => f \in Frames
         /\ \A f, g : <<f, g>> \o s \in Seq(Frames) => f \in Frames /\ g \in Frames
         /\ \A f, g \in Frames : <<f>> \o (<<g>> \o s) = <<f, g>> \o s /\ <<g>> \o s \in Seq(Frames)
<1>1. s # <<>> => Tail(s) \in Seq(Frames) /\ s[1] \in Frames
  OBVIOUS
<1>2. ASSUME NEW f, <<f>> \o s \in Seq(Frames) PROVE f \in Frames
  <2>1. (<<f>> \o s)[1] = f /\ 1 \in 1..Len(<<f>> \o s)
    OBVIOUS
  <2> QED
    BY <1>2, <2>1
<1>3. ASSUME NEW f, NEW g, <<f, g>> \o s \in Seq(Frames) PROVE f \in Frames /\ g \in Frames
  <2>1. (<<f, g>> \o s)[1] = f /\ (<<f, g>> \o s)[2] = g /\ {1, 2} \subseteq 1..Len(<<f, g>> \o s)
    OBVIOUS
  <2> QED
    BY <1>3, <2>1
<1>4. ASSUME NEW f \in Frames, NEW g \in Frames
      PROVE  <<f>> \o (<<g>> \o s) = <<f, g>> \o s /\ <<g>> \o s \in Seq(Frames)
  <2>1. PICK a, b, p : a = <<g>> \o s /\ b = <<f>> \o a /\ p = <<f, g>> \o s
    OBVIOUS
  <2>2. a \in Seq(Frames) /\ Len(a) = Len(s) + 1 /\ a[1] = g /\ \A i \in 1..Len(s) : a[i + 1] = s[i]
    BY <2>1
  <2>3. b \in Seq(Frames) /\ Len(b) = Len(s) + 2 /\ b[1] = f /\ \A i \in 1..Len(s) + 1 : b[i + 1] = a[i]
    BY <2>1, <2>2
  <2>4. p \in Seq(Frames) /\ Len(p) = Len(s) + 2 /\ p[1] = f /\ p[2] = g /\ \A i \in 1..Len(s) : p[i + 2] = s[i]
    BY <2>1
  <2>5. ASSUME NEW i \in 1..Len(s) + 2 PROVE p[i] = b[i]
    <3>1. i = 1 \/ i = 2 \/ \E j \in 1..Len(s) : i = j + 2
      <4>1. Len(s) \in Nat
        OBVIOUS
      <4>2. i \in Nat /\ i >= 1 /\ i <= Len(s) + 2 /\ (i # 1 /\ i # 2 => i - 2 \in 1..Len(s) /\ i = (i - 2) + 2)
        BY <4>1
      <4> QED
        BY <4>2
    <3>2. ASSUME NEW j \in 1..Len(s), i = j + 2 PROVE p[i] = b[i]
      <4>1. j + 1 \in 1..Len(s) + 1 /\ (j + 1) + 1 = j + 2
        OBVIOUS
      <4>2. b[(j + 1) + 1] = a[j + 1] /\ a[j + 1] = s[j] /\ p[j + 2] = s[j]
        BY <2>2, <2>3, <2>4, <4>1
      <4> QED
        BY <3>2, <4>1, <4>2
    <3>3. b[1] = f /\ b[2] = g
      <4>1. 1 \in 1..Len(s) + 1 /\ 1 + 1 = 2
        OBVIOUS
      <4> QED
        BY <2>2, <2>3, <4>1
    <3> QED
      BY <2>4, <3>1, <3>2, <3>3
  <2>6. p = [i \in 1..Len(s) + 2 |-> p[i]] /\ b = [i \in 1..Len(s) + 2 |-> b[i]]
    BY <2>3, <2>4
  <2>7. p = b
    BY <2>5, <2>6
  <2> QED
    BY <2>1, <2>2, <2>7
<1> QED
  BY <1>1, <1>2, <1>3, <1>4

\* A call in front of others: it has to find what it needs with what they need behind it.
LEMMA AwaitsMore ==
  ASSUME NEW s \in Seq(Frames), NEW f \in Frames, NEW R \in Forms, Awaits(s, R), Fits(f.fn, R),
         NEW X, Left(f.fn, f.at, f.flag, R, X)
  PROVE  Awaits(<<f>> \o s, X) /\ X \in Forms
<1>1. X \in Forms
  BY LeftForms
<1>2. PICK n \in Nat : n = Len(s)
  OBVIOUS
<1>3. PICK r \in [1..(n + 1) -> Forms] :
        /\ r[1] = R /\ r[n + 1] = {<<>>}
        /\ \A i \in 1..n : Fits(s[i].fn, r[i + 1]) /\ Left(s[i].fn, s[i].at, s[i].flag, r[i + 1], r[i])
  BY <1>2 DEF Awaits
<1>4. PICK q : q = [i \in 1..(n + 2) |-> IF i = 1 THEN X ELSE r[i - 1]]
  OBVIOUS
<1>5. q \in [1..(n + 2) -> Forms] /\ q[1] = X /\ \A i \in 1..(n + 1) : q[i + 1] = r[i]
  BY <1>1, <1>4
<1>6. PICK t : t = <<f>> \o s
  OBVIOUS
<1>7. Len(t) = n + 1 /\ t[1] = f /\ \A i \in 1..n : t[i + 1] = s[i]
  BY <1>2, <1>6
<1>8. ASSUME NEW i \in 1..(n + 1)
      PROVE  Fits(t[i].fn, q[i + 1]) /\ Left(t[i].fn, t[i].at, t[i].flag, q[i + 1], q[i])
  <2>1. CASE i = 1
    BY <2>1, <1>3, <1>5, <1>7
  <2>2. CASE i # 1
    <3>1. PICK j \in 1..n : i = j + 1
      BY <2>2
    <3>2. q[j + 1] = r[j] /\ q[i + 1] = r[j + 1] /\ t[i] = s[j]
      BY <3>1, <1>5, <1>7
    <3> QED
      BY <3>1, <3>2, <1>3, Zenon
  <2> QED
    BY <2>1, <2>2
<1>9. q[(n + 1) + 1] = {<<>>} /\ (n + 1) + 1 = n + 2
  BY <1>3, <1>5
<1>10. Awaits(t, X)
  BY <1>5, <1>7, <1>8, <1>9 DEF Awaits
<1> QED
  BY <1>1, <1>6, <1>10

\* And the other way: what the call on top needs, and what comes after it.
LEMMA AwaitsTop ==
  ASSUME NEW s \in Seq(Frames), s # <<>>, NEW X, Awaits(s, X)
  PROVE  \E R \in Forms : Awaits(Tail(s), R) /\ Fits(s[1].fn, R) /\ Left(s[1].fn, s[1].at, s[1].flag, R, X)
<1>1. PICK n \in Nat : n + 1 = Len(s)
  <2>1. Len(s) \in Nat /\ Len(s) # 0
    OBVIOUS
  <2>2. \A m \in Nat : m # 0 => \E n \in Nat : n + 1 = m
    <3>1. \A m \in Nat : m # 0 => m - 1 \in Nat /\ (m - 1) + 1 = m
      OBVIOUS
    <3> QED
      BY <3>1
  <2> QED
    BY <2>1, <2>2
<1>2. PICK r \in [1..(n + 2) -> Forms] :
        /\ r[1] = X /\ r[n + 2] = {<<>>}
        /\ \A i \in 1..(n + 1) : Fits(s[i].fn, r[i + 1]) /\ Left(s[i].fn, s[i].at, s[i].flag, r[i + 1], r[i])
  <2>1. (n + 1) + 1 = n + 2
    OBVIOUS
  <2> QED
    BY <1>1, <2>1 DEF Awaits
<1>3. PICK t : t = Tail(s)
  OBVIOUS
<1>4. Len(t) = n /\ \A i \in 1..n : t[i] = s[i + 1]
  BY <1>1, <1>3
<1>5. PICK q : q = [i \in 1..(n + 1) |-> r[i + 1]]
  OBVIOUS
<1>6. q \in [1..(n + 1) -> Forms] /\ q[1] = r[2] /\ q[n + 1] = {<<>>} /\ \A i \in 1..(n + 1) : q[i] = r[i + 1]
  BY <1>2, <1>5
<1>7. ASSUME NEW i \in 1..n
      PROVE  Fits(t[i].fn, q[i + 1]) /\ Left(t[i].fn, t[i].at, t[i].flag, q[i + 1], q[i])
  <2>1. PICK j \in 1..(n + 1) : j = i + 1
    OBVIOUS
  <2>2. t[i] = s[j] /\ q[i + 1] = r[j + 1] /\ q[i] = r[j]
    BY <2>1, <1>4, <1>6
  <2> QED
    BY <2>2, <1>2, Zenon
<1>8. Awaits(t, q[1])
  BY <1>4, <1>6, <1>7 DEF Awaits
<1>9. q[1] \in Forms /\ Fits(s[1].fn, q[1]) /\ Left(s[1].fn, s[1].at, s[1].flag, q[1], X)
  BY <1>2, <1>6
<1> QED
  BY <1>3, <1>8, <1>9

-----------------------------------------------------------------------------
\* What a step may do: report an error where nothing can come, or keep the calls in agreement
\* with the grammar; and what it starts from.
Faithful ==
  \/ failed' /\ After(forms, look) = {}
  \/ ~failed' /\ Agrees' /\ (forms' # {} \/ Skipping')

\* No error was met; and what the call on top has to find lets the same come next
\* as the forms the grammar still allows.
Running == DepthInv /\ forms \in Forms /\ failed = FALSE /\ (forms # {} \/ Skipping) /\ NullMeansError
Going(R, X) ==
  /\ Awaits(Tail(stack), R) /\ Fits(Top.fn, R) /\ Left(Top.fn, Top.at, Top.flag, R, X)
  /\ After(forms, look) = After(X, look)

\* Where the parser is not skipping the grammar allows something.
LEMMA NotSkipping ==
  ASSUME Running, NEW fn, NEW point, At(fn, point), fn # "synchronize", point # "skipped"
  PROVE  forms # {} /\ stack # <<>> /\ Top.fn = fn /\ Top.at = point /\ stack \in Seq(Frames) /\ Tail(stack) \in Seq(Frames)
<1>1. forms # {} /\ stack # <<>> /\ Top.fn = fn /\ Top.at = point
  BY DEF Running, Skipping, At
<1>2. stack \in Seq(Frames)
  BY DEF Running, DepthInv
<1> QED
  BY <1>1, <1>2

\* Reading a token that may come.
LEMMA Reading ==
  ASSUME ~Documented, Running, Consume, look # Eof, NEW Y, After(forms, look) = Y
  PROVE  forms' = Y
<1>1. forms' = Derive(forms, look)
  BY DEF Consume
<1> QED
  BY <1>1, AfterIs DEF Running

\* Another point of the call on top, or another call in its place.
LEMMA Moves ==
  ASSUME ~Documented, Running, DepthInv', stack # <<>>, forms # {}, NEW R \in Forms, NEW X, Going(R, X),
         NEW frame, stack' = <<frame>> \o Tail(stack), Fits(frame.fn, R),
         NEW Y, Left(frame.fn, frame.at, frame.flag, R, Y), failed' = failed,
         \/ UNCHANGED source /\ After(X, look) = After(Y, look)
         \/ /\ Consume /\ look # Eof /\ After(X, look) = Y
            /\ frame.fn # "synchronize" /\ frame.at \notin {"skipped", "members done"}
  PROVE  Faithful
<1>1. Tail(stack) \in Seq(Frames) /\ frame \in Frames
  <2>1. stack \in Seq(Frames) /\ stack' \in Seq(Frames)
    BY DEF Running, DepthInv
  <2> QED
    BY <2>1, FrontFrames
<1>2. Awaits(stack', Y) /\ Y \in Forms
  BY <1>1, AwaitsMore DEF Going
<1>3. forms' # {} /\ After(forms', look') = After(Y, look')
  <2>1. CASE UNCHANGED source /\ After(X, look) = After(Y, look)
    BY <2>1 DEF source, Going
  <2>2. CASE /\ Consume /\ look # Eof /\ After(X, look) = Y
             /\ frame.fn # "synchronize" /\ frame.at \notin {"skipped", "members done"}
    <3>1. forms' = Y
      BY <2>2, Reading DEF Going
    <3>2. R # {}
      BY <2>2 DEF Fits
    <3>3. Y # {}
      BY <2>2, <3>2, LeftSomething
    <3> QED
      BY <3>1, <3>3
  <2> QED
    BY <2>1, <2>2
<1>4. ~failed'
  BY DEF Running
<1> QED
  BY <1>2, <1>3, <1>4 DEF Faithful, Agrees

\* The call on top returns.
LEMMA Returns ==
  ASSUME ~Documented, Running, stack # <<>>, forms # {}, NEW R \in Forms, NEW X, Going(R, X), Top.fn # "synchronize",
         stack' = Tail(stack), failed' = failed,
         \/ UNCHANGED source /\ After(X, look) = After(R, look)
         \/ Consume /\ look # Eof /\ After(X, look) = R
  PROVE  Faithful
<1>1. Awaits(stack', R) /\ R # {}
  BY DEF Going, Fits
<1>2. forms' # {} /\ After(forms', look') = After(R, look')
  <2>1. CASE UNCHANGED source /\ After(X, look) = After(R, look)
    BY <2>1 DEF source, Going
  <2>2. CASE Consume /\ look # Eof /\ After(X, look) = R
    BY <1>1, <2>2, Reading DEF Going
  <2> QED
    BY <2>1, <2>2
<1>3. ~failed'
  BY DEF Running
<1> QED
  BY <1>1, <1>2, <1>3 DEF Faithful, Agrees

\* The call on top makes a call.
LEMMA Enters ==
  ASSUME ~Documented, Running, DepthInv', stack # <<>>, forms # {}, NEW R \in Forms, NEW X, Going(R, X),
         NEW callee, NEW caller, stack' = <<callee, caller>> \o Tail(stack),
         Fits(caller.fn, R), NEW Y, Left(caller.fn, caller.at, caller.flag, R, Y),
         Fits(callee.fn, Y), NEW Z, Left(callee.fn, callee.at, callee.flag, Y, Z),
         UNCHANGED source, failed' = failed, After(X, look) = After(Z, look)
  PROVE  Faithful
<1>1. Tail(stack) \in Seq(Frames) /\ caller \in Frames /\ callee \in Frames
  <2>1. stack \in Seq(Frames) /\ stack' \in Seq(Frames)
    BY DEF Running, DepthInv
  <2> QED
    BY <2>1, FrontFrames
<1>2. Awaits(<<caller>> \o Tail(stack), Y) /\ Y \in Forms
  BY <1>1, AwaitsMore DEF Going
<1>3. <<caller>> \o Tail(stack) \in Seq(Frames)
  BY <1>1, FrontFrames
<1>4. Awaits(<<callee>> \o (<<caller>> \o Tail(stack)), Z) /\ Z \in Forms
  BY <1>1, <1>2, <1>3, AwaitsMore
<1>5. <<callee>> \o (<<caller>> \o Tail(stack)) = stack'
  BY <1>1, FrontFrames
<1>6. forms' # {} /\ After(forms', look') = After(Z, look') /\ ~failed'
  BY DEF source, Going, Running
<1> QED
  BY <1>4, <1>5, <1>6 DEF Faithful, Agrees

\* The call on top goes on at another point of its function.
LEMMA GotoFaithful ==
  ASSUME ~Documented, Running, DepthInv', NEW fn, NEW point, At(fn, point), fn # "synchronize", point # "skipped",
         NEW R \in Forms, NEW X, Going(R, X), NEW next, NEW flag, (Goto(next) /\ flag = Top.flag) \/ GotoFlag(next, flag),
         NEW Y, Left(fn, next, flag, R, Y), failed' = failed,
         \/ UNCHANGED source /\ After(X, look) = After(Y, look)
         \/ Consume /\ look # Eof /\ After(X, look) = Y /\ next \notin {"skipped", "members done"}
  PROVE  Faithful
<1>1. forms # {} /\ stack # <<>> /\ Top.fn = fn /\ Top.at = point
  BY NotSkipping
<1>2. Top \in Frames
  BY <1>1, TopFrame DEF Running
<1>3. PICK frame : /\ stack' = <<frame>> \o Tail(stack)
                   /\ frame.fn = fn /\ frame.at = next /\ frame.flag = flag
  <2>1. CASE Goto(next) /\ flag = Top.flag
    <3>1. /\ [Top EXCEPT !.at = next].fn = fn /\ [Top EXCEPT !.at = next].at = next
          /\ [Top EXCEPT !.at = next].flag = Top.flag
      BY <1>1, <1>2 DEF Frames
    <3> QED
      BY <2>1, <3>1 DEF Goto
  <2>2. CASE GotoFlag(next, flag)
    <3>1. /\ [Top EXCEPT !.at = next, !.flag = flag].fn = fn
          /\ [Top EXCEPT !.at = next, !.flag = flag].at = next
          /\ [Top EXCEPT !.at = next, !.flag = flag].flag = flag
      BY <1>1, <1>2 DEF Frames
    <3> QED
      BY <2>2, <3>1 DEF GotoFlag
  <2> QED
    BY <2>1, <2>2
<1>4. Fits(frame.fn, R) /\ Left(frame.fn, frame.at, frame.flag, R, Y)
  BY <1>1, <1>3 DEF Going
<1>5. \/ UNCHANGED source /\ After(X, look) = After(Y, look)
      \/ /\ Consume /\ look # Eof /\ After(X, look) = Y
         /\ frame.fn # "synchronize" /\ frame.at \notin {"skipped", "members done"}
  BY <1>3
<1> QED
  BY <1>1, <1>3, <1>4, <1>5, Moves

\* Another call takes the place of the one on top.
LEMMA BecomeFaithful ==
  ASSUME ~Documented, Running, DepthInv', NEW fn, NEW point, At(fn, point), fn # "synchronize", point # "skipped",
         NEW R \in Forms, NEW X, Going(R, X), NEW new, NEW flag, Become(Frame(new, flag)), Fits(new, R),
         NEW Y, Left(new, "start", flag, R, Y), failed' = failed, UNCHANGED source, After(X, look) = After(Y, look)
  PROVE  Faithful
<1>1. forms # {} /\ stack # <<>>
  BY NotSkipping
<1>2. PICK frame : frame = Frame(new, flag)
  OBVIOUS
<1>3. frame.fn = new /\ frame.at = "start" /\ frame.flag = flag
  BY <1>2 DEF Frame
<1>4. stack' = <<frame>> \o Tail(stack)
  BY <1>2 DEF Become
<1>5. Fits(frame.fn, R) /\ Left(frame.fn, frame.at, frame.flag, R, Y)
  BY <1>3
<1> QED
  BY <1>1, <1>4, <1>5, Moves

\* The call on top makes a call: what the callee has to find, and what comes after it.
LEMMA CallFaithful ==
  ASSUME ~Documented, Running, DepthInv', NEW fn, NEW point, At(fn, point), fn # "synchronize", point # "skipped",
         NEW R \in Forms, NEW X, Going(R, X), NEW callee, NEW flag, NEW called, Call(Frame(callee, flag), called),
         NEW Y, Left(fn, called, Top.flag, R, Y), Fits(callee, Y), NEW Z, Left(callee, "start", flag, Y, Z),
         failed' = failed, UNCHANGED source, After(X, look) = After(Z, look)
  PROVE  Faithful
<1>1. forms # {} /\ stack # <<>> /\ Top.fn = fn
  BY NotSkipping
<1>2. PICK frame : frame = Frame(callee, flag)
  OBVIOUS
<1>3. frame.fn = callee /\ frame.at = "start" /\ frame.flag = flag
  BY <1>2 DEF Frame
<1>4. PICK caller : caller = [Top EXCEPT !.at = called]
  OBVIOUS
<1>5. caller.fn = fn /\ caller.at = called /\ caller.flag = Top.flag
  <2>1. Top \in Frames
    BY TopFrame DEF Running
  <2> QED
    BY <1>1, <1>4, <2>1 DEF Frames
<1>6. stack' = <<frame, caller>> \o Tail(stack)
  BY <1>2, <1>4 DEF Call
<1>7. /\ Fits(caller.fn, R) /\ Left(caller.fn, caller.at, caller.flag, R, Y)
      /\ Fits(frame.fn, Y) /\ Left(frame.fn, frame.at, frame.flag, Y, Z)
  BY <1>1, <1>3, <1>5 DEF Going
<1> QED
  BY <1>1, <1>6, <1>7, Enters

\* The call on top returns: nothing is left of what it needs.
LEMMA ReturnFaithful ==
  ASSUME ~Documented, Running, NEW fn, NEW point, At(fn, point), fn # "synchronize", point # "skipped",
         NEW R \in Forms, NEW X, Going(R, X), NEW r, Return(r), failed' = failed,
         \/ UNCHANGED source /\ After(X, look) = After(R, look)
         \/ Consume /\ look # Eof /\ After(X, look) = R
  PROVE  Faithful
<1>1. forms # {} /\ stack # <<>> /\ Top.fn = fn
  BY NotSkipping
<1>2. stack' = Tail(stack)
  BY DEF Return
<1> QED
  BY <1>1, <1>2, Returns

\* An error is reported only where nothing can come.
LEMMA ReportFaithful ==
  ASSUME NEW R, NEW X, Going(R, X), failed', After(X, look) = {}
  PROVE  Faithful
BY DEF Going, Faithful

\* A required token: what a call has to find, and where it goes on.
TokenNext(fn, point, t, next, flag, R, X, Y) ==
  /\ Expect(fn, point, t, next) /\ t \in Tokens /\ t # "int" /\ fn # "synchronize" /\ point # "skipped"
  /\ (look = t => After(X, look) = Y) /\ (look # t => After(X, look) = {})
  /\ next = "end" => Y = R
  /\ next # "end" => Left(fn, next, flag, R, Y) /\ next \notin {"skipped", "members done"}

\* A required token.
LEMMA ExpectFaithful ==
  ASSUME ~Documented, Running, DepthInv', NEW R \in Forms, NEW X, Going(R, X),
         NEW fn, NEW point, NEW t, NEW next, NEW Y, TokenNext(fn, point, t, next, Top.flag, R, X, Y)
  PROVE  Faithful
<1>1. At(fn, point) /\ fn # "synchronize" /\ point # "skipped" /\ t \in Tokens
  BY DEF Expect, TokenNext
<1>2. CASE Is(t) /\ Consume /\ Continue(next) /\ UNCHANGED failed
  <2>1. look = t /\ look # Eof /\ After(X, look) = Y
    BY <1>1, <1>2, KnownToken DEF Is, TokenNext
  <2>2. CASE next = "end"
    <3>1. Return("node") /\ After(X, look) = R
      BY <1>2, <2>1, <2>2 DEF Continue, TokenNext
    <3> QED
      BY <1>1, <1>2, <2>1, <3>1, ReturnFaithful
  <2>3. CASE next # "end"
    <3>1. Goto(next) /\ Left(fn, next, Top.flag, R, Y) /\ next \notin {"skipped", "members done"}
      BY <1>2, <2>3 DEF Continue, TokenNext
    <3> QED
      BY <1>1, <1>2, <2>1, <3>1, GotoFaithful
  <2> QED
    BY <2>2, <2>3
<1>3. CASE ~Is(t) /\ Report
  <2>1. After(X, look) = {}
    BY <1>3 DEF Is, TokenNext
  <2> QED
    BY <1>3, <2>1, ReportFaithful DEF Report
<1> QED
  BY <1>2, <1>3 DEF Expect, TokenNext

\* What a call at a point has to find.
LEMMA PointLeft ==
  ASSUME NEW R, NEW X, Going(R, X), NEW fn, NEW point, At(fn, point)
  PROVE  Left(fn, point, Top.flag, R, X) /\ Fits(fn, R)
BY DEF Going, At

\* A required token at the front of what a call has to find.
TokenFirst(fn, point, t, next, flag, R, X, Y) ==
  /\ Expect(fn, point, t, next) /\ t \in Tokens /\ t # "int" /\ fn # "synchronize" /\ point # "skipped"
  /\ Left(fn, point, flag, R, X) => X = Dot(t, Y)
  /\ next = "end" => Y = R
  /\ next # "end" => Left(fn, next, flag, R, Y) /\ next \notin {"skipped", "members done"}

\* Such a token is read or reported.
LEMMA TokenFaithful ==
  ASSUME ~Documented, Running, DepthInv', NEW R \in Forms, NEW X, Going(R, X),
         NEW fn, NEW point, NEW t, NEW next, NEW Y, TokenFirst(fn, point, t, next, Top.flag, R, X, Y)
  PROVE  Faithful
<1>1. At(fn, point) /\ t \in Tokens
  BY DEF Expect, TokenFirst
<1>2. X = Dot(t, Y)
  BY <1>1, PointLeft DEF TokenFirst
<1>3. Y \in Forms
  BY LeftForms DEF TokenFirst
<1>4. (look = t => After(X, look) = Y) /\ (look # t => After(X, look) = {})
  BY <1>1, <1>2, <1>3, AfterToken
<1>5. TokenNext(fn, point, t, next, Top.flag, R, X, Y)
  BY <1>4 DEF TokenFirst, TokenNext
<1> QED
  BY <1>5, ExpectFaithful

\* A call whose failure is passed on: what the caller has to find, and the callee before it.
ChildFirst(fn, point, callee, arg, called, next, flag, R, X, Y, Z) ==
  /\ Child(fn, point, Frame(callee, arg), called, next)
  /\ fn # "synchronize" /\ point # "skipped" /\ callee # "synchronize" /\ called \notin {"skipped", "members done"}
  /\ Left(fn, called, flag, R, Y) /\ Left(callee, "start", arg, Y, Z)
  /\ callee \in Values => After(Y, "{") = {}
  /\ callee \in Statements => Ends6(Y) /\ After(Y, "else") = {}
  /\ Left(fn, point, flag, R, X) => After(X, look) = After(Z, look)
  /\ Left(fn, called, flag, R, X) => (next = "end" => X = R) /\ (next # "end" => Left(fn, next, flag, R, X))

\* There is no failure before an error.
LEMMA ChildFaithful ==
  ASSUME ~Documented, Running, DepthInv', NEW R \in Forms, NEW X, Going(R, X),
         NEW fn, NEW point, NEW callee, NEW arg, NEW called, NEW next, NEW Y, NEW Z,
         ChildFirst(fn, point, callee, arg, called, next, Top.flag, R, X, Y, Z)
  PROVE  Faithful
<1>0. fn # "synchronize" /\ point # "skipped" /\ callee # "synchronize" /\ called \notin {"skipped", "members done"}
  BY DEF ChildFirst
<1>1. CASE At(fn, point) /\ Call(Frame(callee, arg), called) /\ Quiet
  <2>1. Left(fn, called, Top.flag, R, Y) /\ Left(callee, "start", arg, Y, Z)
    BY DEF ChildFirst
  <2>2. Fits(fn, R) /\ After(X, look) = After(Z, look)
    BY <1>1, PointLeft DEF ChildFirst
  <2>3. Y \in Forms /\ Y # {}
    BY <1>0, <2>1, <2>2, LeftForms, LeftSomething DEF Fits
  <2>4. Fits(callee, Y)
    BY <2>3 DEF Fits, ChildFirst
  <2> QED
    BY <1>0, <1>1, <2>1, <2>2, <2>4, CallFaithful DEF Quiet
<1>2. CASE At(fn, called) /\ (IF ret = "null" THEN Return("null") ELSE Continue(next)) /\ Quiet
  <2>1. Continue(next) /\ UNCHANGED source /\ failed' = failed
    BY <1>2 DEF Running, NullMeansError, Quiet
  <2>2. Left(fn, called, Top.flag, R, X)
    BY <1>2, PointLeft
  <2>3. CASE next = "end"
    <3>1. Return("node") /\ X = R
      BY <2>1, <2>2, <2>3 DEF Continue, ChildFirst
    <3> QED
      BY <1>0, <1>2, <2>1, <3>1, ReturnFaithful
  <2>4. CASE next # "end"
    <3>1. Goto(next) /\ Left(fn, next, Top.flag, R, X)
      BY <2>1, <2>2, <2>4 DEF Continue, ChildFirst
    <3> QED
      BY <1>0, <1>2, <2>1, <3>1, GotoFaithful
  <2> QED
    BY <2>3, <2>4
<1> QED
  BY <1>1, <1>2 DEF Child, ChildFirst

\* An optional token: what is left to find with and without it.
OptionFirst(fn, point, t, with, without, flag, R, X, Y, Z) ==
  /\ Option(fn, point, t, with, without) /\ t \in Tokens /\ t # "int"
  /\ fn # "synchronize" /\ point # "skipped" /\ with \notin {"skipped", "members done"}
  /\ look = t => Left(fn, with, flag, R, Y) /\ After(X, look) = Y
  /\ look # t => Left(fn, without, flag, R, Z) /\ After(X, look) = After(Z, look)

\* It is read when it is there.
LEMMA OptionFaithful ==
  ASSUME ~Documented, Running, DepthInv', NEW R \in Forms, NEW X, Going(R, X),
         NEW fn, NEW point, NEW t, NEW with, NEW without, NEW Y, NEW Z,
         OptionFirst(fn, point, t, with, without, Top.flag, R, X, Y, Z)
  PROVE  Faithful
<1>1. /\ At(fn, point) /\ failed' = failed /\ t \in Tokens /\ t # "int"
      /\ fn # "synchronize" /\ point # "skipped" /\ with \notin {"skipped", "members done"}
  BY DEF Option, OptionFirst
<1>2. CASE Is(t)
  <2>1. look = t /\ look # Eof /\ Consume /\ Goto(with)
    BY <1>1, <1>2, KnownToken DEF Is, Option, OptionFirst
  <2>2. Left(fn, with, Top.flag, R, Y) /\ After(X, look) = Y
    BY <2>1 DEF OptionFirst
  <2> QED
    BY <1>1, <2>1, <2>2, GotoFaithful
<1>3. CASE ~Is(t)
  <2>1. look # t /\ UNCHANGED source /\ Goto(without)
    BY <1>3 DEF Is, Option, OptionFirst
  <2>2. Left(fn, without, Top.flag, R, Z) /\ After(X, look) = After(Z, look)
    BY <2>1 DEF OptionFirst
  <2> QED
    BY <1>1, <2>1, <2>2, GotoFaithful
<1> QED
  BY <1>2, <1>3

\* A test of what comes next: what is left to find either way.
TestFirst(fn, point, condition, yes, no, flag, R, X, Y, Z) ==
  /\ Test(fn, point, condition, yes, no) /\ fn # "synchronize" /\ point # "skipped"
  /\ condition => Left(fn, yes, flag, R, Y) /\ After(X, look) = After(Y, look)
  /\ ~condition => Left(fn, no, flag, R, Z) /\ After(X, look) = After(Z, look)

\* Nothing is read by it.
LEMMA TestFaithful ==
  ASSUME ~Documented, Running, DepthInv', NEW R \in Forms, NEW X, Going(R, X),
         NEW fn, NEW point, NEW condition, NEW yes, NEW no, NEW Y, NEW Z,
         TestFirst(fn, point, condition, yes, no, Top.flag, R, X, Y, Z)
  PROVE  Faithful
<1>1. At(fn, point) /\ UNCHANGED source /\ failed' = failed /\ fn # "synchronize" /\ point # "skipped"
  BY DEF Test, TestFirst, Quiet
<1>2. CASE condition
  <2>1. Goto(yes) /\ Left(fn, yes, Top.flag, R, Y) /\ After(X, look) = After(Y, look)
    BY <1>2 DEF Test, TestFirst
  <2> QED
    BY <1>1, <2>1, GotoFaithful
<1>3. CASE ~condition
  <2>1. Goto(no) /\ Left(fn, no, Top.flag, R, Z) /\ After(X, look) = After(Z, look)
    BY <1>3 DEF Test, TestFirst
  <2> QED
    BY <1>1, <2>1, GotoFaithful
<1> QED
  BY <1>2, <1>3

\* An optional hint, before the token x.
LEMMA OptionalHint ==
  ASSUME ~Documented, NEW x \in Tokens, x # ":", NEW Q \in Forms, NEW t
  PROVE  /\ (t = ":" => After(Dot("hint", Dot(x, Q)), t) = Dot("type", Dot(x, Q)))
         /\ (t # ":" => After(Dot("hint", Dot(x, Q)), t) = After(Dot(x, Q), t))
<1>1. After(Dot(x, Q), t) = IF t = x THEN Q ELSE {}
  BY AfterToken
<1>2. /\ (t = ":" => After(Dot("hint", Dot(x, Q)), t) = Dot("type", Dot(x, Q)))
      /\ (t = x => After(Dot("hint", Dot(x, Q)), t) = Q)
      /\ (t \notin {":", x} => After(Dot("hint", Dot(x, Q)), t) = {})
  BY HintRow
<1> QED
  BY <1>1, <1>2

\* What comes before a token other than the brace does not begin with the brace.
LEMMA NoBrace ==
  ASSUME ~Documented, NEW x \in Tokens, x \notin {":", "{"}, NEW Q \in Forms
  PROVE  After(Dot(x, Q), "{") = {} /\ After(Dot("hint", Dot(x, Q)), "{") = {}
<1>1. "{" \notin {":", x} /\ x # ":"
  OBVIOUS
<1>2. After(Dot("hint", Dot(x, Q)), "{") = {}
  BY <1>1, HintRow
<1> QED
  BY <1>1, <1>2, AfterToken

\* ParseCast: the hint is optional.
LEMMA ParseCastFaithful ==
  ASSUME ~Documented, Running, DepthInv', NEW R \in Forms, NEW X, Going(R, X), ParseCast
  PROVE  Faithful
<1>1. CASE Expect("cast", "start", "cast", "open")
  <2>1. PICK Y : Y = Dot("(", Dot("expression", Dot("hint", Dot(")", R))))
    OBVIOUS
  <2>2. /\ Left("cast", "start", Top.flag, R, X) => X = Dot("cast", Y)
        /\ Left("cast", "open", Top.flag, R, Y)
    BY <2>1 DEF Left, CastLeft
  <2>3. "cast" \in Tokens
    BY TokenNames
  <2>4. TokenFirst("cast", "start", "cast", "open", Top.flag, R, X, Y)
    BY <1>1, <2>2, <2>3 DEF TokenFirst
  <2> QED
    BY <2>4, TokenFaithful
<1>2. CASE Expect("cast", "open", "(", "operand")
  <2>1. PICK Y : Y = Dot("expression", Dot("hint", Dot(")", R)))
    OBVIOUS
  <2>2. /\ Left("cast", "open", Top.flag, R, X) => X = Dot("(", Y)
        /\ Left("cast", "operand", Top.flag, R, Y)
    BY <2>1 DEF Left, CastLeft
  <2>3. "(" \in Tokens
    BY TokenNames
  <2>4. TokenFirst("cast", "open", "(", "operand", Top.flag, R, X, Y)
    BY <1>2, <2>2, <2>3 DEF TokenFirst
  <2> QED
    BY <2>4, TokenFaithful
<1>3. CASE Child("cast", "operand", Frame("expression", FALSE), "operand done", "colon")
  <2>1. PICK Y, Z : Y = Dot("hint", Dot(")", R)) /\ Z = Dot("expression", Dot("hint", Dot(")", R)))
    OBVIOUS
  <2>2. /\ Left("cast", "operand done", Top.flag, R, Y) /\ Left("expression", "start", FALSE, Y, Z)
        /\ Left("cast", "operand", Top.flag, R, X) => X = Z
        /\ Left("cast", "operand done", Top.flag, R, X) => Left("cast", "colon", Top.flag, R, X)
    BY <2>1 DEF Left, CastLeft, ExpressionLeft
  <2>3. (After(Y, "{") = {}) /\ "expression" \notin Statements
    BY <2>1, NoBrace, TokenNames, FormsKept DEF Statements
  <2>4. ChildFirst("cast", "operand", "expression", FALSE, "operand done", "colon", Top.flag, R, X, Y, Z)
    BY <1>3, <2>2, <2>3 DEF ChildFirst
  <2> QED
    BY <2>4, ChildFaithful
<1>4. CASE Option("cast", "colon", ":", "hint", "close")
  <2>1. PICK Y, Z : Y = Dot("type", Dot(")", R)) /\ Z = Dot(")", R)
    OBVIOUS
  <2>2. /\ Left("cast", "colon", Top.flag, R, X) => X = Dot("hint", Dot(")", R))
        /\ Left("cast", "hint", Top.flag, R, Y) /\ Left("cast", "close", Top.flag, R, Z)
    BY <2>1 DEF Left, CastLeft
  <2>3. X = Dot("hint", Dot(")", R))
    BY <1>4, <2>2, PointLeft DEF Option
  <2>4. (look = ":" => After(X, look) = Y) /\ (look # ":" => After(X, look) = After(Z, look))
    <3>1. PICK Q : Q = R
      OBVIOUS
    <3>2. ")" \in Tokens /\ ")" # ":" /\ Q \in Forms
      BY <3>1, TokenNames, FormsKept
    <3>3. Y = Dot("type", Dot(")", Q)) /\ Z = Dot(")", Q) /\ X = Dot("hint", Dot(")", Q))
      BY <2>1, <2>3, <3>1
    <3> QED
      BY <3>2, <3>3, OptionalHint
  <2>5. ":" \in Tokens
    BY TokenNames
  <2>6. OptionFirst("cast", "colon", ":", "hint", "close", Top.flag, R, X, Y, Z)
    BY <1>4, <2>2, <2>4, <2>5 DEF OptionFirst
  <2> QED
    BY <2>6, OptionFaithful
<1>5. CASE Child("cast", "hint", Frame("type", TRUE), "hint done", "close")
  <2>1. PICK Y, Z : Y = Dot(")", R) /\ Z = Dot("type", Dot(")", R))
    OBVIOUS
  <2>2. /\ Left("cast", "hint done", Top.flag, R, Y) /\ Left("type", "start", TRUE, Y, Z)
        /\ Left("cast", "hint", Top.flag, R, X) => X = Z
        /\ Left("cast", "hint done", Top.flag, R, X) => Left("cast", "close", Top.flag, R, X)
    BY <2>1 DEF Left, CastLeft, TypeLeft, TypeRule
  <2>3. "type" \notin Values /\ "type" \notin Statements
    BY DEF Values, Statements
  <2>4. ChildFirst("cast", "hint", "type", TRUE, "hint done", "close", Top.flag, R, X, Y, Z)
    BY <1>5, <2>2, <2>3 DEF ChildFirst
  <2> QED
    BY <2>4, ChildFaithful
<1>6. CASE Expect("cast", "close", ")", "end")
  <2>1. PICK Y : Y = R
    OBVIOUS
  <2>2. /\ Left("cast", "close", Top.flag, R, X) => X = Dot(")", Y)
        /\ Y = R
    BY <2>1 DEF Left, CastLeft
  <2>3. ")" \in Tokens
    BY TokenNames
  <2>4. TokenFirst("cast", "close", ")", "end", Top.flag, R, X, Y)
    BY <1>6, <2>2, <2>3 DEF TokenFirst
  <2> QED
    BY <2>4, TokenFaithful
<1> QED
  BY <1>1, <1>2, <1>3, <1>4, <1>5, <1>6 DEF ParseCast

\* ParseVariable: so is this one.
LEMMA ParseVariableFaithful ==
  ASSUME ~Documented, Running, DepthInv', NEW R \in Forms, NEW X, Going(R, X), ParseVariable
  PROVE  Faithful
<1>1. CASE Expect("variable", "start", "var", "name")
  <2>1. PICK Y : Y = Dot("id", Dot("hint", Dot("=", Dot("expression", Dot(";", R)))))
    OBVIOUS
  <2>2. /\ Left("variable", "start", Top.flag, R, X) => X = Dot("var", Y)
        /\ Left("variable", "name", Top.flag, R, Y)
    BY <2>1 DEF Left, VariableLeft
  <2>3. "var" \in Tokens
    BY TokenNames
  <2>4. TokenFirst("variable", "start", "var", "name", Top.flag, R, X, Y)
    BY <1>1, <2>2, <2>3 DEF TokenFirst
  <2> QED
    BY <2>4, TokenFaithful
<1>2. CASE Expect("variable", "name", "id", "colon")
  <2>1. PICK Y : Y = Dot("hint", Dot("=", Dot("expression", Dot(";", R))))
    OBVIOUS
  <2>2. /\ Left("variable", "name", Top.flag, R, X) => X = Dot("id", Y)
        /\ Left("variable", "colon", Top.flag, R, Y)
    BY <2>1 DEF Left, VariableLeft
  <2>3. "id" \in Tokens
    BY TokenNames
  <2>4. TokenFirst("variable", "name", "id", "colon", Top.flag, R, X, Y)
    BY <1>2, <2>2, <2>3 DEF TokenFirst
  <2> QED
    BY <2>4, TokenFaithful
<1>3. CASE Option("variable", "colon", ":", "hint", "assign")
  <2>1. PICK Y, Z : Y = Dot("type", Dot("=", Dot("expression", Dot(";", R)))) /\ Z = Dot("=", Dot("expression", Dot(";", R)))
    OBVIOUS
  <2>2. /\ Left("variable", "colon", Top.flag, R, X) => X = Dot("hint", Dot("=", Dot("expression", Dot(";", R))))
        /\ Left("variable", "hint", Top.flag, R, Y) /\ Left("variable", "assign", Top.flag, R, Z)
    BY <2>1 DEF Left, VariableLeft
  <2>3. X = Dot("hint", Dot("=", Dot("expression", Dot(";", R))))
    BY <1>3, <2>2, PointLeft DEF Option
  <2>4. (look = ":" => After(X, look) = Y) /\ (look # ":" => After(X, look) = After(Z, look))
    <3>1. PICK Q : Q = Dot("expression", Dot(";", R))
      OBVIOUS
    <3>2. "=" \in Tokens /\ "=" # ":" /\ Q \in Forms
      BY <3>1, TokenNames, FormsKept
    <3>3. Y = Dot("type", Dot("=", Q)) /\ Z = Dot("=", Q) /\ X = Dot("hint", Dot("=", Q))
      BY <2>1, <2>3, <3>1
    <3> QED
      BY <3>2, <3>3, OptionalHint
  <2>5. ":" \in Tokens
    BY TokenNames
  <2>6. OptionFirst("variable", "colon", ":", "hint", "assign", Top.flag, R, X, Y, Z)
    BY <1>3, <2>2, <2>4, <2>5 DEF OptionFirst
  <2> QED
    BY <2>6, OptionFaithful
<1>4. CASE Child("variable", "hint", Frame("type", TRUE), "hint done", "assign")
  <2>1. PICK Y, Z : Y = Dot("=", Dot("expression", Dot(";", R))) /\ Z = Dot("type", Dot("=", Dot("expression", Dot(";", R))))
    OBVIOUS
  <2>2. /\ Left("variable", "hint done", Top.flag, R, Y) /\ Left("type", "start", TRUE, Y, Z)
        /\ Left("variable", "hint", Top.flag, R, X) => X = Z
        /\ Left("variable", "hint done", Top.flag, R, X) => Left("variable", "assign", Top.flag, R, X)
    BY <2>1 DEF Left, VariableLeft, TypeLeft, TypeRule
  <2>3. "type" \notin Values /\ "type" \notin Statements
    BY DEF Values, Statements
  <2>4. ChildFirst("variable", "hint", "type", TRUE, "hint done", "assign", Top.flag, R, X, Y, Z)
    BY <1>4, <2>2, <2>3 DEF ChildFirst
  <2> QED
    BY <2>4, ChildFaithful
<1>5. CASE Expect("variable", "assign", "=", "value")
  <2>1. PICK Y : Y = Dot("expression", Dot(";", R))
    OBVIOUS
  <2>2. /\ Left("variable", "assign", Top.flag, R, X) => X = Dot("=", Y)
        /\ Left("variable", "value", Top.flag, R, Y)
    BY <2>1 DEF Left, VariableLeft
  <2>3. "=" \in Tokens
    BY TokenNames
  <2>4. TokenFirst("variable", "assign", "=", "value", Top.flag, R, X, Y)
    BY <1>5, <2>2, <2>3 DEF TokenFirst
  <2> QED
    BY <2>4, TokenFaithful
<1>6. CASE Child("variable", "value", Frame("expression", FALSE), "value done", "semicolon")
  <2>1. PICK Y, Z : Y = Dot(";", R) /\ Z = Dot("expression", Dot(";", R))
    OBVIOUS
  <2>2. /\ Left("variable", "value done", Top.flag, R, Y) /\ Left("expression", "start", FALSE, Y, Z)
        /\ Left("variable", "value", Top.flag, R, X) => X = Z
        /\ Left("variable", "value done", Top.flag, R, X) => Left("variable", "semicolon", Top.flag, R, X)
    BY <2>1 DEF Left, VariableLeft, ExpressionLeft
  <2>3. (After(Y, "{") = {}) /\ "expression" \notin Statements
    BY <2>1, NoBrace, TokenNames, FormsKept DEF Statements
  <2>4. ChildFirst("variable", "value", "expression", FALSE, "value done", "semicolon", Top.flag, R, X, Y, Z)
    BY <1>6, <2>2, <2>3 DEF ChildFirst
  <2> QED
    BY <2>4, ChildFaithful
<1>7. CASE Expect("variable", "semicolon", ";", "end")
  <2>1. PICK Y : Y = R
    OBVIOUS
  <2>2. /\ Left("variable", "semicolon", Top.flag, R, X) => X = Dot(";", Y)
        /\ Y = R
    BY <2>1 DEF Left, VariableLeft
  <2>3. ";" \in Tokens
    BY TokenNames
  <2>4. TokenFirst("variable", "semicolon", ";", "end", Top.flag, R, X, Y)
    BY <1>7, <2>2, <2>3 DEF TokenFirst
  <2> QED
    BY <2>4, TokenFaithful
<1> QED
  BY <1>1, <1>2, <1>3, <1>4, <1>5, <1>6, <1>7 DEF ParseVariable

\* ParseStructField.
LEMMA ParseStructFieldFaithful ==
  ASSUME ~Documented, Running, DepthInv', NEW R \in Forms, NEW X, Going(R, X), ParseStructField
  PROVE  Faithful
<1>1. CASE Expect("struct_field", "start", "id", "colon")
  <2>1. PICK Y : Y = Dot(":", Dot("expression", R))
    OBVIOUS
  <2>2. /\ Left("struct_field", "start", Top.flag, R, X) => X = Dot("id", Y)
        /\ Left("struct_field", "colon", Top.flag, R, Y)
    BY <2>1 DEF Left, StructFieldLeft
  <2>3. "id" \in Tokens
    BY TokenNames
  <2>4. TokenFirst("struct_field", "start", "id", "colon", Top.flag, R, X, Y)
    BY <1>1, <2>2, <2>3 DEF TokenFirst
  <2> QED
    BY <2>4, TokenFaithful
<1>2. CASE Expect("struct_field", "colon", ":", "value")
  <2>1. PICK Y : Y = Dot("expression", R)
    OBVIOUS
  <2>2. /\ Left("struct_field", "colon", Top.flag, R, X) => X = Dot(":", Y)
        /\ Left("struct_field", "value", Top.flag, R, Y)
    BY <2>1 DEF Left, StructFieldLeft
  <2>3. ":" \in Tokens
    BY TokenNames
  <2>4. TokenFirst("struct_field", "colon", ":", "value", Top.flag, R, X, Y)
    BY <1>2, <2>2, <2>3 DEF TokenFirst
  <2> QED
    BY <2>4, TokenFaithful
<1>3. CASE Child("struct_field", "value", Frame("expression", FALSE), "value done", "end")
  <2>1. PICK Y, Z : Y = R /\ Z = Dot("expression", R)
    OBVIOUS
  <2>2. /\ Left("struct_field", "value done", Top.flag, R, Y) /\ Left("expression", "start", FALSE, Y, Z)
        /\ Left("struct_field", "value", Top.flag, R, X) => X = Z
        /\ Left("struct_field", "value done", Top.flag, R, X) => X = R
    BY <2>1 DEF Left, StructFieldLeft, ExpressionLeft
  <2>3. (After(Y, "{") = {}) /\ "expression" \notin Statements
    BY <2>1, <1>3, PointLeft DEF Child, Fits, Values, Statements
  <2>4. ChildFirst("struct_field", "value", "expression", FALSE, "value done", "end", Top.flag, R, X, Y, Z)
    BY <1>3, <2>2, <2>3 DEF ChildFirst
  <2> QED
    BY <2>4, ChildFaithful
<1> QED
  BY <1>1, <1>2, <1>3 DEF ParseStructField

\* ParseFieldDeclaration.
LEMMA ParseFieldDeclarationFaithful ==
  ASSUME ~Documented, Running, DepthInv', NEW R \in Forms, NEW X, Going(R, X), ParseFieldDeclaration
  PROVE  Faithful
<1>1. CASE Expect("field_declaration", "start", "id", "colon")
  <2>1. PICK Y : Y = Dot(":", Dot("field_type", Dot(";", R)))
    OBVIOUS
  <2>2. /\ Left("field_declaration", "start", Top.flag, R, X) => X = Dot("id", Y)
        /\ Left("field_declaration", "colon", Top.flag, R, Y)
    BY <2>1 DEF Left, FieldDeclarationLeft
  <2>3. "id" \in Tokens
    BY TokenNames
  <2>4. TokenFirst("field_declaration", "start", "id", "colon", Top.flag, R, X, Y)
    BY <1>1, <2>2, <2>3 DEF TokenFirst
  <2> QED
    BY <2>4, TokenFaithful
<1>2. CASE Expect("field_declaration", "colon", ":", "type")
  <2>1. PICK Y : Y = Dot("field_type", Dot(";", R))
    OBVIOUS
  <2>2. /\ Left("field_declaration", "colon", Top.flag, R, X) => X = Dot(":", Y)
        /\ Left("field_declaration", "type", Top.flag, R, Y)
    BY <2>1 DEF Left, FieldDeclarationLeft
  <2>3. ":" \in Tokens
    BY TokenNames
  <2>4. TokenFirst("field_declaration", "colon", ":", "type", Top.flag, R, X, Y)
    BY <1>2, <2>2, <2>3 DEF TokenFirst
  <2> QED
    BY <2>4, TokenFaithful
<1>3. CASE Child("field_declaration", "type", Frame("type", FALSE), "type done", "semicolon")
  <2>1. PICK Y, Z : Y = Dot(";", R) /\ Z = Dot("field_type", Dot(";", R))
    OBVIOUS
  <2>2. /\ Left("field_declaration", "type done", Top.flag, R, Y) /\ Left("type", "start", FALSE, Y, Z)
        /\ Left("field_declaration", "type", Top.flag, R, X) => X = Z
        /\ Left("field_declaration", "type done", Top.flag, R, X) => Left("field_declaration", "semicolon", Top.flag, R, X)
    BY <2>1 DEF Left, FieldDeclarationLeft, TypeLeft, TypeRule
  <2>3. "type" \notin Values /\ "type" \notin Statements
    BY DEF Values, Statements
  <2>4. ChildFirst("field_declaration", "type", "type", FALSE, "type done", "semicolon", Top.flag, R, X, Y, Z)
    BY <1>3, <2>2, <2>3 DEF ChildFirst
  <2> QED
    BY <2>4, ChildFaithful
<1>4. CASE Expect("field_declaration", "semicolon", ";", "end")
  <2>1. PICK Y : Y = R
    OBVIOUS
  <2>2. /\ Left("field_declaration", "semicolon", Top.flag, R, X) => X = Dot(";", Y)
        /\ Y = R
    BY <2>1 DEF Left, FieldDeclarationLeft
  <2>3. ";" \in Tokens
    BY TokenNames
  <2>4. TokenFirst("field_declaration", "semicolon", ";", "end", Top.flag, R, X, Y)
    BY <1>4, <2>2, <2>3 DEF TokenFirst
  <2> QED
    BY <2>4, TokenFaithful
<1> QED
  BY <1>1, <1>2, <1>3, <1>4 DEF ParseFieldDeclaration

\* ParseReference.
LEMMA ParseReferenceFaithful ==
  ASSUME ~Documented, Running, DepthInv', NEW R \in Forms, NEW X, Going(R, X), ParseReference
  PROVE  Faithful
<1>1. CASE Expect("reference", "start", "&", "operand")
  <2>1. PICK Y : Y = Dot("expression", R)
    OBVIOUS
  <2>2. /\ Left("reference", "start", Top.flag, R, X) => X = Dot("&", Y)
        /\ Left("reference", "operand", Top.flag, R, Y)
    BY <2>1 DEF Left, ReferenceLeft
  <2>3. "&" \in Tokens
    BY TokenNames
  <2>4. TokenFirst("reference", "start", "&", "operand", Top.flag, R, X, Y)
    BY <1>1, <2>2, <2>3 DEF TokenFirst
  <2> QED
    BY <2>4, TokenFaithful
<1>2. CASE Child("reference", "operand", Frame("expression", FALSE), "operand done", "end")
  <2>1. PICK Y, Z : Y = R /\ Z = Dot("expression", R)
    OBVIOUS
  <2>2. /\ Left("reference", "operand done", Top.flag, R, Y) /\ Left("expression", "start", FALSE, Y, Z)
        /\ Left("reference", "operand", Top.flag, R, X) => X = Z
        /\ Left("reference", "operand done", Top.flag, R, X) => X = R
    BY <2>1 DEF Left, ReferenceLeft, ExpressionLeft
  <2>3. (After(Y, "{") = {}) /\ "expression" \notin Statements
    BY <2>1, <1>2, PointLeft DEF Child, Fits, Values, Statements
  <2>4. ChildFirst("reference", "operand", "expression", FALSE, "operand done", "end", Top.flag, R, X, Y, Z)
    BY <1>2, <2>2, <2>3 DEF ChildFirst
  <2> QED
    BY <2>4, ChildFaithful
<1> QED
  BY <1>1, <1>2 DEF ParseReference

-----------------------------------------------------------------------------
\* A step that goes on at another point, returns, calls or becomes another call, without an error.
GoesOn(fn, point, next, flag, R, X, Y) ==
  /\ At(fn, point) /\ fn # "synchronize" /\ point # "skipped" /\ failed' = failed
  /\ (Goto(next) /\ flag = Top.flag) \/ GotoFlag(next, flag)
  /\ Left(fn, next, flag, R, Y)
  /\ \/ UNCHANGED source /\ After(X, look) = After(Y, look)
     \/ Consume /\ look # Eof /\ After(X, look) = Y /\ next \notin {"skipped", "members done"}

\* A step that ends the call with a result.
Leaves(fn, point, r, R, X) ==
  /\ At(fn, point) /\ fn # "synchronize" /\ point # "skipped" /\ failed' = failed
  /\ Return(r)
  /\ \/ UNCHANGED source /\ After(X, look) = After(R, look)
     \/ Consume /\ look # Eof /\ After(X, look) = R

\* A step in which the call becomes another one that ends in its place.
Turns(fn, point, new, flag, R, X, Y) ==
  /\ At(fn, point) /\ fn # "synchronize" /\ point # "skipped" /\ failed' = failed /\ UNCHANGED source
  /\ Become(Frame(new, flag)) /\ Left(new, "start", flag, R, Y) /\ After(X, look) = After(Y, look)
  /\ Fits(fn, R) => Fits(new, R)

\* A step that makes a call and goes on at another point when it returns.
Asks(fn, point, callee, arg, called, flag, R, X, Y, Z) ==
  /\ At(fn, point) /\ fn # "synchronize" /\ point # "skipped" /\ failed' = failed /\ UNCHANGED source
  /\ Call(Frame(callee, arg), called) /\ callee # "synchronize" /\ called \notin {"skipped", "members done"}
  /\ Left(fn, called, flag, R, Y) /\ Left(callee, "start", arg, Y, Z)
  /\ callee \in Values => After(Y, "{") = {}
  /\ callee \in Statements => Ends6(Y) /\ After(Y, "else") = {}
  /\ After(X, look) = After(Z, look)

\* A step that goes on at another point keeps the agreement.
LEMMA GoesFaithful ==
  ASSUME ~Documented, Running, DepthInv', NEW R \in Forms, NEW X, Going(R, X),
         NEW fn, NEW point, NEW next, NEW flag, NEW Y, GoesOn(fn, point, next, flag, R, X, Y)
  PROVE  Faithful
BY GotoFaithful DEF GoesOn

\* So does one that ends the call,
LEMMA LeavesFaithful ==
  ASSUME ~Documented, Running, NEW R \in Forms, NEW X, Going(R, X),
         NEW fn, NEW point, NEW r, Leaves(fn, point, r, R, X)
  PROVE  Faithful
BY ReturnFaithful DEF Leaves

\* so does one that becomes another call,
LEMMA TurnsFaithful ==
  ASSUME ~Documented, Running, DepthInv', NEW R \in Forms, NEW X, Going(R, X),
         NEW fn, NEW point, NEW new, NEW flag, NEW Y, Turns(fn, point, new, flag, R, X, Y)
  PROVE  Faithful
<1>1. Fits(new, R)
  BY PointLeft DEF Turns
<1> QED
  BY <1>1, BecomeFaithful DEF Turns

\* and one that makes a call.
LEMMA AsksFaithful ==
  ASSUME ~Documented, Running, DepthInv', NEW R \in Forms, NEW X, Going(R, X),
         NEW fn, NEW point, NEW callee, NEW arg, NEW called, NEW Y, NEW Z,
         Asks(fn, point, callee, arg, called, Top.flag, R, X, Y, Z)
  PROVE  Faithful
<1>1. Fits(fn, R) /\ Left(fn, called, Top.flag, R, Y)
  BY PointLeft DEF Asks
<1>2. Y \in Forms /\ Y # {}
  BY <1>1, LeftForms, LeftSomething DEF Fits, Asks
<1>3. Fits(callee, Y)
  BY <1>2 DEF Fits, Asks
<1> QED
  BY <1>3, CallFaithful DEF Asks

\* Functions with nothing special about what comes after them.
LEMMA FitsPlain ==
  ASSUME NEW fn, NEW new, new \notin Values, new \notin Statements, fn # "synchronize", NEW R
  PROVE  Fits(fn, R) => Fits(new, R)
BY DEF Fits

-----------------------------------------------------------------------------
\* What the branches of a choice stand for.
LEMMA SelectIs ==
  ASSUME NEW fn, NEW point, NEW choices, NEW otherwise, Select(fn, point, choices, otherwise)
  PROVE  /\ At(fn, point) /\ failed' = failed /\ UNCHANGED source
         /\ \/ \E c \in choices : Is(c[1]) /\ Become(Frame(c[2], Top.flag))
            \/ (\A c \in choices : ~Is(c[1])) /\ Become(Frame(otherwise, Top.flag))
BY DEF Select, Quiet

\* What a type begins with, and what an array type is before its bracket and after it.
Lengths(flag, R) ==
  IF flag THEN Dot("int", Dot("]", Dot("type", R))) \cup Dot("]", Dot("type", R))
  ELSE Dot("int", Dot("]", Dot("field_type", R)))

\* An array type before R.
Bracketed(flag, R) ==
  IF flag THEN Dot("[", Dot("int", Dot("]", Dot("type", R)))) \cup Dot("[", Dot("]", Dot("type", R)))
  ELSE Dot("[", Dot("int", Dot("]", Dot("field_type", R))))

\* It begins with its bracket.
LEMMA BracketedIs ==
  ASSUME NEW flag, NEW R
  PROVE  Bracketed(flag, R) = Dot("[", Lengths(flag, R)) /\ Lengths(flag, R) \in Forms
<1>1. PICK A, B : A = Dot("int", Dot("]", Dot("type", R))) /\ B = Dot("]", Dot("type", R))
  OBVIOUS
<1>2. A \in Forms /\ B \in Forms /\ A \cup B \in Forms
  BY <1>1, FormsKept
<1>3. Dot("[", A \cup B) = Dot("[", A) \cup Dot("[", B)
  BY DotUnion
<1>4. CASE flag
  BY <1>1, <1>2, <1>3, <1>4 DEF Bracketed, Lengths
<1>5. CASE ~flag
  <2>1. Dot("int", Dot("]", Dot("field_type", R))) \in Forms
    BY FormsKept
  <2> QED
    BY <1>5, <2>1 DEF Bracketed, Lengths
<1> QED
  BY <1>4, <1>5

\* What the first token says of a type.
LEMMA TypeTurns ==
  ASSUME ~Documented, NEW R \in Forms, NEW flag, NEW t
  PROVE  /\ (t = "&" => After(Dot(TypeRule(flag), R), t) = After(Dot("&", Dot(TypeRule(flag), R)), t))
         /\ (t = "[" => After(Dot(TypeRule(flag), R), t) = After(Bracketed(flag, R), t))
         /\ (t \notin {"&", "["} => After(Dot(TypeRule(flag), R), t) = After(Dot("id", R), t))
<1>1. "&" \in Tokens /\ "[" \in Tokens /\ "id" \in Tokens
  BY TokenNames
<1>2. PICK Q : Q = Dot(TypeRule(flag), R)
  OBVIOUS
<1>3. Q \in Forms
  BY <1>2, FormsKept
<1>4. After(Dot("&", Q), t) = (IF t = "&" THEN Q ELSE {}) /\ After(Dot("id", R), t) = IF t = "id" THEN R ELSE {}
  BY <1>1, <1>3, AfterToken
<1>5. After(Bracketed(flag, R), t) = IF t = "[" THEN Lengths(flag, R) ELSE {}
  BY <1>1, BracketedIs, AfterToken
<1>6. /\ (t = "id" => After(Q, t) = R) /\ (t = "&" => After(Q, t) = Q) /\ (t = "[" => After(Q, t) = Lengths(flag, R))
      /\ (t \notin {"id", "&", "["} => After(Q, t) = {})
  <2>1. CASE flag
    BY <1>2, <2>1, TypeRow DEF TypeRule, Lengths
  <2>2. CASE ~flag
    BY <1>2, <2>2, FieldTypeRow DEF TypeRule, Lengths
  <2> QED
    BY <2>1, <2>2
<1> QED
  BY <1>2, <1>4, <1>5, <1>6

\* The step ParseType: the token says which type.
LEMMA ParseTypeFaithful ==
  ASSUME ~Documented, Running, DepthInv', NEW R \in Forms, NEW X, Going(R, X), ParseType
  PROVE  Faithful
<1>1. PICK choices : choices = {<<"&", "reference_type">>, <<"[", "array_type">>}
  OBVIOUS
<1>2. Select("type", "start", choices, "type_name")
  BY <1>1 DEF ParseType
<1>3. /\ At("type", "start") /\ failed' = failed /\ UNCHANGED source
      /\ \/ \E c \in choices : Is(c[1]) /\ Become(Frame(c[2], Top.flag))
         \/ (\A c \in choices : ~Is(c[1])) /\ Become(Frame("type_name", Top.flag))
  BY <1>2, SelectIs
<1>4. X = Dot(TypeRule(Top.flag), R)
  BY <1>3, PointLeft DEF Left, TypeLeft
<1>5. PICK new : /\ Become(Frame(new, Top.flag))
                 /\ \/ new = "reference_type" /\ look = "&"
                    \/ new = "array_type" /\ look = "["
                    \/ new = "type_name" /\ look \notin {"&", "["}
  <2>1. /\ <<"&", "reference_type">>[1] = "&" /\ <<"&", "reference_type">>[2] = "reference_type"
        /\ <<"[", "array_type">>[1] = "[" /\ <<"[", "array_type">>[2] = "array_type"
    OBVIOUS
  <2> QED
    BY <1>1, <1>3, <2>1 DEF Is
<1>6. new \notin Values /\ new \notin Statements
  BY <1>5 DEF Values, Statements
<1>7. PICK Y : Y = IF new = "type_name" THEN Dot("id", R)
                   ELSE IF new = "reference_type" THEN Dot("&", Dot(TypeRule(Top.flag), R))
                   ELSE Bracketed(Top.flag, R)
  OBVIOUS
<1>8. Left(new, "start", Top.flag, R, Y)
  BY <1>5, <1>7 DEF Left, TypeNameLeft, ReferenceTypeLeft, ArrayTypeLeft, Bracketed
<1>9. After(X, look) = After(Y, look)
  BY <1>4, <1>5, <1>7, TypeTurns
<1>10. Turns("type", "start", new, Top.flag, R, X, Y)
  BY <1>3, <1>5, <1>6, <1>8, <1>9, FitsPlain DEF Turns
<1> QED
  BY <1>10, TurnsFaithful

\* ParseTypeName.
LEMMA ParseTypeNameFaithful ==
  ASSUME ~Documented, Running, DepthInv', NEW R \in Forms, NEW X, Going(R, X), ParseTypeName
  PROVE  Faithful
<1>1. Expect("type_name", "start", "id", "end")
  BY DEF ParseTypeName
<1>2. Faithful
  <2>1. PICK Y : Y = R
    OBVIOUS
  <2>2. /\ Left("type_name", "start", Top.flag, R, X) => X = Dot("id", Y)
        /\ Y = R
    BY <2>1 DEF Left, TypeNameLeft
  <2>3. "id" \in Tokens
    BY TokenNames
  <2>4. TokenFirst("type_name", "start", "id", "end", Top.flag, R, X, Y)
    BY <1>1, <2>2, <2>3 DEF TokenFirst
  <2> QED
    BY <2>4, TokenFaithful
<1> QED
  BY <1>2

\* ParseReferenceType.
LEMMA ParseReferenceTypeFaithful ==
  ASSUME ~Documented, Running, DepthInv', NEW R \in Forms, NEW X, Going(R, X), ParseReferenceType
  PROVE  Faithful
<1>1. CASE Expect("reference_type", "start", "&", "element")
  <2>1. PICK Y : Y = Dot(TypeRule(Top.flag), R)
    OBVIOUS
  <2>2. /\ Left("reference_type", "start", Top.flag, R, X) => X = Dot("&", Y)
        /\ Left("reference_type", "element", Top.flag, R, Y)
    BY <2>1 DEF Left, ReferenceTypeLeft, TypeRule
  <2>3. "&" \in Tokens
    BY TokenNames
  <2>4. TokenFirst("reference_type", "start", "&", "element", Top.flag, R, X, Y)
    BY <1>1, <2>2, <2>3 DEF TokenFirst
  <2> QED
    BY <2>4, TokenFaithful
<1>2. CASE TypeElement("reference_type")
  <2>1. CASE At("reference_type", "element") /\ Call(Frame("type", Top.flag), "made") /\ Quiet
    <3>1. X = Dot(TypeRule(Top.flag), R)
      BY <2>1, PointLeft DEF Left, ReferenceTypeLeft
    <3>2. Left("reference_type", "made", Top.flag, R, R) /\ Left("type", "start", Top.flag, R, X)
      BY <3>1 DEF Left, ReferenceTypeLeft, TypeLeft
    <3>3. "type" \notin Values /\ "type" \notin Statements
      BY DEF Values, Statements
    <3>4. Asks("reference_type", "element", "type", Top.flag, "made", Top.flag, R, X, R, X)
      BY <2>1, <3>2, <3>3 DEF Asks, Quiet
    <3> QED
      BY <3>4, AsksFaithful
  <2>2. CASE At("reference_type", "made") /\ Return(IF ret = "null" THEN "holed" ELSE ret) /\ Quiet
    <3>1. X = R
      BY <2>2, PointLeft DEF Left, ReferenceTypeLeft
    <3>2. PICK r : r = IF ret = "null" THEN "holed" ELSE ret
      OBVIOUS
    <3>3. Leaves("reference_type", "made", r, R, X)
      BY <2>2, <3>1, <3>2 DEF Leaves, Quiet
    <3> QED
      BY <3>3, LeavesFaithful
  <2> QED
    BY <1>2, <2>1, <2>2 DEF TypeElement
<1> QED
  BY <1>1, <1>2 DEF ParseReferenceType

\* What may come where the length of an array is: the length or, where it may be missing, the bracket.
LEMMA LengthsRow ==
  ASSUME NEW flag \in BOOLEAN, NEW R \in Forms, NEW t, NEW Y, Y = Dot("]", Dot(TypeRule(flag), R))
  PROVE  /\ (t = "int" => After(Lengths(flag, R), t) = Y) /\ (t = "bigint" => After(Lengths(flag, R), t) = {})
         /\ (t # "int" /\ flag => After(Lengths(flag, R), t) = After(Y, t))
         /\ (t # "int" /\ ~flag => After(Lengths(flag, R), t) = {})
<1>1. "int" \in Tokens /\ "]" \in Tokens
  BY TokenNames
<1>2. PICK Q : Q = Dot(TypeRule(flag), R)
  OBVIOUS
<1>3. Q \in Forms /\ Y = Dot("]", Q) /\ Y \in Forms
  BY <1>2, FormsKept
<1>4. After(Y, t) = (IF t = "]" THEN Q ELSE {}) /\ After(Dot("int", Y), t) = IF t = "int" THEN Y ELSE {}
  BY <1>1, <1>3, AfterToken
<1>5. Lengths(flag, R) = IF flag THEN Dot("int", Y) \cup Y ELSE Dot("int", Y)
  BY <1>2, <1>3 DEF Lengths, TypeRule
<1>6. After(Dot("int", Y) \cup Y, t) = After(Dot("int", Y), t) \cup After(Y, t)
  BY AfterUnion
<1> QED
  BY <1>4, <1>5, <1>6

\* ParseArrayType: the length may be missing when the flag says so.
LEMMA ParseArrayTypeFaithful ==
  ASSUME ~Documented, Running, DepthInv', NEW R \in Forms, NEW X, Going(R, X), ParseArrayType
  PROVE  Faithful
<1>1. CASE Expect("array_type", "start", "[", "length")
  <2>1. PICK Y : Y = Lengths(Top.flag, R)
    OBVIOUS
  <2>2. Top.flag \in BOOLEAN
    BY <1>1, TopFrame DEF Expect, Running, Frames
  <2>3. Left("array_type", "start", Top.flag, R, X) => X = Bracketed(Top.flag, R)
    BY <2>2 DEF Left, ArrayTypeLeft, Bracketed
  <2>4. Left("array_type", "length", Top.flag, R, Y)
    BY <2>1, <2>2 DEF Left, ArrayTypeLeft, Lengths
  <2>5. Bracketed(Top.flag, R) = Dot("[", Y) /\ "[" \in Tokens
    BY <2>1, BracketedIs, TokenNames
  <2>6. TokenFirst("array_type", "start", "[", "length", Top.flag, R, X, Y)
    BY <1>1, <2>3, <2>4, <2>5 DEF TokenFirst
  <2> QED
    BY <2>6, TokenFaithful
<1>2. CASE /\ At("array_type", "length")
           /\ \/ look = "int" /\ Consume /\ Goto("close") /\ UNCHANGED failed
              \/ look = "bigint" /\ Consume /\ Report /\ Return("null")
              \/ /\ ~Is("int")
                 /\ failed' = (failed \/ ~Top.flag)
                 /\ Goto("close") /\ UNCHANGED source
  <2>1. PICK flag : flag = Top.flag
    OBVIOUS
  <2>2. flag \in BOOLEAN
    BY <1>2, <2>1, TopFrame DEF Running, Frames
  <2>3. X = Lengths(flag, R)
    BY <1>2, <2>1, <2>2, PointLeft DEF Left, ArrayTypeLeft, Lengths
  <2>4. PICK Y : Y = Dot("]", Dot(TypeRule(flag), R))
    OBVIOUS
  <2>5. Left("array_type", "close", Top.flag, R, Y)
    BY <2>1, <2>4 DEF Left, ArrayTypeLeft
  <2>6. /\ (look = "int" => After(X, look) = Y) /\ (look = "bigint" => After(X, look) = {})
        /\ (look # "int" /\ flag => After(X, look) = After(Y, look)) /\ (look # "int" /\ ~flag => After(X, look) = {})
    BY <2>2, <2>3, <2>4, LengthsRow
  <2>7. CASE look = "int" /\ Consume /\ Goto("close") /\ UNCHANGED failed
    <3>1. look # Eof
      BY <2>7, KnownToken, TokenNames DEF Is
    <3>2. GoesOn("array_type", "length", "close", Top.flag, R, X, Y)
      BY <1>2, <2>5, <2>6, <2>7, <3>1 DEF GoesOn
    <3> QED
      BY <3>2, GoesFaithful
  <2>8. CASE look = "bigint" /\ Report
    BY <2>6, <2>8, ReportFaithful DEF Report
  <2>9. CASE ~Is("int") /\ failed' = (failed \/ ~Top.flag) /\ Goto("close") /\ UNCHANGED source
    <3>1. look # "int"
      BY <2>9 DEF Is
    <3>2. CASE flag
      <4>1. failed' = failed
        BY <2>1, <2>9, <3>2 DEF Running
      <4>2. GoesOn("array_type", "length", "close", Top.flag, R, X, Y)
        BY <1>2, <2>5, <2>6, <2>9, <3>1, <3>2, <4>1 DEF GoesOn
      <4> QED
        BY <4>2, GoesFaithful
    <3>3. CASE ~flag
      <4>1. failed'
        BY <2>1, <2>9, <3>3
      <4> QED
        BY <2>6, <3>1, <3>3, <4>1, ReportFaithful
    <3> QED
      BY <3>2, <3>3
  <2> QED
    BY <1>2, <2>7, <2>8, <2>9
<1>3. CASE Expect("array_type", "close", "]", "element")
  <2>1. PICK Y : Y = Dot(TypeRule(Top.flag), R)
    OBVIOUS
  <2>2. /\ Left("array_type", "close", Top.flag, R, X) => X = Dot("]", Y)
        /\ Left("array_type", "element", Top.flag, R, Y)
    BY <2>1 DEF Left, ArrayTypeLeft
  <2>3. "]" \in Tokens
    BY TokenNames
  <2>4. TokenFirst("array_type", "close", "]", "element", Top.flag, R, X, Y)
    BY <1>3, <2>2, <2>3 DEF TokenFirst
  <2> QED
    BY <2>4, TokenFaithful
<1>4. CASE TypeElement("array_type")
  <2>1. CASE At("array_type", "element") /\ Call(Frame("type", Top.flag), "made") /\ Quiet
    <3>1. X = Dot(TypeRule(Top.flag), R)
      BY <2>1, PointLeft DEF Left, ArrayTypeLeft
    <3>2. Left("array_type", "made", Top.flag, R, R) /\ Left("type", "start", Top.flag, R, X)
      BY <3>1 DEF Left, ArrayTypeLeft, TypeLeft
    <3>3. "type" \notin Values /\ "type" \notin Statements
      BY DEF Values, Statements
    <3>4. Asks("array_type", "element", "type", Top.flag, "made", Top.flag, R, X, R, X)
      BY <2>1, <3>2, <3>3 DEF Asks, Quiet
    <3> QED
      BY <3>4, AsksFaithful
  <2>2. CASE At("array_type", "made") /\ Return(IF ret = "null" THEN "holed" ELSE ret) /\ Quiet
    <3>1. X = R
      BY <2>2, PointLeft DEF Left, ArrayTypeLeft
    <3>2. PICK r : r = IF ret = "null" THEN "holed" ELSE ret
      OBVIOUS
    <3>3. Leaves("array_type", "made", r, R, X)
      BY <2>2, <3>1, <3>2 DEF Leaves, Quiet
    <3> QED
      BY <3>3, LeavesFaithful
  <2> QED
    BY <1>4, <2>1, <2>2 DEF TypeElement
<1> QED
  BY <1>1, <1>2, <1>3, <1>4 DEF ParseArrayType

-----------------------------------------------------------------------------
\* Reading the token that comes first.
LEMMA FirstRead ==
  ASSUME NEW x \in Tokens, NEW Q \in Forms, NEW F, F = Dot(x, Q)
  PROVE  After(F, x) = Q
BY AfterToken

\* A number or a truth value.
LEMMA LiteralIs ==
  ASSUME NEW R \in Forms, NEW t
  PROVE  After(Dot("int", R) \cup Dot("bool", R), t) = IF t \in {"int", "bool"} THEN R ELSE {}
<1>1. PICK A, B : A = Dot("int", R) /\ B = Dot("bool", R)
  OBVIOUS
<1>2. After(A \cup B, t) = After(A, t) \cup After(B, t)
  BY AfterUnion
<1>3. "int" \in Tokens /\ "bool" \in Tokens
  BY TokenNames
<1>4. After(A, t) = (IF t = "int" THEN R ELSE {}) /\ After(B, t) = (IF t = "bool" THEN R ELSE {})
  BY <1>1, <1>3, AfterToken
<1> QED
  BY <1>1, <1>2, <1>4

\* What a value begins with says which value it is.
ValueForms(new, R) ==
  IF new = "cast" THEN Dot("cast", Dot("(", Dot("expression", Dot("hint", Dot(")", R)))))
  ELSE IF new = "array" THEN Dot("[", MoreElements(R))
  ELSE IF new = "struct_literal" THEN Dot("{", Dot("members", Dot("}", R)))
  ELSE IF new = "reference" THEN Dot("&", Dot("expression", R))
  ELSE IF new = "identifier" THEN Dot("id", R) \cup Dot("id", Dot("struct_literal", R))
  ELSE Dot("int", R) \cup Dot("bool", R)

\* What the first token says of an expression.
LEMMA ValueTurns ==
  ASSUME ~Documented, NEW R \in Forms, NEW t, NEW new,
         \/ new = "cast" /\ t = "cast"
         \/ new = "array" /\ t = "["
         \/ new = "struct_literal" /\ t = "{"
         \/ new = "reference" /\ t = "&"
         \/ new = "identifier" /\ t = "id"
         \/ new = "literal" /\ t \notin {"cast", "[", "{", "&", "id"}
  PROVE  After(Dot("expression", R), t) = After(ValueForms(new, R), t)
<1>2. CASE new = "cast" /\ t = "cast"
  <2>1. PICK Q : Q = Dot("(", Dot("expression", Dot("hint", Dot(")", R))))
    OBVIOUS
  <2>2. Q \in Forms /\ ValueForms(new, R) = Dot("cast", Q)
    BY <1>2, <2>1, FormsKept DEF ValueForms
  <2>3. After(Dot("expression", R), t) = Q
    BY <1>2, <2>1, ExpressionRow
  <2>4. "cast" \in Tokens
    BY TokenNames
  <2> QED
    BY <1>2, <2>2, <2>3, <2>4, FirstRead
<1>3. CASE new = "array" /\ t = "["
  <2>1. MoreElements(R) \in Forms /\ ValueForms(new, R) = Dot("[", MoreElements(R))
    BY <1>3, FormsKept DEF ValueForms, MoreElements
  <2>2. After(Dot("expression", R), t) = MoreElements(R)
    BY <1>3, ExpressionRow DEF MoreElements
  <2>3. "[" \in Tokens
    BY TokenNames
  <2> QED
    BY <1>3, <2>1, <2>2, <2>3, FirstRead
<1>4. CASE new = "struct_literal" /\ t = "{"
  <2>1. PICK Q : Q = Dot("members", Dot("}", R))
    OBVIOUS
  <2>2. Q \in Forms /\ ValueForms(new, R) = Dot("{", Q) /\ After(Dot("expression", R), t) = Q
    BY <1>4, <2>1, FormsKept, ExpressionRow DEF ValueForms
  <2>3. "{" \in Tokens
    BY TokenNames
  <2> QED
    BY <1>4, <2>2, <2>3, FirstRead
<1>5. CASE new = "reference" /\ t = "&"
  <2>1. PICK Q : Q = Dot("expression", R)
    OBVIOUS
  <2>2. Q \in Forms /\ ValueForms(new, R) = Dot("&", Q) /\ After(Dot("expression", R), t) = Q
    BY <1>5, <2>1, FormsKept, ExpressionRow DEF ValueForms
  <2>3. "&" \in Tokens
    BY TokenNames
  <2> QED
    BY <1>5, <2>2, <2>3, FirstRead
<1>6. CASE new = "identifier" /\ t = "id"
  <2>1. PICK A, B : A = R /\ B = Dot("struct_literal", R)
    OBVIOUS
  <2>2. A \cup B \in Forms /\ A \in Forms /\ B \in Forms
    BY <2>1, FormsKept
  <2>3. ValueForms(new, R) = Dot("id", A) \cup Dot("id", B) /\ After(Dot("expression", R), t) = A \cup B
    BY <1>6, <2>1, ExpressionRow DEF ValueForms
  <2>4. PICK C : C = A \cup B
    OBVIOUS
  <2>5. Dot("id", A \cup B) = Dot("id", A) \cup Dot("id", B)
    BY DotUnion, ZenonT(60)
  <2>7. ValueForms(new, R) = Dot("id", C) /\ C \in Forms /\ After(Dot("expression", R), t) = C
    BY <2>2, <2>3, <2>4, <2>5
  <2>6. "id" \in Tokens
    BY TokenNames
  <2> QED
    BY <1>6, <2>6, <2>7, FirstRead
<1>7. CASE new = "literal" /\ t \notin {"cast", "[", "{", "&", "id"}
  <2>1. After(ValueForms(new, R), t) = IF t \in {"int", "bool"} THEN R ELSE {}
    BY <1>7, LiteralIs DEF ValueForms
  <2>2. /\ (t = "int" => After(Dot("expression", R), t) = R) /\ (t = "bool" => After(Dot("expression", R), t) = R)
        /\ (t \notin {"int", "bool"} => After(Dot("expression", R), t) = {})
    BY <1>7, ExpressionRow
  <2> QED
    BY <2>1, <2>2
<1> QED
  BY <1>2, <1>3, <1>4, <1>5, <1>6, <1>7

\* ParseExpression.
LEMMA ParseExpressionFaithful ==
  ASSUME ~Documented, Running, DepthInv', NEW R \in Forms, NEW X, Going(R, X), ParseExpression
  PROVE  Faithful
<1>1. PICK choices : choices = {<<"cast", "cast">>, <<"[", "array">>, <<"{", "struct_literal">>,
                                <<"&", "reference">>, <<"id", "identifier">>}
  OBVIOUS
<1>2. Select("expression", "start", choices, "literal")
  BY <1>1 DEF ParseExpression
<1>3. /\ At("expression", "start") /\ failed' = failed /\ UNCHANGED source
      /\ \/ \E c \in choices : Is(c[1]) /\ Become(Frame(c[2], Top.flag))
         \/ (\A c \in choices : ~Is(c[1])) /\ Become(Frame("literal", Top.flag))
  BY <1>2, SelectIs
<1>4. X = Dot("expression", R)
  BY <1>3, PointLeft DEF Left, ExpressionLeft
<1>5. PICK new : /\ Become(Frame(new, Top.flag))
                 /\ \/ new = "cast" /\ look = "cast"
                    \/ new = "array" /\ look = "["
                    \/ new = "struct_literal" /\ look = "{"
                    \/ new = "reference" /\ look = "&"
                    \/ new = "identifier" /\ look = "id"
                    \/ new = "literal" /\ look \notin {"cast", "[", "{", "&", "id"}
  <2>1. /\ <<"cast", "cast">>[1] = "cast" /\ <<"cast", "cast">>[2] = "cast"
        /\ <<"[", "array">>[1] = "[" /\ <<"[", "array">>[2] = "array"
        /\ <<"{", "struct_literal">>[1] = "{" /\ <<"{", "struct_literal">>[2] = "struct_literal"
        /\ <<"&", "reference">>[1] = "&" /\ <<"&", "reference">>[2] = "reference"
        /\ <<"id", "identifier">>[1] = "id" /\ <<"id", "identifier">>[2] = "identifier"
    OBVIOUS
  <2> QED
    BY <1>1, <1>3, <2>1 DEF Is
<1>6. Fits("expression", R) => Fits(new, R)
  BY <1>5 DEF Fits, Values, Statements
<1>7. Left(new, "start", Top.flag, R, ValueForms(new, R))
  BY <1>5 DEF Left, ValueForms, CastLeft, ArrayLeft, StructLiteralLeft, ReferenceLeft,
     IdentifierLeft, LiteralLeft
<1>8. After(X, look) = After(ValueForms(new, R), look)
  BY <1>4, <1>5, ValueTurns
<1>9. Turns("expression", "start", new, Top.flag, R, X, ValueForms(new, R))
  BY <1>3, <1>5, <1>6, <1>7, <1>8 DEF Turns
<1> QED
  BY <1>9, TurnsFaithful

\* ParseLiteral: no other token is a value.
LEMMA ParseLiteralFaithful ==
  ASSUME ~Documented, Running, DepthInv', NEW R \in Forms, NEW X, Going(R, X), ParseLiteral
  PROVE  Faithful
<1>1. At("literal", "start")
  BY DEF ParseLiteral
<1>2. X = Dot("int", R) \cup Dot("bool", R)
  BY <1>1, PointLeft DEF Left, LiteralLeft
<1>3. /\ (look \in {"int", "bool"} => After(X, look) = R) /\ (look \notin {"int", "bool"} => After(X, look) = {})
  BY <1>2, LiteralIs
<1>4. CASE look \in {"int", "bool"} /\ Consume /\ Return("node") /\ UNCHANGED failed
  <2>1. look # Eof
    BY <1>4, KnownToken, TokenNames DEF Is
  <2>2. Leaves("literal", "start", "node", R, X)
    BY <1>1, <1>3, <1>4, <2>1 DEF Leaves
  <2> QED
    BY <2>2, LeavesFaithful
<1>5. CASE look \notin {"int", "bool"} /\ Report
  BY <1>3, <1>5, ReportFaithful DEF Report
<1> QED
  BY <1>4, <1>5 DEF ParseLiteral

\* An element of an array, and what comes after it.
LEMMA ElementsTurn ==
  ASSUME ~Documented, NEW R \in Forms, NEW t
  PROVE  /\ (t \in {"]", Eof} => After(MoreElements(R), t) = After(Dot("]", R), t))
         /\ (t \notin {"]", Eof} => After(MoreElements(R), t) = After(Dot("expression", NextElement(R)), t))
         /\ (t = "]" => After(NextElement(R), t) = After(MoreElements(R), t))
         /\ (t = "," => After(NextElement(R), t) = MoreElements(R))
         /\ (t \notin {"]", ","} => After(NextElement(R), t) = {})
<1>1. "]" \in Tokens /\ "," \in Tokens
  BY TokenNames
<1>2. PICK Q, E : Q = Dot("]", R) /\ E = Dot("elements", Q)
  OBVIOUS
<1>3. PICK M : M = Q \cup E
  OBVIOUS
<1>4. PICK N : N = Dot(",", M)
  OBVIOUS
<1>5. Q \in Forms /\ E \in Forms /\ M \in Forms /\ N \in Forms
  BY <1>2, <1>3, <1>4, FormsKept
<1>6. MoreElements(R) = M /\ NextElement(R) = Q \cup N
  BY <1>2, <1>3, <1>4 DEF MoreElements, NextElement
<1>7. After(Q, t) = (IF t = "]" THEN R ELSE {}) /\ After(N, t) = (IF t = "," THEN M ELSE {})
  BY <1>1, <1>2, <1>4, <1>5, AfterToken
<1>8. After(M, t) = After(Q, t) \cup After(E, t) /\ After(Q \cup N, t) = After(Q, t) \cup After(N, t)
  BY <1>3, AfterUnion
<1>9. t \in {"]", Eof} => After(E, t) = {}
  <2>1. {"]", Eof} \cap {"cast", "[", "&", "id", "int", "bool", "{"} = {}
    BY DEF Eof
  <2> QED
    BY <1>2, <1>5, <2>1, ElementsRow
<1>10. After(E, t) = After(Dot("expression", Q \cup N), t)
  <2>1. Leftmost(E) = Dot("expression", Q) \cup Dot("expression", Dot(",", Q)) \cup Dot("expression", Dot(",", E))
    BY <1>2, <1>5, RulesAre
  <2>2. Dot(",", Q \cup E) = Dot(",", Q) \cup Dot(",", E)
    BY DEF Dot
  <2>3. PICK A, B : A = Dot(",", Q) /\ B = Dot(",", E)
    OBVIOUS
  <2>4. Dot("expression", A \cup B) = Dot("expression", A) \cup Dot("expression", B)
    BY DEF Dot
  <2>9. N = A \cup B
    BY <1>3, <1>4, <2>2, <2>3
  <2>5. Dot("expression", Q \cup N) = Dot("expression", Q) \cup Dot("expression", N)
    BY DotUnion
  <2>6. \A U, V, W : U \cup (V \cup W) = U \cup V \cup W
    OBVIOUS
  <2>7. Leftmost(E) = Dot("expression", Q \cup N)
    BY <2>1, <2>3, <2>4, <2>5, <2>6, <2>9
  <2>8. Ends7(E)
    BY <1>2, <1>5, ElementsRow, EndsLater
  <2> QED
    BY <2>7, <2>8, AfterOnce
<1>11. "]" # "," /\ Eof \notin {"]", ","}
  BY DEF Eof
<1> QED
  BY <1>2, <1>6, <1>7, <1>8, <1>9, <1>10, <1>11

\* An element cannot begin like the struct literal whose name comes before it.
LEMMA ElementBrace ==
  ASSUME ~Documented, NEW R \in Forms PROVE After(NextElement(R), "{") = {}
<1>1. PICK t : t = "{"
  OBVIOUS
<1>2. t \notin {"]", ","}
  BY <1>1
<1>3. After(NextElement(R), t) = {}
  BY <1>2, ElementsTurn
<1> QED
  BY <1>1, <1>3

\* ParseArray: a comma may come before the bracket.
LEMMA ParseArrayFaithful ==
  ASSUME ~Documented, Running, DepthInv', NEW R \in Forms, NEW X, Going(R, X), ParseArray
  PROVE  Faithful
<1>1. CASE Expect("array", "start", "[", "loop")
  <2>1. PICK Y : Y = MoreElements(R)
    OBVIOUS
  <2>2. /\ Left("array", "start", Top.flag, R, X) => X = Dot("[", Y)
        /\ Left("array", "loop", Top.flag, R, Y)
    BY <2>1 DEF Left, ArrayLeft
  <2>3. "[" \in Tokens
    BY TokenNames
  <2>4. TokenFirst("array", "start", "[", "loop", Top.flag, R, X, Y)
    BY <1>1, <2>2, <2>3 DEF TokenFirst
  <2> QED
    BY <2>4, TokenFaithful
<1>2. CASE Test("array", "loop", HasInput /\ ~Is("]"), "element", "close")
  <2>1. PICK Y, Z : Y = Dot("expression", NextElement(R)) /\ Z = Dot("]", R)
    OBVIOUS
  <2>2. /\ Left("array", "loop", Top.flag, R, X) => X = MoreElements(R)
        /\ Left("array", "element", Top.flag, R, Y) /\ Left("array", "close", Top.flag, R, Z)
    BY <2>1 DEF Left, ArrayLeft
  <2>3. X = MoreElements(R)
    BY <1>2, <2>2, PointLeft DEF Test
  <2>4. ((HasInput /\ ~Is("]")) => After(X, look) = After(Y, look)) /\ (~(HasInput /\ ~Is("]")) => After(X, look) = After(Z, look))
    BY <2>1, <2>3, ElementsTurn DEF Is, HasInput
  <2>5. TestFirst("array", "loop", HasInput /\ ~Is("]"), "element", "close", Top.flag, R, X, Y, Z)
    BY <1>2, <2>2, <2>4 DEF TestFirst
  <2> QED
    BY <2>5, TestFaithful
<1>3. CASE Child("array", "element", Frame("expression", FALSE), "element done", "comma")
  <2>1. PICK Y, Z : Y = NextElement(R) /\ Z = Dot("expression", NextElement(R))
    OBVIOUS
  <2>2. /\ Left("array", "element done", Top.flag, R, Y) /\ Left("expression", "start", FALSE, Y, Z)
        /\ Left("array", "element", Top.flag, R, X) => X = Z
        /\ Left("array", "element done", Top.flag, R, X) => Left("array", "comma", Top.flag, R, X)
    BY <2>1 DEF Left, ArrayLeft, ExpressionLeft
  <2>3. (After(Y, "{") = {}) /\ "expression" \notin Statements
    BY <2>1, ElementBrace DEF Statements
  <2>4. ChildFirst("array", "element", "expression", FALSE, "element done", "comma", Top.flag, R, X, Y, Z)
    BY <1>3, <2>2, <2>3 DEF ChildFirst
  <2> QED
    BY <2>4, ChildFaithful
<1>4. CASE At("array", "comma") /\ Is("]") /\ Goto("loop") /\ Quiet
  <2>1. X = NextElement(R)
    <3>1. Left("array", "comma", Top.flag, R, X) => X = NextElement(R)
      BY DEF Left, ArrayLeft
    <3> QED
      BY <1>4, <3>1, PointLeft
  <2>2. After(X, look) = After(MoreElements(R), look)
    BY <1>4, <2>1, ElementsTurn DEF Is
  <2>3. Left("array", "loop", Top.flag, R, MoreElements(R))
    BY DEF Left, ArrayLeft
  <2>4. GoesOn("array", "comma", "loop", Top.flag, R, X, MoreElements(R))
    BY <1>4, <2>2, <2>3 DEF GoesOn, Quiet
  <2> QED
    BY <2>4, GoesFaithful
<1>5. CASE ~Is("]") /\ Expect("array", "comma", ",", "loop")
  <2>1. At("array", "comma") /\ look # "]"
    BY <1>5 DEF Expect, Is
  <2>2. X = NextElement(R)
    <3>1. Left("array", "comma", Top.flag, R, X) => X = NextElement(R)
      BY DEF Left, ArrayLeft
    <3> QED
      BY <2>1, <3>1, PointLeft
  <2>3. (look = "," => After(X, look) = MoreElements(R)) /\ (look # "," => After(X, look) = {})
    BY <2>1, <2>2, ElementsTurn
  <2>4. Left("array", "loop", Top.flag, R, MoreElements(R))
    BY DEF Left, ArrayLeft
  <2>5. "," \in Tokens
    BY TokenNames
  <2>6. TokenNext("array", "comma", ",", "loop", Top.flag, R, X, MoreElements(R))
    BY <1>5, <2>3, <2>4, <2>5 DEF TokenNext
  <2> QED
    BY <2>6, ExpectFaithful
<1>6. CASE Expect("array", "close", "]", "end")
  <2>1. PICK Y : Y = R
    OBVIOUS
  <2>2. /\ Left("array", "close", Top.flag, R, X) => X = Dot("]", Y)
        /\ Y = R
    BY <2>1 DEF Left, ArrayLeft
  <2>3. "]" \in Tokens
    BY TokenNames
  <2>4. TokenFirst("array", "close", "]", "end", Top.flag, R, X, Y)
    BY <1>6, <2>2, <2>3 DEF TokenFirst
  <2> QED
    BY <2>4, TokenFaithful
<1> QED
  BY <1>1, <1>2, <1>3, <1>4, <1>5, <1>6 DEF ParseArray

\* After a name the brace begins a struct literal when nothing else can begin with it.
LEMMA NamedTurns ==
  ASSUME ~Documented, NEW R \in Forms, NEW t
  PROVE  /\ (t = "{" /\ After(R, t) = {} => After(R \cup Dot("struct_literal", R), t) = After(Dot("{", Dot("members", Dot("}", R))), t))
         /\ (t # "{" => After(R \cup Dot("struct_literal", R), t) = After(R, t))
<1>1. PICK S, M : S = Dot("struct_literal", R) /\ M = Dot("members", Dot("}", R))
  OBVIOUS
<1>2. After(R \cup S, t) = After(R, t) \cup After(S, t)
  BY AfterUnion
<1>3. After(S, t) = IF t = "{" THEN M ELSE {}
  BY <1>1, SimpleRows
<1>4. M \in Forms /\ "{" \in Tokens
  BY <1>1, FormsKept, TokenNames
<1>5. After(Dot("{", M), t) = IF t = "{" THEN M ELSE {}
  BY <1>4, AfterToken
<1> QED
  BY <1>1, <1>2, <1>3, <1>5

\* ParseIdentifier: a brace after the name begins a struct literal.
LEMMA ParseIdentifierFaithful ==
  ASSUME ~Documented, Running, DepthInv', NEW R \in Forms, NEW X, Going(R, X), ParseIdentifier
  PROVE  Faithful
<1>1. CASE Expect("identifier", "start", "id", "named")
  <2>1. PICK Y : Y = R \cup Dot("struct_literal", R)
    OBVIOUS
  <2>2. PICK A, B : A = R /\ B = Dot("struct_literal", R)
    OBVIOUS
  <2>3. Dot("id", A \cup B) = Dot("id", A) \cup Dot("id", B)
    BY DEF Dot
  <2>4. /\ Left("identifier", "start", Top.flag, R, X) => X = Dot("id", A) \cup Dot("id", B)
        /\ Left("identifier", "named", Top.flag, R, Y)
    BY <2>1, <2>2 DEF Left, IdentifierLeft
  <2>5. Left("identifier", "start", Top.flag, R, X) => X = Dot("id", Y)
    BY <2>1, <2>2, <2>3, <2>4
  <2>6. "id" \in Tokens
    BY TokenNames
  <2>7. TokenFirst("identifier", "start", "id", "named", Top.flag, R, X, Y)
    BY <1>1, <2>4, <2>5, <2>6 DEF TokenFirst
  <2> QED
    BY <2>7, TokenFaithful
<1>2. CASE /\ At("identifier", "named")
           /\ IF Is("{") THEN Become(Frame("struct_literal", FALSE)) ELSE Return("node")
           /\ Quiet
  <2>1. X = R \cup Dot("struct_literal", R)
    <3>1. Left("identifier", "named", Top.flag, R, X) => X = R \cup Dot("struct_literal", R)
      BY DEF Left, IdentifierLeft
    <3> QED
      BY <1>2, <3>1, PointLeft
  <2>8. At("identifier", "named") /\ Quiet
    BY <1>2
  <2>7. Fits("identifier", R) /\ At("identifier", "named") /\ Quiet
    BY <2>8, PointLeft
  <2>2. After(R, "{") = {}
    BY <2>7 DEF Fits, Values
  <2>3. PICK Y : Y = Dot("{", Dot("members", Dot("}", R)))
    OBVIOUS
  <2>4. (look = "{" => After(X, look) = After(Y, look)) /\ (look # "{" => After(X, look) = After(R, look))
    BY <2>1, <2>2, <2>3, NamedTurns
  <2>5. CASE look = "{"
    <3>1. Become(Frame("struct_literal", FALSE))
      BY <1>2, <2>5 DEF Is
    <3>2. Left("struct_literal", "start", FALSE, R, Y)
      BY <2>3 DEF Left, StructLiteralLeft
    <3>3. "struct_literal" \notin Values /\ "struct_literal" \notin Statements
      BY DEF Values, Statements
    <3>4. Fits("struct_literal", R)
      BY <2>7, <3>3 DEF Fits
    <3>5. Turns("identifier", "named", "struct_literal", FALSE, R, X, Y)
      BY <2>7, <2>4, <2>5, <3>1, <3>2, <3>4 DEF Turns, Quiet
    <3> QED
      BY <3>5, TurnsFaithful
  <2>6. CASE look # "{"
    <3>1. Return("node")
      BY <1>2, <2>6 DEF Is
    <3>2. Leaves("identifier", "named", "node", R, X)
      BY <2>7, <2>4, <2>6, <3>1 DEF Leaves, Quiet
    <3> QED
      BY <3>2, LeavesFaithful
  <2> QED
    BY <2>5, <2>6
<1> QED
  BY <1>1, <1>2 DEF ParseIdentifier

\* A member of a struct literal, and what comes after it.
LEMMA MembersTurn ==
  ASSUME ~Documented, NEW R \in Forms, NEW t
  PROVE  /\ After(Dot("members", Dot("}", R)), t) = After(Dot("id", Dot(":", Dot("expression", NextMember(R)))), t)
         /\ (t = "}" => After(NextMember(R), t) = After(Dot("}", R), t))
         /\ (t = "," => After(NextMember(R), t) = Dot("members", Dot("}", R)))
         /\ (t \notin {"}", ","} => After(NextMember(R), t) = {})
<1>1. "}" \in Tokens /\ "," \in Tokens /\ "id" \in Tokens
  BY TokenNames
<1>2. PICK Q, M, N : Q = Dot("}", R) /\ M = Dot("members", Q) /\ N = Dot(",", M)
  OBVIOUS
<1>3. Q \in Forms /\ M \in Forms /\ N \in Forms /\ NextMember(R) = Q \cup N
  BY <1>2, FormsKept DEF NextMember
<1>a. After(Q, t) = IF t = "}" THEN R ELSE {}
  BY <1>1, <1>2, AfterToken
<1>b. After(N, t) = IF t = "," THEN M ELSE {}
  <2>1. PICK c : c = ","
    OBVIOUS
  <2>2. c \in Tokens /\ N = Dot(c, M) /\ M \in Forms
    BY <1>1, <1>2, <1>3, <2>1
  <2>3. After(N, t) = IF t = c THEN M ELSE {}
    BY <2>2, AfterToken
  <2> QED
    BY <2>1, <2>3
<1>4. After(Q, t) = (IF t = "}" THEN R ELSE {}) /\ After(N, t) = (IF t = "," THEN M ELSE {})
  BY <1>a, <1>b
<1>5. After(Q \cup N, t) = After(Q, t) \cup After(N, t)
  BY AfterUnion
<1>6. PICK W : W = Dot(":", Dot("expression", Q \cup N))
  OBVIOUS
<1>7. W = Dot(":", Dot("expression", Q)) \cup Dot(":", Dot("expression", N))
  <2>1. Dot("expression", Q \cup N) = Dot("expression", Q) \cup Dot("expression", N)
    BY DEF Dot
  <2>2. PICK A, B : A = Dot("expression", Q) /\ B = Dot("expression", N)
    OBVIOUS
  <2>3. Dot(":", A \cup B) = Dot(":", A) \cup Dot(":", B)
    BY DEF Dot
  <2> QED
    BY <1>6, <2>1, <2>2, <2>3
<1>8. W \in Forms /\ After(Dot("id", W), t) = IF t = "id" THEN W ELSE {}
  BY <1>1, <1>6, FormsKept, AfterToken, ZenonT(60)
<1>9. After(M, t) = IF t = "id" THEN W ELSE {}
  BY <1>2, <1>3, <1>7, MembersRow
<1> QED
  BY <1>2, <1>3, <1>4, <1>5, <1>6, <1>8, <1>9

\* Nor can what comes after a member.
LEMMA MemberBrace ==
  ASSUME ~Documented, NEW R \in Forms PROVE After(NextMember(R), "{") = {}
<1>1. PICK t : t = "{"
  OBVIOUS
<1>2. t \notin {"}", ","}
  BY <1>1
<1>3. After(NextMember(R), t) = {}
  BY <1>2, MembersTurn
<1> QED
  BY <1>1, <1>3

\* At the end of the source there is no brace.
LEMMA NoEnd ==
  ASSUME ~Documented, NEW R \in Forms
  PROVE  After(Dot("members", Dot("}", R)), Eof) = {} /\ After(Dot("}", R), Eof) = {}
<1>1. Eof \notin {"id"} /\ Eof # "}"
  BY DEF Eof
<1>2. PICK Q : Q = Dot("}", R)
  OBVIOUS
<1>3. Q \in Forms /\ "}" \in Tokens
  BY <1>2, FormsKept, TokenNames
<1>4. After(Dot("members", Q), Eof) = {}
  BY <1>1, <1>3, MembersRow
<1> QED
  BY <1>1, <1>2, <1>3, <1>4, AfterToken

\* A struct literal begins to skip where nothing can come.
LEMMA SkipFaithful ==
  ASSUME ~Documented, Running, DepthInv', NEW R \in Forms, NEW X, Going(R, X), At("struct_literal", "next"),
         Call(Frame("synchronize", FALSE), "skipped"), Quiet, After(X, look) = After({}, look)
  PROVE  Faithful
<1>1. "struct_literal" # "synchronize" /\ "next" # "skipped"
  OBVIOUS
<1>2. forms # {} /\ stack # <<>> /\ Top.fn = "struct_literal"
  BY <1>1, NotSkipping
<1>3. PICK callee, caller : callee = Frame("synchronize", FALSE) /\ caller = [Top EXCEPT !.at = "skipped"]
  OBVIOUS
<1>4. callee.fn = "synchronize" /\ callee.at = "start" /\ callee.flag = FALSE
  BY <1>3 DEF Frame
<1>5. caller.fn = "struct_literal" /\ caller.at = "skipped"
  <2>1. Top \in Frames
    BY TopFrame DEF Running
  <2> QED
    BY <1>2, <1>3, <2>1 DEF Frames
<1>6. stack' = <<callee, caller>> \o Tail(stack)
  BY <1>3 DEF Call
<1>7. Fits(caller.fn, R) /\ Left(caller.fn, caller.at, caller.flag, R, {})
  <2>1. Fits("struct_literal", R)
    BY <1>2 DEF Going
  <2>2. Left("struct_literal", "skipped", caller.flag, R, {})
    BY DEF Left, StructLiteralLeft
  <2> QED
    BY <1>5, <2>1, <2>2
<1>8. Fits(callee.fn, {}) /\ Left(callee.fn, callee.at, callee.flag, {}, {})
  <2>1. {} \in Forms
    BY FormsKept
  <2>2. Fits("synchronize", {}) /\ Left("synchronize", "start", FALSE, {}, {})
    BY <2>1 DEF Fits, Values, Statements, Left, SynchronizeLeft
  <2> QED
    BY <1>4, <2>2
<1>9. UNCHANGED source /\ failed' = failed
  BY DEF Quiet
<1> QED
  BY <1>2, <1>6, <1>7, <1>8, <1>9, Enters

\* ParseStructLiteral: no comma comes before the brace, and without either the rest is skipped.
LEMMA ParseStructLiteralFaithful ==
  ASSUME ~Documented, Running, DepthInv', NEW R \in Forms, NEW X, Going(R, X), ParseStructLiteral
  PROVE  Faithful
<1>1. CASE Expect("struct_literal", "start", "{", "loop")
  <2>1. PICK Y : Y = Dot("members", Dot("}", R))
    OBVIOUS
  <2>2. /\ Left("struct_literal", "start", Top.flag, R, X) => X = Dot("{", Y)
        /\ Left("struct_literal", "loop", Top.flag, R, Y)
    BY <2>1 DEF Left, StructLiteralLeft
  <2>3. "{" \in Tokens
    BY TokenNames
  <2>4. TokenFirst("struct_literal", "start", "{", "loop", Top.flag, R, X, Y)
    BY <1>1, <2>2, <2>3 DEF TokenFirst
  <2> QED
    BY <2>4, TokenFaithful
<1>2. CASE Test("struct_literal", "loop", HasInput, "field", "close")
  <2>1. PICK Y, Z : Y = Dot("id", Dot(":", Dot("expression", NextMember(R)))) /\ Z = Dot("}", R)
    OBVIOUS
  <2>2. /\ Left("struct_literal", "loop", Top.flag, R, X) => X = Dot("members", Dot("}", R))
        /\ Left("struct_literal", "field", Top.flag, R, Y) /\ Left("struct_literal", "close", Top.flag, R, Z)
    BY <2>1 DEF Left, StructLiteralLeft
  <2>3. X = Dot("members", Dot("}", R))
    BY <1>2, <2>2, PointLeft DEF Test
  <2>4. ((HasInput) => After(X, look) = After(Y, look)) /\ (~(HasInput) => After(X, look) = After(Z, look))
    BY <2>1, <2>3, MembersTurn, NoEnd DEF HasInput
  <2>5. TestFirst("struct_literal", "loop", HasInput, "field", "close", Top.flag, R, X, Y, Z)
    BY <1>2, <2>2, <2>4 DEF TestFirst
  <2> QED
    BY <2>5, TestFaithful
<1>3. CASE Child("struct_literal", "field", Frame("struct_field", FALSE), "field done", "next")
  <2>1. PICK Y, Z : Y = NextMember(R) /\ Z = Dot("id", Dot(":", Dot("expression", NextMember(R))))
    OBVIOUS
  <2>2. /\ Left("struct_literal", "field done", Top.flag, R, Y) /\ Left("struct_field", "start", FALSE, Y, Z)
        /\ Left("struct_literal", "field", Top.flag, R, X) => X = Z
        /\ Left("struct_literal", "field done", Top.flag, R, X) => Left("struct_literal", "next", Top.flag, R, X)
    BY <2>1 DEF Left, StructLiteralLeft, StructFieldLeft
  <2>3. (After(Y, "{") = {}) /\ "struct_field" \notin Statements
    BY <2>1, MemberBrace DEF Statements
  <2>4. ChildFirst("struct_literal", "field", "struct_field", FALSE, "field done", "next", Top.flag, R, X, Y, Z)
    BY <1>3, <2>2, <2>3 DEF ChildFirst
  <2> QED
    BY <2>4, ChildFaithful
<1>4. CASE /\ At("struct_literal", "next")
           /\ \/ Is("}") /\ Goto("close") /\ Quiet
              \/ Is(",") /\ Consume /\ Goto("loop") /\ UNCHANGED failed
              \/ ~Is("}") /\ ~Is(",") /\ Call(Frame("synchronize", FALSE), "skipped") /\ Quiet
  <2>1. X = NextMember(R)
    <3>1. Left("struct_literal", "next", Top.flag, R, X) => X = NextMember(R)
      BY DEF Left, StructLiteralLeft
    <3> QED
      BY <1>4, <3>1, PointLeft
  <2>2. CASE Is("}") /\ Goto("close") /\ Quiet
    <3>1. PICK Y : Y = Dot("}", R)
      OBVIOUS
    <3>2. After(X, look) = After(Y, look)
      BY <2>1, <2>2, <3>1, MembersTurn DEF Is
    <3>3. Left("struct_literal", "close", Top.flag, R, Y)
      BY <3>1 DEF Left, StructLiteralLeft
    <3>4. GoesOn("struct_literal", "next", "close", Top.flag, R, X, Y)
      BY <1>4, <2>2, <3>2, <3>3 DEF GoesOn, Quiet
    <3> QED
      BY <3>4, GoesFaithful
  <2>3. CASE Is(",") /\ Consume /\ Goto("loop") /\ UNCHANGED failed
    <3>1. PICK Y : Y = Dot("members", Dot("}", R))
      OBVIOUS
    <3>2. After(X, look) = Y
      BY <2>1, <2>3, <3>1, MembersTurn DEF Is
    <3>3. Left("struct_literal", "loop", Top.flag, R, Y)
      BY <3>1 DEF Left, StructLiteralLeft
    <3>4. look # Eof
      BY <2>3, KnownToken, TokenNames
    <3>5. GoesOn("struct_literal", "next", "loop", Top.flag, R, X, Y)
      BY <1>4, <2>3, <3>2, <3>3, <3>4 DEF GoesOn
    <3> QED
      BY <3>5, GoesFaithful
  <2>4. CASE ~Is("}") /\ ~Is(",") /\ Call(Frame("synchronize", FALSE), "skipped") /\ Quiet
    <3>1. look \notin {"}", ","}
      BY <2>4 DEF Is
    <3>2. After(X, look) = After({}, look)
      BY <2>1, <3>1, MembersTurn, AfterEmpty
    <3> QED
      BY <1>4, <2>4, <3>2, SkipFaithful
  <2> QED
    BY <1>4, <2>2, <2>3, <2>4
<1>5. CASE At("struct_literal", "skipped") /\ Report
  <2>1. X = {}
    <3>1. Left("struct_literal", "skipped", Top.flag, R, X) => X = {}
      BY DEF Left, StructLiteralLeft
    <3> QED
      BY <1>5, <3>1, PointLeft
  <2>2. After(X, look) = {}
    BY <2>1, AfterEmpty
  <2> QED
    BY <1>5, <2>2, ReportFaithful DEF Report
<1>6. CASE Expect("struct_literal", "close", "}", "end")
  <2>1. PICK Y : Y = R
    OBVIOUS
  <2>2. /\ Left("struct_literal", "close", Top.flag, R, X) => X = Dot("}", Y)
        /\ Y = R
    BY <2>1 DEF Left, StructLiteralLeft
  <2>3. "}" \in Tokens
    BY TokenNames
  <2>4. TokenFirst("struct_literal", "close", "}", "end", Top.flag, R, X, Y)
    BY <1>6, <2>2, <2>3 DEF TokenFirst
  <2> QED
    BY <2>4, TokenFaithful
<1> QED
  BY <1>1, <1>2, <1>3, <1>4, <1>5, <1>6 DEF ParseStructLiteral

\* ParseExpressionStatement.
LEMMA ParseExpressionStatementFaithful ==
  ASSUME ~Documented, Running, DepthInv', NEW R \in Forms, NEW X, Going(R, X), ParseExpressionStatement
  PROVE  Faithful
<1>1. CASE At("expression_statement", "start") /\ Call(Frame("expression", FALSE), "semicolon") /\ Quiet
  <2>1. PICK Y : Y = Dot(";", R)
    OBVIOUS
  <2>2. X = Dot("expression", Y)
    <3>1. Left("expression_statement", "start", Top.flag, R, X) => X = Dot("expression", Y)
      BY <2>1 DEF Left, ExpressionStatementLeft
    <3> QED
      BY <1>1, <3>1, PointLeft
  <2>3. Left("expression_statement", "semicolon", Top.flag, R, Y) /\ Left("expression", "start", FALSE, Y, X)
    BY <2>1, <2>2 DEF Left, ExpressionStatementLeft, ExpressionLeft
  <2>4. After(Y, "{") = {} /\ "expression" \notin Statements
    BY <2>1, NoBrace, TokenNames DEF Statements
  <2>5. Asks("expression_statement", "start", "expression", FALSE, "semicolon", Top.flag, R, X, Y, X)
    BY <1>1, <2>3, <2>4 DEF Asks, Quiet
  <2> QED
    BY <2>5, AsksFaithful
<1>2. CASE /\ At("expression_statement", "semicolon")
           /\ \/ Is(";") /\ Consume /\ Return(ret) /\ UNCHANGED failed
              \/ ~Is(";") /\ Report /\ Return("null") /\ UNCHANGED source
  <2>1. X = Dot(";", R) /\ ";" \in Tokens
    <3>1. Left("expression_statement", "semicolon", Top.flag, R, X) => X = Dot(";", R)
      BY DEF Left, ExpressionStatementLeft
    <3> QED
      BY <1>2, <3>1, PointLeft, TokenNames
  <2>2. (look = ";" => After(X, look) = R) /\ (look # ";" => After(X, look) = {})
    BY <2>1, AfterToken
  <2>3. CASE Is(";") /\ Consume /\ Return(ret) /\ UNCHANGED failed
    <3>1. look = ";" /\ look # Eof
      BY <2>1, <2>3, KnownToken DEF Is
    <3>2. PICK r : r = ret
      OBVIOUS
    <3>3. Leaves("expression_statement", "semicolon", r, R, X)
      BY <1>2, <2>2, <2>3, <3>1, <3>2 DEF Leaves
    <3> QED
      BY <3>3, LeavesFaithful
  <2>4. CASE ~Is(";") /\ Report
    BY <2>2, <2>4, ReportFaithful DEF Is, Report
  <2> QED
    BY <1>2, <2>3, <2>4
<1> QED
  BY <1>1, <1>2 DEF ParseExpressionStatement

\* What comes after a declaration of a block.
LEMMA DeclarationsEnd ==
  ASSUME ~Documented, NEW R \in Forms
  PROVE  Ends6(Dot("declarations", Dot("}", R))) /\ After(Dot("declarations", Dot("}", R)), "else") = {}
<1>1. PICK t : t = "else"
  OBVIOUS
<1>2. Ends6(Dot("declarations", Dot("}", R))) /\ After(Dot("declarations", Dot("}", R)), t) = {}
  BY <1>1, DeclarationsRow
<1> QED
  BY <1>1, <1>2

\* The declarations of a block end with the brace.
LEMMA DeclarationsTurn ==
  ASSUME ~Documented, NEW R \in Forms, NEW t
  PROVE  /\ (t \notin {"}", Eof} => After(Dot("declarations", Dot("}", R)), t)
                                     = After(Dot("declaration", Dot("declarations", Dot("}", R))), t))
         /\ (t \in {"}", Eof} => After(Dot("declarations", Dot("}", R)), t) = After(Dot("}", R), t))
BY DeclarationsRow

\* ParseBlock: declarations up to the brace.
LEMMA ParseBlockFaithful ==
  ASSUME ~Documented, Running, DepthInv', NEW R \in Forms, NEW X, Going(R, X), ParseBlock
  PROVE  Faithful
<1>1. CASE Expect("block", "start", "{", "loop")
  <2>1. PICK Y : Y = Dot("declarations", Dot("}", R))
    OBVIOUS
  <2>2. /\ Left("block", "start", Top.flag, R, X) => X = Dot("{", Y)
        /\ Left("block", "loop", Top.flag, R, Y)
    BY <2>1 DEF Left, BlockLeft
  <2>3. "{" \in Tokens
    BY TokenNames
  <2>4. TokenFirst("block", "start", "{", "loop", Top.flag, R, X, Y)
    BY <1>1, <2>2, <2>3 DEF TokenFirst
  <2> QED
    BY <2>4, TokenFaithful
<1>2. CASE Test("block", "loop", HasInput /\ ~Is("}"), "statement", "close")
  <2>1. PICK Y, Z : Y = Dot("declaration", Dot("declarations", Dot("}", R))) /\ Z = Dot("}", R)
    OBVIOUS
  <2>2. /\ Left("block", "loop", Top.flag, R, X) => X = Dot("declarations", Dot("}", R))
        /\ Left("block", "statement", Top.flag, R, Y) /\ Left("block", "close", Top.flag, R, Z)
    BY <2>1 DEF Left, BlockLeft
  <2>3. X = Dot("declarations", Dot("}", R))
    BY <1>2, <2>2, PointLeft DEF Test
  <2>4. ((HasInput /\ ~Is("}")) => After(X, look) = After(Y, look)) /\ (~(HasInput /\ ~Is("}")) => After(X, look) = After(Z, look))
    BY <2>1, <2>3, DeclarationsTurn DEF Is, HasInput
  <2>5. TestFirst("block", "loop", HasInput /\ ~Is("}"), "statement", "close", Top.flag, R, X, Y, Z)
    BY <1>2, <2>2, <2>4 DEF TestFirst
  <2> QED
    BY <2>5, TestFaithful
<1>3. CASE Child("block", "statement", Frame("declaration", FALSE), "statement done", "loop")
  <2>1. PICK Y, Z : Y = Dot("declarations", Dot("}", R)) /\ Z = Dot("declaration", Dot("declarations", Dot("}", R)))
    OBVIOUS
  <2>2. /\ Left("block", "statement done", Top.flag, R, Y) /\ Left("declaration", "start", FALSE, Y, Z)
        /\ Left("block", "statement", Top.flag, R, X) => X = Z
        /\ Left("block", "statement done", Top.flag, R, X) => Left("block", "loop", Top.flag, R, X)
    BY <2>1 DEF Left, BlockLeft, DeclarationLeft
  <2>3. (Ends6(Y) /\ After(Y, "else") = {}) /\ "declaration" \notin Values
    BY <2>1, DeclarationsEnd DEF Values
  <2>4. ChildFirst("block", "statement", "declaration", FALSE, "statement done", "loop", Top.flag, R, X, Y, Z)
    BY <1>3, <2>2, <2>3 DEF ChildFirst
  <2> QED
    BY <2>4, ChildFaithful
<1>4. CASE Expect("block", "close", "}", "end")
  <2>1. PICK Y : Y = R
    OBVIOUS
  <2>2. /\ Left("block", "close", Top.flag, R, X) => X = Dot("}", Y)
        /\ Y = R
    BY <2>1 DEF Left, BlockLeft
  <2>3. "}" \in Tokens
    BY TokenNames
  <2>4. TokenFirst("block", "close", "}", "end", Top.flag, R, X, Y)
    BY <1>4, <2>2, <2>3 DEF TokenFirst
  <2> QED
    BY <2>4, TokenFaithful
<1> QED
  BY <1>1, <1>2, <1>3, <1>4 DEF ParseBlock

\* A block begins with its brace, an if with its word.
LEMMA BlockTurns ==
  ASSUME ~Documented, NEW R \in Forms, NEW t
  PROVE  After(Dot("block", R), t) = After(Dot("{", Dot("declarations", Dot("}", R))), t)
<1>1. PICK Q : Q = Dot("declarations", Dot("}", R))
  OBVIOUS
<1>2. Q \in Forms /\ "{" \in Tokens
  BY <1>1, FormsKept, TokenNames
<1>3. After(Dot("{", Q), t) = IF t = "{" THEN Q ELSE {}
  BY <1>2, AfterToken
<1> QED
  BY <1>1, <1>3, SimpleRows

\* An if statement begins with its keyword.
LEMMA IfTurns ==
  ASSUME ~Documented, NEW R \in Forms, NEW t
  PROVE  After(Dot("if_statement", R), t) =
           After(Dot("if", Dot("(", Dot("expression", Dot(")", Dot("block", Dot("alternative", R)))))), t)
<1>1. PICK Q : Q = Dot("(", Dot("expression", Dot(")", Dot("block", Dot("alternative", R)))))
  OBVIOUS
<1>2. Q \in Forms /\ "if" \in Tokens
  BY <1>1, FormsKept, TokenNames
<1>3. After(Dot("if", Q), t) = IF t = "if" THEN Q ELSE {}
  BY <1>2, AfterToken
<1> QED
  BY <1>1, <1>3, SimpleRows

\* An else goes on with an if statement or a block.
LEMMA ElseTurns ==
  ASSUME ~Documented, NEW R \in Forms, NEW t
  PROVE  /\ (t = "if" => After(Dot("if_statement", R) \cup Dot("block", R), t) =
               After(Dot("if", Dot("(", Dot("expression", Dot(")", Dot("block", Dot("alternative", R)))))), t))
         /\ (t # "if" => After(Dot("if_statement", R) \cup Dot("block", R), t) =
               After(Dot("{", Dot("declarations", Dot("}", R))), t))
<1>1. PICK A, B : A = Dot("if_statement", R) /\ B = Dot("block", R)
  OBVIOUS
<1>2. After(A \cup B, t) = After(A, t) \cup After(B, t)
  BY AfterUnion
<1>3. (t # "if" => After(A, t) = {}) /\ (t # "{" => After(B, t) = {})
  BY <1>1, SimpleRows
<1>4. "if" # "{"
  OBVIOUS
<1>5. (t = "if" => After(A \cup B, t) = After(A, t)) /\ (t # "if" => After(A \cup B, t) = After(B, t))
  BY <1>2, <1>3, <1>4
<1>6. /\ After(A, t) = After(Dot("if", Dot("(", Dot("expression", Dot(")", Dot("block", Dot("alternative", R)))))), t)
      /\ After(B, t) = After(Dot("{", Dot("declarations", Dot("}", R))), t)
  BY <1>1, IfTurns, BlockTurns, Zenon
<1> QED
  BY <1>1, <1>5, <1>6, Zenon

\* ParseIf: an else belongs to the nearest if.
LEMMA ParseIfFaithful ==
  ASSUME ~Documented, Running, DepthInv', NEW R \in Forms, NEW X, Going(R, X), ParseIf
  PROVE  Faithful
<1>1. CASE Expect("if", "start", "if", "open")
  <2>1. PICK Y : Y = Dot("(", Dot("expression", Dot(")", Dot("block", Dot("alternative", R)))))
    OBVIOUS
  <2>2. /\ Left("if", "start", Top.flag, R, X) => X = Dot("if", Y)
        /\ Left("if", "open", Top.flag, R, Y)
    BY <2>1 DEF Left, IfLeft
  <2>3. "if" \in Tokens
    BY TokenNames
  <2>4. TokenFirst("if", "start", "if", "open", Top.flag, R, X, Y)
    BY <1>1, <2>2, <2>3 DEF TokenFirst
  <2> QED
    BY <2>4, TokenFaithful
<1>2. CASE Expect("if", "open", "(", "condition")
  <2>1. PICK Y : Y = Dot("expression", Dot(")", Dot("block", Dot("alternative", R))))
    OBVIOUS
  <2>2. /\ Left("if", "open", Top.flag, R, X) => X = Dot("(", Y)
        /\ Left("if", "condition", Top.flag, R, Y)
    BY <2>1 DEF Left, IfLeft
  <2>3. "(" \in Tokens
    BY TokenNames
  <2>4. TokenFirst("if", "open", "(", "condition", Top.flag, R, X, Y)
    BY <1>2, <2>2, <2>3 DEF TokenFirst
  <2> QED
    BY <2>4, TokenFaithful
<1>3. CASE Child("if", "condition", Frame("expression", FALSE), "condition done", "close")
  <2>1. PICK Y, Z : Y = Dot(")", Dot("block", Dot("alternative", R))) /\ Z = Dot("expression", Dot(")", Dot("block", Dot("alternative", R))))
    OBVIOUS
  <2>2. /\ Left("if", "condition done", Top.flag, R, Y) /\ Left("expression", "start", FALSE, Y, Z)
        /\ Left("if", "condition", Top.flag, R, X) => X = Z
        /\ Left("if", "condition done", Top.flag, R, X) => Left("if", "close", Top.flag, R, X)
    BY <2>1 DEF Left, IfLeft, ExpressionLeft
  <2>3. (After(Y, "{") = {}) /\ "expression" \notin Statements
    BY <2>1, NoBrace, TokenNames, FormsKept DEF Statements
  <2>4. ChildFirst("if", "condition", "expression", FALSE, "condition done", "close", Top.flag, R, X, Y, Z)
    BY <1>3, <2>2, <2>3 DEF ChildFirst
  <2> QED
    BY <2>4, ChildFaithful
<1>4. CASE Expect("if", "close", ")", "then")
  <2>1. PICK Y : Y = Dot("block", Dot("alternative", R))
    OBVIOUS
  <2>2. /\ Left("if", "close", Top.flag, R, X) => X = Dot(")", Y)
        /\ Left("if", "then", Top.flag, R, Y)
    BY <2>1 DEF Left, IfLeft
  <2>3. ")" \in Tokens
    BY TokenNames
  <2>4. TokenFirst("if", "close", ")", "then", Top.flag, R, X, Y)
    BY <1>4, <2>2, <2>3 DEF TokenFirst
  <2> QED
    BY <2>4, TokenFaithful
<1>5. CASE Child("if", "then", Frame("block", FALSE), "then done", "else?")
  <2>1. PICK Q, Y, Z : Q = Dot("alternative", R) /\ Y = Q /\ Z = Dot("{", Dot("declarations", Dot("}", Q)))
    OBVIOUS
  <2>2. /\ Left("if", "then done", Top.flag, R, Y) /\ Left("block", "start", FALSE, Y, Z)
        /\ Left("if", "then", Top.flag, R, X) => X = Dot("block", Q)
        /\ Left("if", "then done", Top.flag, R, X) => Left("if", "else?", Top.flag, R, X)
    BY <2>1 DEF Left, IfLeft, BlockLeft
  <2>3. "block" \notin Values /\ "block" \notin Statements
    BY DEF Values, Statements
  <2>4. After(Dot("block", Q), look) = After(Z, look)
    BY <2>1, BlockTurns, FormsKept
  <2>5. ChildFirst("if", "then", "block", FALSE, "then done", "else?", Top.flag, R, X, Y, Z)
    BY <1>5, <2>2, <2>3, <2>4 DEF ChildFirst
  <2> QED
    BY <2>5, ChildFaithful
<1>6. CASE /\ At("if", "else?")
           /\ \/ Is("else") /\ Consume /\ Goto("else")
              \/ ~Is("else") /\ UNCHANGED source /\ Return("node")
           /\ UNCHANGED failed
  <2>1. At("if", "else?") /\ failed' = failed
    BY <1>6
  <2>2. X = Dot("alternative", R)
    <3>1. Left("if", "else?", Top.flag, R, X) => X = Dot("alternative", R)
      BY DEF Left, IfLeft
    <3> QED
      BY <2>1, <3>1, PointLeft
  <2>3. Ends6(R) /\ After(R, "else") = {}
    <3>1. Fits("if", R)
      BY <2>1, PointLeft
    <3> QED
      BY <3>1 DEF Fits, Statements
  <2>4. PICK Y : Y = Dot("if_statement", R) \cup Dot("block", R)
    OBVIOUS
  <2>5. (look = "else" => After(X, look) = Y) /\ (look # "else" => After(X, look) = After(R, look))
    BY <2>2, <2>3, <2>4, AlternativeRow
  <2>6. Left("if", "else", Top.flag, R, Y)
    BY <2>4 DEF Left, IfLeft
  <2>7. CASE Is("else") /\ Consume /\ Goto("else")
    <3>1. look = "else" /\ look # Eof
      BY <2>7, KnownToken, TokenNames DEF Is
    <3>2. GoesOn("if", "else?", "else", Top.flag, R, X, Y)
      BY <2>1, <2>5, <2>6, <2>7, <3>1 DEF GoesOn
    <3> QED
      BY <3>2, GoesFaithful
  <2>8. CASE ~Is("else") /\ UNCHANGED source /\ Return("node")
    <3>1. look # "else"
      BY <2>8 DEF Is
    <3>2. Leaves("if", "else?", "node", R, X)
      BY <2>1, <2>5, <2>8, <3>1 DEF Leaves
    <3> QED
      BY <3>2, LeavesFaithful
  <2> QED
    BY <1>6, <2>7, <2>8
<1>7. CASE At("if", "else") /\ Become(Frame(IF Is("if") THEN "if" ELSE "block", FALSE)) /\ Quiet
  <2>1. X = Dot("if_statement", R) \cup Dot("block", R)
    <3>1. Left("if", "else", Top.flag, R, X) => X = Dot("if_statement", R) \cup Dot("block", R)
      BY DEF Left, IfLeft
    <3> QED
      BY <1>7, <3>1, PointLeft
  <2>2. PICK new : new = IF Is("if") THEN "if" ELSE "block"
    OBVIOUS
  <2>3. PICK Y : Y = IF look = "if" THEN Dot("if", Dot("(", Dot("expression", Dot(")", Dot("block", Dot("alternative", R))))))
                     ELSE Dot("{", Dot("declarations", Dot("}", R)))
    OBVIOUS
  <2>4. new = IF look = "if" THEN "if" ELSE "block"
    BY <2>2 DEF Is
  <2>5. Left(new, "start", FALSE, R, Y)
    BY <2>3, <2>4 DEF Left, IfLeft, BlockLeft
  <2>6. After(X, look) = After(Y, look)
    BY <2>1, <2>3, ElseTurns
  <2>7. Fits("if", R) => Fits(new, R)
    BY <2>4 DEF Fits, Values, Statements
  <2>8. Become(Frame(new, FALSE))
    BY <1>7, <2>2
  <2>9. Turns("if", "else", new, FALSE, R, X, Y)
    BY <1>7, <2>5, <2>6, <2>7, <2>8 DEF Turns, Quiet
  <2> QED
    BY <2>9, TurnsFaithful
<1> QED
  BY <1>1, <1>2, <1>3, <1>4, <1>5, <1>6, <1>7 DEF ParseIf

\* What a statement begins with says which one it is.
LEMMA StatementTurns ==
  ASSUME ~Documented, NEW R \in Forms, NEW t
  PROVE  /\ (t = "if" => After(Dot("statement", R), t) =
               After(Dot("if", Dot("(", Dot("expression", Dot(")", Dot("block", Dot("alternative", R)))))), t))
         /\ (t = "{" => After(Dot("statement", R), t) = After(Dot("{", Dot("declarations", Dot("}", R))), t))
         /\ (t \notin {"if", "{"} => After(Dot("statement", R), t) = After(Dot("expression", Dot(";", R)), t))
<1>1. t = "if" => After(Dot("statement", R), t) = After(Dot("if_statement", R), t)
  <2>1. PICK Q : Q = Dot("(", Dot("expression", Dot(")", Dot("block", Dot("alternative", R)))))
    OBVIOUS
  <2>2. t = "if" => After(Dot("statement", R), t) = Q
    BY <2>1, StatementRow
  <2>3. t = "if" => After(Dot("if_statement", R), t) = Q
    BY <2>1, SimpleRows
  <2> QED
    BY <2>2, <2>3
<1>2. t = "{" => After(Dot("statement", R), t) = After(Dot("block", R), t)
  <2>1. PICK Q : Q = Dot("declarations", Dot("}", R))
    OBVIOUS
  <2>2. t = "{" => After(Dot("statement", R), t) = Q
    BY <2>1, StatementRow
  <2>3. t = "{" => After(Dot("block", R), t) = Q
    BY <2>1, SimpleRows
  <2> QED
    BY <2>2, <2>3
<1>3. PICK Q : Q = Dot(";", R)
  OBVIOUS
<1>4. Q \in Forms
  BY <1>3, FormsKept
<1>5. t \notin {"if", "{"} => After(Dot("statement", R), t) = After(Dot("expression", Q), t)
  <2>1. /\ (t = "cast" => After(Dot("expression", Q), t) =
              Dot("(", Dot("expression", Dot("hint", Dot(")", Q)))))
        /\ (t = "[" => After(Dot("expression", Q), t) = Dot("]", Q)
             \cup Dot("elements", Dot("]", Q)))
        /\ (t = "&" => After(Dot("expression", Q), t) = Dot("expression", Q))
        /\ (t = "id" => After(Dot("expression", Q), t) = Q \cup Dot("struct_literal", Q))
        /\ (t = "int" => After(Dot("expression", Q), t) = Q)
        /\ (t = "bool" => After(Dot("expression", Q), t) = Q)
        /\ (t \notin {"cast", "[", "&", "id", "int", "bool", "{"} => After(Dot("expression", Q), t) = {})
    BY <1>4, ExpressionRow
  <2>2. /\ (t = "cast" => After(Dot("statement", R), t) =
              Dot("(", Dot("expression", Dot("hint", Dot(")", Q)))))
        /\ (t = "[" => After(Dot("statement", R), t) = Dot("]", Q) \cup Dot("elements", Dot("]", Q)))
        /\ (t = "&" => After(Dot("statement", R), t) = Dot("expression", Q))
        /\ (t = "id" => After(Dot("statement", R), t) = Q \cup Dot("struct_literal", Q))
        /\ (t = "int" => After(Dot("statement", R), t) = Q)
        /\ (t = "bool" => After(Dot("statement", R), t) = Q)
        /\ (t \notin {"cast", "[", "&", "id", "int", "bool", "if", "{"} => After(Dot("statement", R), t) = {})
    BY <1>3, StatementRow
  <2> QED
    BY <2>1, <2>2
<1> QED
  BY <1>1, <1>2, <1>3, <1>5, IfTurns, BlockTurns

\* ParseStatement.
LEMMA ParseStatementFaithful ==
  ASSUME ~Documented, Running, DepthInv', NEW R \in Forms, NEW X, Going(R, X), ParseStatement
  PROVE  Faithful
<1>1. PICK choices : choices = {<<"if", "if">>, <<"{", "block">>}
  OBVIOUS
<1>2. Select("statement", "start", choices, "expression_statement")
  BY <1>1 DEF ParseStatement
<1>3. /\ At("statement", "start") /\ failed' = failed /\ UNCHANGED source
      /\ \/ \E c \in choices : Is(c[1]) /\ Become(Frame(c[2], Top.flag))
         \/ (\A c \in choices : ~Is(c[1])) /\ Become(Frame("expression_statement", Top.flag))
  BY <1>2, SelectIs
<1>4. X = Dot("statement", R)
  BY <1>3, PointLeft DEF Left, StatementLeft
<1>5. PICK new : /\ Become(Frame(new, Top.flag))
                 /\ \/ new = "if" /\ look = "if"
                    \/ new = "block" /\ look = "{"
                    \/ new = "expression_statement" /\ look \notin {"if", "{"}
  <2>1. /\ <<"if", "if">>[1] = "if" /\ <<"if", "if">>[2] = "if"
        /\ <<"{", "block">>[1] = "{" /\ <<"{", "block">>[2] = "block"
    OBVIOUS
  <2> QED
    BY <1>1, <1>3, <2>1 DEF Is
<1>6. Fits("statement", R) => Fits(new, R)
  BY <1>5 DEF Fits, Values, Statements
<1>7. PICK Y : Y = IF new = "if" THEN Dot("if", Dot("(", Dot("expression", Dot(")", Dot("block", Dot("alternative", R))))))
                   ELSE IF new = "block" THEN Dot("{", Dot("declarations", Dot("}", R)))
                   ELSE Dot("expression", Dot(";", R))
  OBVIOUS
<1>8. Left(new, "start", Top.flag, R, Y)
  BY <1>5, <1>7 DEF Left, IfLeft, BlockLeft, ExpressionStatementLeft
<1>9. After(X, look) = After(Y, look)
  BY <1>4, <1>5, <1>7, StatementTurns
<1>10. Turns("statement", "start", new, Top.flag, R, X, Y)
  BY <1>3, <1>5, <1>6, <1>8, <1>9 DEF Turns
<1> QED
  BY <1>10, TurnsFaithful

\* A field of a struct, and what comes after the fields.
LEMMA FieldsTurn ==
  ASSUME ~Documented, NEW R \in Forms, NEW t
  PROVE  /\ After(Dot("fields", Dot("}", R)), t)
              = After(Dot("id", Dot(":", Dot("field_type", Dot(";", MoreFields(R))))), t)
         /\ (t # "}" => After(MoreFields(R), t)
                          = After(Dot("id", Dot(":", Dot("field_type", Dot(";", MoreFields(R))))), t))
         /\ (t \in {"}", Eof} => /\ After(MoreFields(R), t) = After(Dot("}", R), t)
                                 /\ After(Dot("fields", Dot("}", R)), t) = {})
<1>1. "}" \in Tokens /\ "id" \in Tokens
  BY TokenNames
<1>2. PICK Q, F : Q = Dot("}", R) /\ F = Dot("fields", Q)
  OBVIOUS
<1>3. Q \in Forms /\ F \in Forms /\ MoreFields(R) = Q \cup F
  BY <1>2, FormsKept DEF MoreFields
<1>4. After(Q, t) = IF t = "}" THEN R ELSE {}
  BY <1>1, <1>2, AfterToken
<1>5. After(Q \cup F, t) = After(Q, t) \cup After(F, t)
  BY AfterUnion
<1>6. PICK W : W = Dot(":", Dot("field_type", Dot(";", Q \cup F)))
  OBVIOUS
<1>7. W = Dot(":", Dot("field_type", Dot(";", Q))) \cup Dot(":", Dot("field_type", Dot(";", F)))
  <2>1. Dot(";", Q \cup F) = Dot(";", Q) \cup Dot(";", F)
    BY DEF Dot
  <2>2. PICK A, B : A = Dot(";", Q) /\ B = Dot(";", F)
    OBVIOUS
  <2>3. Dot("field_type", A \cup B) = Dot("field_type", A) \cup Dot("field_type", B)
    BY DEF Dot
  <2>4. PICK C, D : C = Dot("field_type", A) /\ D = Dot("field_type", B)
    OBVIOUS
  <2>5. Dot(":", C \cup D) = Dot(":", C) \cup Dot(":", D)
    BY DEF Dot
  <2> QED
    BY <1>6, <2>1, <2>2, <2>3, <2>4, <2>5
<1>8. W \in Forms /\ After(Dot("id", W), t) = IF t = "id" THEN W ELSE {}
  BY <1>1, <1>6, FormsKept, AfterToken, ZenonT(60)
<1>9. After(F, t) = IF t = "id" THEN W ELSE {}
  BY <1>2, <1>3, <1>7, FieldsRow
<1>10. Eof \notin {"id", "}"}
  BY DEF Eof
<1> QED
  BY <1>2, <1>3, <1>4, <1>5, <1>6, <1>8, <1>9, <1>10

\* ParseStruct: at least one field.
LEMMA ParseStructFaithful ==
  ASSUME ~Documented, Running, DepthInv', NEW R \in Forms, NEW X, Going(R, X), ParseStruct
  PROVE  Faithful
<1>1. CASE Expect("struct", "start", "struct", "name")
  <2>1. PICK Y : Y = Dot("id", Dot("{", Dot("fields", Dot("}", R))))
    OBVIOUS
  <2>2. Left("struct", "start", Top.flag, R, X) => ~Top.flag /\ X = Dot("struct", Y) /\ Left("struct", "name", Top.flag, R, Y)
    BY <2>1 DEF Left, StructLeft
  <2>3. "struct" \in Tokens
    BY TokenNames
  <2>4. Left("struct", "start", Top.flag, R, X)
    BY <1>1, PointLeft DEF Expect
  <2>5. TokenFirst("struct", "start", "struct", "name", Top.flag, R, X, Y)
    BY <1>1, <2>2, <2>3, <2>4 DEF TokenFirst
  <2> QED
    BY <2>5, TokenFaithful
<1>2. CASE Expect("struct", "name", "id", "open")
  <2>1. PICK Y : Y = Dot("{", Dot("fields", Dot("}", R)))
    OBVIOUS
  <2>2. Left("struct", "name", Top.flag, R, X) => ~Top.flag /\ X = Dot("id", Y) /\ Left("struct", "open", Top.flag, R, Y)
    BY <2>1 DEF Left, StructLeft
  <2>3. "id" \in Tokens
    BY TokenNames
  <2>4. Left("struct", "name", Top.flag, R, X)
    BY <1>2, PointLeft DEF Expect
  <2>5. TokenFirst("struct", "name", "id", "open", Top.flag, R, X, Y)
    BY <1>2, <2>2, <2>3, <2>4 DEF TokenFirst
  <2> QED
    BY <2>5, TokenFaithful
<1>3. CASE Expect("struct", "open", "{", "loop")
  <2>1. PICK Y : Y = Dot("fields", Dot("}", R))
    OBVIOUS
  <2>2. Left("struct", "open", Top.flag, R, X) => ~Top.flag /\ X = Dot("{", Y) /\ Left("struct", "loop", Top.flag, R, Y)
    BY <2>1 DEF Left, StructLeft
  <2>3. "{" \in Tokens
    BY TokenNames
  <2>4. Left("struct", "open", Top.flag, R, X)
    BY <1>3, PointLeft DEF Expect
  <2>5. TokenFirst("struct", "open", "{", "loop", Top.flag, R, X, Y)
    BY <1>3, <2>2, <2>3, <2>4 DEF TokenFirst
  <2> QED
    BY <2>5, TokenFaithful
<1>4. CASE Test("struct", "loop", HasInput /\ ~Is("}"), "member", "members done")
  <2>1. PICK W, Q, Z : W = Dot("id", Dot(":", Dot("field_type", Dot(";", MoreFields(R))))) /\ Q = Dot("}", R)
                      /\ Z = IF Top.flag THEN Q ELSE {}
    OBVIOUS
  <2>2. /\ Left("struct", "loop", Top.flag, R, X) => X = IF Top.flag THEN MoreFields(R) ELSE Dot("fields", Dot("}", R))
        /\ Left("struct", "member", Top.flag, R, W) /\ Left("struct", "members done", Top.flag, R, Z)
    BY <2>1 DEF Left, StructLeft
  <2>3. X = IF Top.flag THEN MoreFields(R) ELSE Dot("fields", Dot("}", R))
    BY <1>4, <2>2, PointLeft DEF Test
  <2>4. look # "}" => After(X, look) = After(W, look)
    BY <2>1, <2>3, FieldsTurn
  <2>5. look \in {"}", Eof} => After(X, look) = After(Z, look)
    <3>1. After({}, look) = {}
      BY AfterEmpty
    <3>2. look \in {"}", Eof} => After(MoreFields(R), look) = After(Q, look) /\ After(Dot("fields", Dot("}", R)), look) = {}
      BY <2>1, FieldsTurn
    <3>3. CASE Top.flag
      BY <3>2, <3>3, <2>1, <2>3
    <3>4. CASE ~Top.flag
      BY <3>1, <3>2, <3>4, <2>1, <2>3
    <3> QED
      BY <3>3, <3>4
  <2>6. /\ (HasInput /\ ~Is("}") => After(X, look) = After(W, look))
        /\ (~(HasInput /\ ~Is("}")) => After(X, look) = After(Z, look))
    BY <2>4, <2>5 DEF HasInput, Is
  <2>7. TestFirst("struct", "loop", HasInput /\ ~Is("}"), "member", "members done", Top.flag, R, X, W, Z)
    BY <1>4, <2>2, <2>6 DEF TestFirst
  <2> QED
    BY <2>7, TestFaithful
<1>5. CASE At("struct", "member") /\ Call(Frame("field_declaration", FALSE), "member done") /\ Quiet
  <2>1. PICK Y : Y = MoreFields(R)
    OBVIOUS
  <2>2. /\ Left("struct", "member", Top.flag, R, X) => Left("field_declaration", "start", FALSE, Y, X)
        /\ Left("struct", "member done", Top.flag, R, Y)
    BY <2>1 DEF Left, StructLeft, FieldDeclarationLeft
  <2>3. "field_declaration" \notin Values /\ "field_declaration" \notin Statements
    BY DEF Values, Statements
  <2>4. Left("struct", "member", Top.flag, R, X)
    BY <1>5, PointLeft
  <2>5. Asks("struct", "member", "field_declaration", FALSE, "member done", Top.flag, R, X, Y, X)
    BY <1>5, <2>2, <2>3, <2>4 DEF Asks, Quiet
  <2> QED
    BY <2>5, AsksFaithful
<1>6. CASE /\ At("struct", "member done")
           /\ IF ret = "null" THEN Return("null") ELSE GotoFlag("loop", TRUE)
           /\ Quiet
  <2>1. At("struct", "member done") /\ GotoFlag("loop", TRUE) /\ UNCHANGED source /\ failed' = failed
    BY <1>6 DEF Running, NullMeansError, Quiet
  <2>2. Left("struct", "member done", Top.flag, R, X) => Left("struct", "loop", TRUE, R, X)
    BY DEF Left, StructLeft
  <2>3. Left("struct", "member done", Top.flag, R, X)
    BY <2>1, PointLeft
  <2>4. GoesOn("struct", "member done", "loop", TRUE, R, X, X)
    BY <2>1, <2>2, <2>3 DEF GoesOn
  <2> QED
    BY <2>4, GoesFaithful
<1>7. CASE /\ At("struct", "members done")
           /\ failed' = (failed \/ ~Top.flag)
           /\ Goto("close") /\ UNCHANGED source
  <2>1. At("struct", "members done")
    BY <1>7
  <2>2. Left("struct", "members done", Top.flag, R, X)
    BY <2>1, PointLeft
  <2>3. CASE Top.flag
    <3>1. /\ Left("struct", "members done", Top.flag, R, X) => Left("struct", "close", Top.flag, R, X)
      BY <2>3 DEF Left, StructLeft
    <3>2. failed' = failed /\ Goto("close") /\ UNCHANGED source
      BY <1>7, <2>3 DEF Running
    <3>3. GoesOn("struct", "members done", "close", Top.flag, R, X, X)
      BY <2>1, <2>2, <3>1, <3>2 DEF GoesOn
    <3> QED
      BY <3>3, GoesFaithful
  <2>4. CASE ~Top.flag
    <3>1. Left("struct", "members done", Top.flag, R, X) => X = {}
      BY <2>4 DEF Left, StructLeft
    <3>2. After(X, look) = {} /\ failed'
      BY <1>7, <2>2, <2>4, <3>1, AfterEmpty
    <3> QED
      BY <3>2, ReportFaithful
  <2> QED
    BY <2>3, <2>4
<1>8. CASE Expect("struct", "close", "}", "end")
  <2>1. PICK Y : Y = R
    OBVIOUS
  <2>2. /\ Left("struct", "close", Top.flag, R, X) => X = Dot("}", Y)
        /\ Y = R
    BY <2>1 DEF Left, StructLeft
  <2>3. "}" \in Tokens
    BY TokenNames
  <2>4. TokenFirst("struct", "close", "}", "end", Top.flag, R, X, Y)
    BY <1>8, <2>2, <2>3 DEF TokenFirst
  <2> QED
    BY <2>4, TokenFaithful
<1> QED
  BY <1>1, <1>2, <1>3, <1>4, <1>5, <1>6, <1>7, <1>8 DEF ParseStruct

\* A property of an attribute, and what comes after it.
LEMMA PropertyTurn ==
  ASSUME ~Documented, NEW R \in Forms, NEW t
  PROVE  /\ (t = ")" => After(NextProperty(R), t) = After(Dot(")", Dot("]", R)), t))
         /\ (t = "," => After(NextProperty(R), t) = Dot("properties", Dot(")", Dot("]", R))))
         /\ (t \notin {")", ","} => After(NextProperty(R), t) = {})
<1>1. ")" \in Tokens /\ "," \in Tokens
  BY TokenNames
<1>2. PICK Q, P, N : Q = Dot("]", R) /\ P = Dot("properties", Dot(")", Q)) /\ N = Dot(",", P)
  OBVIOUS
<1>3. Q \in Forms /\ P \in Forms
  BY <1>2, FormsKept
<1>4. PICK C : C = Dot(")", Q)
  OBVIOUS
<1>5. After(C, t) = IF t = ")" THEN Q ELSE {}
  BY <1>1, <1>3, <1>4, AfterToken
<1>6. After(N, t) = IF t = "," THEN P ELSE {}
  <2>1. PICK c : c = ","
    OBVIOUS
  <2>2. c \in Tokens /\ N = Dot(c, P)
    BY <1>1, <1>2, <2>1
  <2>3. After(N, t) = IF t = c THEN P ELSE {}
    BY <1>3, <2>2, AfterToken
  <2> QED
    BY <2>1, <2>3
<1>7. After(C \cup N, t) = After(C, t) \cup After(N, t)
  BY AfterUnion
<1>8. NextProperty(R) = C \cup N
  BY <1>2, <1>4 DEF NextProperty
<1> QED
  BY <1>2, <1>4, <1>5, <1>6, <1>7, <1>8

\* A value cannot be followed by a brace.
LEMMA PropertyBrace ==
  ASSUME ~Documented, NEW R \in Forms PROVE After(NextProperty(R), "{") = {}
<1>1. PICK t : t = "{"
  OBVIOUS
<1>2. t \notin {")", ","}
  BY <1>1
<1>3. After(NextProperty(R), t) = {}
  BY <1>2, PropertyTurn
<1> QED
  BY <1>1, <1>3

\* ParseAttribute: the arguments are optional, and a comma may come before the parenthesis.
LEMMA ParseAttributeFaithful ==
  ASSUME ~Documented, Running, DepthInv', NEW R \in Forms, NEW X, Going(R, X), ParseAttribute
  PROVE  Faithful
<1>1. CASE Expect("attribute", "start", "#", "open")
  <2>1. PICK Y : Y = Dot("[", Dot("id", Dot("arguments", Dot("]", R))))
    OBVIOUS
  <2>2. /\ Left("attribute", "start", Top.flag, R, X) => X = Dot("#", Y)
        /\ Left("attribute", "open", Top.flag, R, Y)
    BY <2>1 DEF Left, AttributeLeft
  <2>3. "#" \in Tokens
    BY TokenNames
  <2>4. TokenFirst("attribute", "start", "#", "open", Top.flag, R, X, Y)
    BY <1>1, <2>2, <2>3 DEF TokenFirst
  <2> QED
    BY <2>4, TokenFaithful
<1>2. CASE Expect("attribute", "open", "[", "name")
  <2>1. PICK Y : Y = Dot("id", Dot("arguments", Dot("]", R)))
    OBVIOUS
  <2>2. /\ Left("attribute", "open", Top.flag, R, X) => X = Dot("[", Y)
        /\ Left("attribute", "name", Top.flag, R, Y)
    BY <2>1 DEF Left, AttributeLeft
  <2>3. "[" \in Tokens
    BY TokenNames
  <2>4. TokenFirst("attribute", "open", "[", "name", Top.flag, R, X, Y)
    BY <1>2, <2>2, <2>3 DEF TokenFirst
  <2> QED
    BY <2>4, TokenFaithful
<1>3. CASE Expect("attribute", "name", "id", "arguments")
  <2>1. PICK Y : Y = Dot("arguments", Dot("]", R))
    OBVIOUS
  <2>2. /\ Left("attribute", "name", Top.flag, R, X) => X = Dot("id", Y)
        /\ Left("attribute", "arguments", Top.flag, R, Y)
    BY <2>1 DEF Left, AttributeLeft
  <2>3. "id" \in Tokens
    BY TokenNames
  <2>4. TokenFirst("attribute", "name", "id", "arguments", Top.flag, R, X, Y)
    BY <1>3, <2>2, <2>3 DEF TokenFirst
  <2> QED
    BY <2>4, TokenFaithful
<1>4. CASE Option("attribute", "arguments", "(", "loop", "close")
  <2>1. PICK Y, Z : Y = Dot("properties", Dot(")", Dot("]", R))) /\ Z = Dot("]", R)
    OBVIOUS
  <2>2. /\ Left("attribute", "arguments", Top.flag, R, X) => X = Dot("arguments", Dot("]", R))
        /\ Left("attribute", "loop", Top.flag, R, Y) /\ Left("attribute", "close", Top.flag, R, Z)
    BY <2>1 DEF Left, AttributeLeft
  <2>3. X = Dot("arguments", Dot("]", R))
    BY <1>4, <2>2, PointLeft DEF Option
  <2>4. (look = "(" => After(X, look) = Y) /\ (look # "(" => After(X, look) = After(Z, look))
    BY <2>1, <2>3, ArgumentsRow
  <2>5. "(" \in Tokens
    BY TokenNames
  <2>6. OptionFirst("attribute", "arguments", "(", "loop", "close", Top.flag, R, X, Y, Z)
    BY <1>4, <2>2, <2>4, <2>5 DEF OptionFirst
  <2> QED
    BY <2>6, OptionFaithful
<1>5. CASE Option("attribute", "loop", "id", "colon", "arguments done")
  <2>1. PICK Y, Z : Y = Dot(":", Dot("expression", NextProperty(R))) /\ Z = Dot(")", Dot("]", R))
    OBVIOUS
  <2>2. /\ Left("attribute", "loop", Top.flag, R, X) => X = Dot("properties", Dot(")", Dot("]", R)))
        /\ Left("attribute", "colon", Top.flag, R, Y) /\ Left("attribute", "arguments done", Top.flag, R, Z)
    BY <2>1 DEF Left, AttributeLeft
  <2>3. X = Dot("properties", Dot(")", Dot("]", R)))
    BY <1>5, <2>2, PointLeft DEF Option
  <2>4. (look = "id" => After(X, look) = Y) /\ (look # "id" => After(X, look) = After(Z, look))
    BY <2>1, <2>3, PropertiesRow
  <2>5. "id" \in Tokens
    BY TokenNames
  <2>6. OptionFirst("attribute", "loop", "id", "colon", "arguments done", Top.flag, R, X, Y, Z)
    BY <1>5, <2>2, <2>4, <2>5 DEF OptionFirst
  <2> QED
    BY <2>6, OptionFaithful
<1>6. CASE Expect("attribute", "colon", ":", "value")
  <2>1. PICK Y : Y = Dot("expression", NextProperty(R))
    OBVIOUS
  <2>2. /\ Left("attribute", "colon", Top.flag, R, X) => X = Dot(":", Y)
        /\ Left("attribute", "value", Top.flag, R, Y)
    BY <2>1 DEF Left, AttributeLeft
  <2>3. ":" \in Tokens
    BY TokenNames
  <2>4. TokenFirst("attribute", "colon", ":", "value", Top.flag, R, X, Y)
    BY <1>6, <2>2, <2>3 DEF TokenFirst
  <2> QED
    BY <2>4, TokenFaithful
<1>7. CASE Child("attribute", "value", Frame("expression", FALSE), "value done", "comma")
  <2>1. PICK Y, Z : Y = NextProperty(R) /\ Z = Dot("expression", NextProperty(R))
    OBVIOUS
  <2>2. /\ Left("attribute", "value done", Top.flag, R, Y) /\ Left("expression", "start", FALSE, Y, Z)
        /\ Left("attribute", "value", Top.flag, R, X) => X = Z
        /\ Left("attribute", "value done", Top.flag, R, X) => Left("attribute", "comma", Top.flag, R, X)
    BY <2>1 DEF Left, AttributeLeft, ExpressionLeft
  <2>3. (After(Y, "{") = {}) /\ "expression" \notin Statements
    BY <2>1, PropertyBrace DEF Statements
  <2>4. ChildFirst("attribute", "value", "expression", FALSE, "value done", "comma", Top.flag, R, X, Y, Z)
    BY <1>7, <2>2, <2>3 DEF ChildFirst
  <2> QED
    BY <2>4, ChildFaithful
<1>8. CASE At("attribute", "comma") /\ Is(")") /\ Goto("arguments done") /\ Quiet
  <2>1. X = NextProperty(R)
    <3>1. Left("attribute", "comma", Top.flag, R, X) => X = NextProperty(R)
      BY DEF Left, AttributeLeft
    <3> QED
      BY <1>8, <3>1, PointLeft
  <2>2. PICK Y : Y = Dot(")", Dot("]", R))
    OBVIOUS
  <2>3. After(X, look) = After(Y, look)
    BY <1>8, <2>1, <2>2, PropertyTurn DEF Is
  <2>4. Left("attribute", "arguments done", Top.flag, R, Y)
    BY <2>2 DEF Left, AttributeLeft
  <2>5. GoesOn("attribute", "comma", "arguments done", Top.flag, R, X, Y)
    BY <1>8, <2>3, <2>4 DEF GoesOn, Quiet
  <2> QED
    BY <2>5, GoesFaithful
<1>9. CASE ~Is(")") /\ Expect("attribute", "comma", ",", "loop")
  <2>1. At("attribute", "comma") /\ look # ")"
    BY <1>9 DEF Expect, Is
  <2>2. X = NextProperty(R)
    <3>1. Left("attribute", "comma", Top.flag, R, X) => X = NextProperty(R)
      BY DEF Left, AttributeLeft
    <3> QED
      BY <2>1, <3>1, PointLeft
  <2>3. PICK Y : Y = Dot("properties", Dot(")", Dot("]", R)))
    OBVIOUS
  <2>4. (look = "," => After(X, look) = Y) /\ (look # "," => After(X, look) = {})
    BY <2>1, <2>2, <2>3, PropertyTurn
  <2>5. Left("attribute", "loop", Top.flag, R, Y)
    BY <2>3 DEF Left, AttributeLeft
  <2>6. "," \in Tokens
    BY TokenNames
  <2>7. TokenNext("attribute", "comma", ",", "loop", Top.flag, R, X, Y)
    BY <1>9, <2>4, <2>5, <2>6 DEF TokenNext
  <2> QED
    BY <2>7, ExpectFaithful
<1>10. CASE Expect("attribute", "arguments done", ")", "close")
  <2>1. PICK Y : Y = Dot("]", R)
    OBVIOUS
  <2>2. /\ Left("attribute", "arguments done", Top.flag, R, X) => X = Dot(")", Y)
        /\ Left("attribute", "close", Top.flag, R, Y)
    BY <2>1 DEF Left, AttributeLeft
  <2>3. ")" \in Tokens
    BY TokenNames
  <2>4. TokenFirst("attribute", "arguments done", ")", "close", Top.flag, R, X, Y)
    BY <1>10, <2>2, <2>3 DEF TokenFirst
  <2> QED
    BY <2>4, TokenFaithful
<1>11. CASE Expect("attribute", "close", "]", "end")
  <2>1. PICK Y : Y = R
    OBVIOUS
  <2>2. /\ Left("attribute", "close", Top.flag, R, X) => X = Dot("]", Y)
        /\ Y = R
    BY <2>1 DEF Left, AttributeLeft
  <2>3. "]" \in Tokens
    BY TokenNames
  <2>4. TokenFirst("attribute", "close", "]", "end", Top.flag, R, X, Y)
    BY <1>11, <2>2, <2>3 DEF TokenFirst
  <2> QED
    BY <2>4, TokenFaithful
<1> QED
  BY <1>1, <1>2, <1>3, <1>4, <1>5, <1>6, <1>7, <1>8, <1>9, <1>10, <1>11 DEF ParseAttribute

\* ParseDeclaration: what comes after attributes is a variable or a struct.
LEMMA ParseDeclarationFaithful ==
  ASSUME ~Documented, Running, DepthInv', NEW R \in Forms, NEW X, Going(R, X), ParseDeclaration
  PROVE  Faithful
<1>d. At("declaration", "start") /\ look \in {"#", "var", "struct"} => After(X, look) = After(Attributed(R), look)
  <2>1. Left("declaration", "start", Top.flag, R, X) => X = Dot("declaration", R) \/ X = Attributed(R)
    BY DEF Left, DeclarationLeft
  <2>2. At("declaration", "start") => X = Dot("declaration", R) \/ X = Attributed(R)
    BY <2>1, PointLeft
  <2>3. look \in {"#", "var", "struct"} => After(Dot("declaration", R), look) = After(Attributed(R), look)
    BY DeclarationRow
  <2> QED
    BY <2>2, <2>3
<1>1. CASE At("declaration", "start") /\ Is("#") /\ Call(Frame("attribute", FALSE), "attribute done") /\ Quiet
  <2>1. look = "#"
    BY <1>1 DEF Is
  <2>2. PICK Y, Q : Y = Attributed(R) /\ Q = Dot("[", Dot("id", Dot("arguments", Dot("]", Y))))
    OBVIOUS
  <2>3. PICK Z : Z = Dot("#", Q)
    OBVIOUS
  <2>4. After(X, look) = After(Z, look)
    <3>1. After(Y, look) = Q
      BY <2>1, <2>2, AttributedRow
    <3>2. After(X, look) = After(Y, look)
      BY <1>1, <2>1, <2>2, <1>d
    <3>3. Q \in Forms /\ "#" \in Tokens
      BY <2>2, FormsKept, TokenNames
    <3>4. After(Z, look) = Q
      BY <2>1, <2>3, <3>3, AfterToken
    <3> QED
      BY <3>1, <3>2, <3>4
  <2>5. Left("declaration", "attribute done", Top.flag, R, Y) /\ Left("attribute", "start", FALSE, Y, Z)
    BY <2>2, <2>3 DEF Left, DeclarationLeft, AttributeLeft
  <2>6. "attribute" \notin Values /\ "attribute" \notin Statements
    BY DEF Values, Statements
  <2>7. Asks("declaration", "start", "attribute", FALSE, "attribute done", Top.flag, R, X, Y, Z)
    BY <1>1, <2>4, <2>5, <2>6 DEF Asks, Quiet
  <2> QED
    BY <2>7, AsksFaithful
<1>2. CASE At("declaration", "start") /\ Is("var") /\ Become(Frame("variable", FALSE)) /\ Quiet
  <2>1. look = "var"
    BY <1>2 DEF Is
  <2>2. PICK Q : Q = Dot("id", Dot("hint", Dot("=", Dot("expression", Dot(";", R)))))
    OBVIOUS
  <2>3. PICK Y : Y = Dot("var", Q)
    OBVIOUS
  <2>4. After(X, look) = After(Y, look)
    <3>1. After(X, look) = After(Attributed(R), look)
      BY <1>2, <2>1, <1>d
    <3>2. After(Attributed(R), look) = After(Dot("variable", R), look)
      BY <2>1, AttributedRow
    <3>3. After(Dot("variable", R), look) = Q
      BY <2>1, <2>2, SimpleRows
    <3>4. Q \in Forms /\ "var" \in Tokens
      BY <2>2, FormsKept, TokenNames
    <3>5. After(Y, look) = Q
      BY <2>1, <2>3, <3>4, AfterToken
    <3> QED
      BY <3>1, <3>2, <3>3, <3>5
  <2>5. Left("variable", "start", FALSE, R, Y)
    BY <2>2, <2>3 DEF Left, VariableLeft
  <2>6. Fits("declaration", R) => Fits("variable", R)
    BY DEF Fits, Values, Statements
  <2>7. Turns("declaration", "start", "variable", FALSE, R, X, Y)
    BY <1>2, <2>4, <2>5, <2>6 DEF Turns, Quiet
  <2> QED
    BY <2>7, TurnsFaithful
<1>3. CASE At("declaration", "start") /\ Is("struct") /\ Become(Frame("struct", FALSE)) /\ Quiet
  <2>1. look = "struct"
    BY <1>3 DEF Is
  <2>2. PICK Q : Q = Dot("id", Dot("{", Dot("fields", Dot("}", R))))
    OBVIOUS
  <2>3. PICK Y : Y = Dot("struct", Q)
    OBVIOUS
  <2>4. After(X, look) = After(Y, look)
    <3>1. After(X, look) = After(Attributed(R), look)
      BY <1>3, <2>1, <1>d
    <3>2. After(Attributed(R), look) = After(Dot("struct_declaration", R), look)
      BY <2>1, AttributedRow
    <3>3. After(Dot("struct_declaration", R), look) = Q
      BY <2>1, <2>2, SimpleRows
    <3>4. Q \in Forms /\ "struct" \in Tokens
      BY <2>2, FormsKept, TokenNames
    <3>5. After(Y, look) = Q
      BY <2>1, <2>3, <3>4, AfterToken
    <3> QED
      BY <3>1, <3>2, <3>3, <3>5
  <2>5. Left("struct", "start", FALSE, R, Y)
    BY <2>2, <2>3 DEF Left, StructLeft
  <2>6. Fits("declaration", R) => Fits("struct", R)
    BY DEF Fits, Values, Statements
  <2>7. Turns("declaration", "start", "struct", FALSE, R, X, Y)
    BY <1>3, <2>4, <2>5, <2>6 DEF Turns, Quiet
  <2> QED
    BY <2>7, TurnsFaithful
<1>4. CASE /\ At("declaration", "start")
           /\ look \notin {"#", "var", "struct"}
           /\ failed' = (failed \/ Top.flag)
           /\ Become(Frame("statement", FALSE)) /\ UNCHANGED source
  <2>1. look \notin {"#", "var", "struct"}
    BY <1>4
  <2>2. CASE Top.flag
    <3>1. After(X, look) = {}
      <4>1. Left("declaration", "start", Top.flag, R, X) => X = Attributed(R)
        BY <2>2 DEF Left, DeclarationLeft
      <4>2. X = Attributed(R)
        BY <1>4, <4>1, PointLeft
      <4> QED
        BY <2>1, <4>2, AttributedRow
    <3>2. failed'
      BY <1>4, <2>2
    <3> QED
      BY <3>1, <3>2, ReportFaithful
  <2>3. CASE ~Top.flag
    <3>1. X = Dot("declaration", R)
      <4>1. Left("declaration", "start", Top.flag, R, X) => X = Dot("declaration", R)
        BY <2>3 DEF Left, DeclarationLeft
      <4> QED
        BY <1>4, <4>1, PointLeft
    <3>2. PICK Y : Y = Dot("statement", R)
      OBVIOUS
    <3>3. After(X, look) = After(Y, look)
      BY <2>1, <3>1, <3>2, DeclarationRow
    <3>4. Left("statement", "start", FALSE, R, Y)
      BY <3>2 DEF Left, StatementLeft
    <3>5. Fits("declaration", R) => Fits("statement", R)
      BY DEF Fits, Values, Statements
    <3>6. At("declaration", "start") /\ Become(Frame("statement", FALSE)) /\ UNCHANGED source /\ failed' = failed
      BY <1>4, <2>3 DEF Running
    <3>7. Turns("declaration", "start", "statement", FALSE, R, X, Y)
      BY <3>3, <3>4, <3>5, <3>6 DEF Turns
    <3> QED
      BY <3>7, TurnsFaithful
  <2> QED
    BY <2>2, <2>3
<1>5. CASE /\ At("declaration", "attribute done")
           /\ GotoFlag("start", Top.flag \/ ret # "null")
           /\ Quiet
  <2>1. PICK flag : flag = (Top.flag \/ ret # "null")
    OBVIOUS
  <2>2. At("declaration", "attribute done") /\ UNCHANGED source /\ failed' = failed
    BY <1>5 DEF Quiet
  <2>3. flag /\ GotoFlag("start", flag)
    BY <1>5, <2>1 DEF Running, NullMeansError
  <2>4. Left("declaration", "attribute done", Top.flag, R, X) => Left("declaration", "start", flag, R, X)
    BY <2>3 DEF Left, DeclarationLeft
  <2>5. Left("declaration", "attribute done", Top.flag, R, X)
    BY <2>2, PointLeft
  <2>6. GoesOn("declaration", "attribute done", "start", flag, R, X, X)
    BY <2>2, <2>3, <2>4, <2>5 DEF GoesOn
  <2> QED
    BY <2>6, GoesFaithful
<1> QED
  BY <1>1, <1>2, <1>3, <1>4, <1>5 DEF ParseDeclaration

-----------------------------------------------------------------------------
(***************************************************************************)
(* The recovery: who skips tokens, and where the source ends.              *)
(***************************************************************************)

\* The points at which a call waits for synchronize, and the functions that are
\* not part of a declaration.
Waits == {"skipped", "synchronized"}
Roots == {"source", "synchronize"}

\* Only synchronize is waited for there, and zenit_parse_source hears from it
\* whether it found its token; nothing is left when it did not, or when the parser
\* is done.
EndInv ==
  /\ \A i \in 2..Len(stack) : stack[i - 1].fn = "synchronize" <=> stack[i].at \in Waits
  /\ stack # <<>> /\ Top.at = "synchronized" => ret \in {"found", "lost"}
  /\ ret = "lost" => look = Eof
  /\ stack = <<>> => look = Eof

\* What a step may do to the calls: move the one on top, make a call or return.
TidyMove ==
  \E f : /\ stack' = <<f>> \o Tail(stack) /\ ret' = ret
         /\ f.fn = "synchronize" <=> Top.fn = "synchronize"
         /\ f.at \notin Waits

\* A call is made,
TidyCall ==
  \E f, g : /\ stack' = <<f, g>> \o Tail(stack) /\ ret' = "none"
            /\ g.fn = "synchronize" <=> Top.fn = "synchronize"
            /\ f.fn = "synchronize" <=> g.at \in Waits
            /\ f.at \notin Waits

\* or the call ends.
TidyReturn ==
  /\ stack' = Tail(stack)
  /\ \/ Top.fn \notin Roots /\ (ret' = "lost" => ret = "lost")
     \/ Top.fn = "synchronize" /\ (ret' = "found" \/ (ret' = "lost" /\ look = Eof /\ UNCHANGED source))
     \/ /\ Top.fn = "source" /\ ret' = "none" /\ UNCHANGED source
        /\ look = Eof \/ (Top.at = "synchronized" /\ ret # "found")

\* A step reads a token at most.
Reads == UNCHANGED source \/ (look # Eof /\ Consume)
Tidy == stack # <<>> /\ Reads /\ (TidyMove \/ TidyCall \/ TidyReturn)

\* The call on top goes on.
LEMMA GotoTidy ==
  ASSUME DepthInv, NEW fn, NEW point, At(fn, point), NEW next, next \notin Waits, NEW flag,
         Goto(next) \/ GotoFlag(next, flag), Reads
  PROVE  Tidy
<1>1. stack # <<>> /\ Top \in Frames
  BY TopFrame
<1>2. CASE Goto(next)
  <2>1. PICK f : f = [Top EXCEPT !.at = next]
    OBVIOUS
  <2>2. f.fn = Top.fn /\ f.at = next
    BY <1>1, <2>1 DEF Frames
  <2>3. stack' = <<f>> \o Tail(stack) /\ ret' = ret
    BY <1>2, <2>1 DEF Goto
  <2> QED
    BY <1>1, <2>2, <2>3 DEF Tidy, TidyMove
<1>3. CASE GotoFlag(next, flag)
  <2>1. PICK f : f = [Top EXCEPT !.at = next, !.flag = flag]
    OBVIOUS
  <2>2. f.fn = Top.fn /\ f.at = next
    BY <1>1, <2>1 DEF Frames
  <2>3. stack' = <<f>> \o Tail(stack) /\ ret' = ret
    BY <1>3, <2>1 DEF GotoFlag
  <2> QED
    BY <1>1, <2>2, <2>3 DEF Tidy, TidyMove
<1> QED
  BY <1>2, <1>3

\* Another call takes its place.
LEMMA BecomeTidy ==
  ASSUME DepthInv, NEW fn, NEW point, At(fn, point), fn \notin Roots, NEW new, new # "synchronize", NEW flag,
         Become(Frame(new, flag)), UNCHANGED source
  PROVE  Tidy
<1>1. stack # <<>> /\ Top.fn # "synchronize"
  BY TopFrame DEF Roots
<1>2. PICK f : f = Frame(new, flag)
  OBVIOUS
<1>3. f.fn = new /\ f.at \notin Waits
  BY <1>2 DEF Frame, Waits
<1>4. stack' = <<f>> \o Tail(stack) /\ ret' = ret
  BY <1>2 DEF Become
<1> QED
  BY <1>1, <1>3, <1>4 DEF Tidy, TidyMove, Reads

\* It makes a call.
LEMMA CallTidy ==
  ASSUME DepthInv, NEW fn, NEW point, At(fn, point), NEW callee, NEW flag, NEW called,
         callee = "synchronize" <=> called \in Waits, Call(Frame(callee, flag), called), UNCHANGED source
  PROVE  Tidy
<1>1. stack # <<>> /\ Top \in Frames
  BY TopFrame
<1>2. PICK f, g : f = Frame(callee, flag) /\ g = [Top EXCEPT !.at = called]
  OBVIOUS
<1>3. f.fn = callee /\ f.at \notin Waits
  BY <1>2 DEF Frame, Waits
<1>4. g.fn = Top.fn /\ g.at = called
  BY <1>1, <1>2 DEF Frames
<1>5. stack' = <<f, g>> \o Tail(stack) /\ ret' = "none"
  BY <1>2 DEF Call
<1> QED
  BY <1>1, <1>3, <1>4, <1>5 DEF Tidy, TidyCall, Reads

\* It returns.
LEMMA ReturnTidy ==
  ASSUME DepthInv, NEW fn, NEW point, At(fn, point), fn \notin Roots, NEW r, r = "lost" => ret = "lost",
         Return(r), Reads
  PROVE  Tidy
<1>1. stack # <<>> /\ Top.fn = fn
  BY TopFrame
<1>2. stack' = Tail(stack) /\ (ret' = "lost" => ret = "lost")
  BY DEF Return
<1> QED
  BY <1>1, <1>2 DEF Tidy, TidyReturn

\* The operations that the parse functions are made of.
LEMMA ExpectTidy ==
  ASSUME DepthInv, NEW fn, fn \notin Roots, NEW point, NEW t, t \in Tokens, NEW next, next \notin Waits,
         Expect(fn, point, t, next)
  PROVE  Tidy
<1>1. At(fn, point)
  BY DEF Expect
<1>2. CASE Is(t) /\ Consume /\ Continue(next)
  <2>1. Reads
    BY <1>2, KnownToken DEF Reads
  <2>2. Return("node") \/ Goto(next)
    BY <1>2 DEF Continue
  <2> QED
    BY <1>1, <2>1, <2>2, GotoTidy, ReturnTidy
<1>3. CASE Return("null") /\ UNCHANGED source
  BY <1>1, <1>3, ReturnTidy DEF Reads
<1> QED
  BY <1>2, <1>3 DEF Expect

\* A call whose failure is passed on.
LEMMA ChildTidy ==
  ASSUME DepthInv, NEW fn, fn \notin Roots, NEW point, NEW callee, callee # "synchronize", NEW flag,
         NEW called, called \notin Waits, NEW next, next \notin Waits,
         Child(fn, point, Frame(callee, flag), called, next)
  PROVE  Tidy
<1>1. UNCHANGED source /\ Reads
  BY DEF Child, Quiet, Reads
<1>2. CASE At(fn, point) /\ Call(Frame(callee, flag), called)
  BY <1>1, <1>2, CallTidy
<1>3. CASE At(fn, called) /\ (IF ret = "null" THEN Return("null") ELSE Continue(next))
  <2>1. Return("null") \/ Return("node") \/ Goto(next)
    BY <1>3 DEF Continue
  <2> QED
    BY <1>1, <1>3, <2>1, GotoTidy, ReturnTidy
<1> QED
  BY <1>2, <1>3 DEF Child

\* An optional token.
LEMMA OptionTidy ==
  ASSUME DepthInv, NEW fn, NEW point, NEW t, t \in Tokens, NEW with, with \notin Waits,
         NEW without, without \notin Waits, Option(fn, point, t, with, without)
  PROVE  Tidy
<1>1. At(fn, point)
  BY DEF Option
<1>2. CASE Is(t)
  <2>1. Reads /\ Goto(with)
    BY <1>2, KnownToken DEF Reads, Option
  <2> QED
    BY <1>1, <2>1, GotoTidy
<1>3. CASE ~Is(t)
  <2>1. Reads /\ Goto(without)
    BY <1>3 DEF Reads, Option
  <2> QED
    BY <1>1, <2>1, GotoTidy
<1> QED
  BY <1>2, <1>3

\* A test of what comes next.
LEMMA TestTidy ==
  ASSUME DepthInv, NEW fn, NEW point, NEW condition, NEW yes, yes \notin Waits, NEW no, no \notin Waits,
         Test(fn, point, condition, yes, no)
  PROVE  Tidy
<1>1. At(fn, point) /\ Reads /\ (Goto(yes) \/ Goto(no))
  BY DEF Test, Quiet, Reads
<1> QED
  BY <1>1, GotoTidy

\* A choice between functions.
LEMMA SelectTidy ==
  ASSUME DepthInv, NEW fn, fn \notin Roots, NEW point, NEW choices, NEW otherwise, otherwise # "synchronize",
         \A c \in choices : c[2] # "synchronize", Select(fn, point, choices, otherwise)
  PROVE  Tidy
<1>1. At(fn, point) /\ UNCHANGED source
  BY DEF Select, Quiet
<1>2. PICK new : new # "synchronize" /\ Become(Frame(new, Top.flag))
  BY DEF Select
<1> QED
  BY <1>1, <1>2, BecomeTidy

\* The parse functions, one by one.
LEMMA TypeTidy ==
  ASSUME DepthInv, ParseType PROVE Tidy
<1>1. "type" \notin Roots
  BY DEF Roots
<1>2. /\ "array_type" # "synchronize" /\ "reference_type" # "synchronize"
      /\ "type_name" # "synchronize"
  OBVIOUS
<1>3. /\ <<"&", "reference_type">>[2] = "reference_type"
      /\ <<"[", "array_type">>[2] = "array_type"
  OBVIOUS
<1>4. PICK choices : choices = {<<"&", "reference_type">>, <<"[", "array_type">>}
  OBVIOUS
<1>5. \A c \in choices : c[2] # "synchronize"
  BY <1>2, <1>3, <1>4, Zenon
<1>6. Select("type", "start", choices, "type_name")
  BY <1>4, Zenon DEF ParseType
<1> QED
  BY <1>1, <1>2, <1>5, <1>6, SelectTidy, Zenon

\* ParseExpression.
LEMMA ExpressionTidy ==
  ASSUME DepthInv, ParseExpression PROVE Tidy
<1>1. "expression" \notin Roots
  BY DEF Roots
<1>2. /\ "array" # "synchronize" /\ "cast" # "synchronize" /\ "identifier" # "synchronize"
      /\ "literal" # "synchronize" /\ "reference" # "synchronize"
      /\ "struct_literal" # "synchronize"
  OBVIOUS
<1>3. /\ <<"&", "reference">>[2] = "reference" /\ <<"[", "array">>[2] = "array"
      /\ <<"cast", "cast">>[2] = "cast" /\ <<"id", "identifier">>[2] = "identifier"
      /\ <<"{", "struct_literal">>[2] = "struct_literal"
  OBVIOUS
<1>4. PICK choices : choices = {<<"cast", "cast">>, <<"[", "array">>, <<"{", "struct_literal">>, <<"&", "reference">>, <<"id", "identifier">>}
  OBVIOUS
<1>5. \A c \in choices : c[2] # "synchronize"
  BY <1>2, <1>3, <1>4, Zenon
<1>6. Select("expression", "start", choices, "literal")
  BY <1>4, Zenon DEF ParseExpression
<1> QED
  BY <1>1, <1>2, <1>5, <1>6, SelectTidy, Zenon

\* ParseStatement.
LEMMA StatementTidy ==
  ASSUME DepthInv, ParseStatement PROVE Tidy
<1>1. "statement" \notin Roots
  BY DEF Roots
<1>2. "block" # "synchronize" /\ "expression_statement" # "synchronize" /\ "if" # "synchronize"
  OBVIOUS
<1>3. <<"if", "if">>[2] = "if" /\ <<"{", "block">>[2] = "block"
  OBVIOUS
<1>4. PICK choices : choices = {<<"if", "if">>, <<"{", "block">>}
  OBVIOUS
<1>5. \A c \in choices : c[2] # "synchronize"
  BY <1>2, <1>3, <1>4, Zenon
<1>6. Select("statement", "start", choices, "expression_statement")
  BY <1>4, Zenon DEF ParseStatement
<1> QED
  BY <1>1, <1>2, <1>5, <1>6, SelectTidy, Zenon

\* ParseTypeName.
LEMMA TypeNameTidy ==
  ASSUME DepthInv, ParseTypeName PROVE Tidy
<1>1. "end" \notin Waits /\ "type_name" \notin Roots
  BY DEF Roots, Waits
<1>2. "id" \in Tokens
  BY TokenNames
<1>4. CASE Expect("type_name", "start", "id", "end")
  BY <1>1, <1>2, <1>4, ExpectTidy, Zenon
<1> QED
  BY <1>4 DEF ParseTypeName

\* ParseReferenceType.
LEMMA ReferenceTypeTidy ==
  ASSUME DepthInv, ParseReferenceType PROVE Tidy
<1>1. "element" \notin Waits /\ "made" \notin Waits /\ "reference_type" \notin Roots
  BY DEF Roots, Waits
<1>2. "&" \in Tokens
  BY TokenNames
<1>3. "type" # "synchronize"
  OBVIOUS
<1>4. CASE Expect("reference_type", "start", "&", "element")
  BY <1>1, <1>2, <1>3, <1>4, ExpectTidy, Zenon
<1>5. CASE At("reference_type", "element") /\ Call(Frame("type", Top.flag), "made") /\ Quiet
  BY <1>1, <1>3, <1>5, CallTidy DEF Quiet
<1>6. CASE At("reference_type", "made") /\ Return(IF ret = "null" THEN "holed" ELSE ret) /\ Quiet
  <2>1. PICK r : r = IF ret = "null" THEN "holed" ELSE ret
    OBVIOUS
  <2>2. Return(r) /\ (r = "lost" => ret = "lost")
    BY <1>6, <2>1
  <2> QED
    BY <1>1, <1>6, <2>2, ReturnTidy DEF Quiet, Reads
<1> QED
  BY <1>4, <1>5, <1>6 DEF ParseReferenceType, TypeElement

\* ParseArrayType.
LEMMA ArrayTypeTidy ==
  ASSUME DepthInv, ParseArrayType PROVE Tidy
<1>1. /\ "array_type" \notin Roots /\ "close" \notin Waits /\ "element" \notin Waits
      /\ "length" \notin Waits /\ "made" \notin Waits
  BY DEF Roots, Waits
<1>2. "[" \in Tokens /\ "]" \in Tokens /\ "bigint" \in Tokens /\ "int" \in Tokens
  BY TokenNames
<1>3. "type" # "synchronize"
  OBVIOUS
<1>4. CASE Expect("array_type", "start", "[", "length")
  BY <1>1, <1>2, <1>3, <1>4, ExpectTidy, Zenon
<1>5. CASE At("array_type", "length") /\ Is("int") /\ Consume /\ Goto("close")
  <2>1. Reads
    BY <1>2, <1>5, KnownToken DEF Reads
  <2> QED
    BY <1>1, <1>5, <2>1, GotoTidy
<1>6. CASE At("array_type", "length") /\ Is("bigint") /\ Consume /\ Return("null")
  <2>1. Reads
    BY <1>2, <1>6, KnownToken DEF Reads
  <2> QED
    BY <1>1, <1>6, <2>1, ReturnTidy
<1>7. CASE At("array_type", "length") /\ Goto("close") /\ UNCHANGED source
  BY <1>1, <1>7, GotoTidy DEF Quiet, Reads
<1>8. CASE Expect("array_type", "close", "]", "element")
  BY <1>1, <1>2, <1>3, <1>8, ExpectTidy, Zenon
<1>9. CASE At("array_type", "element") /\ Call(Frame("type", Top.flag), "made") /\ Quiet
  BY <1>1, <1>3, <1>9, CallTidy DEF Quiet
<1>10. CASE At("array_type", "made") /\ Return(IF ret = "null" THEN "holed" ELSE ret) /\ Quiet
  <2>1. PICK r : r = IF ret = "null" THEN "holed" ELSE ret
    OBVIOUS
  <2>2. Return(r) /\ (r = "lost" => ret = "lost")
    BY <1>10, <2>1
  <2> QED
    BY <1>1, <1>10, <2>2, ReturnTidy DEF Quiet, Reads
<1> QED
  BY <1>4, <1>5, <1>6, <1>7, <1>8, <1>9, <1>10 DEF ParseArrayType, TypeElement, Is

\* ParseLiteral.
LEMMA LiteralTidy ==
  ASSUME DepthInv, ParseLiteral PROVE Tidy
<1>1. "literal" \notin Roots
  BY DEF Roots, Waits
<1>2. "bigint" \in Tokens /\ "bool" \in Tokens /\ "int" \in Tokens
  BY TokenNames
<1>4. CASE At("literal", "start") /\ (Is("int") \/ Is("bool")) /\ Consume /\ Return("node")
  <2>1. Reads
    BY <1>2, <1>4, KnownToken DEF Reads
  <2> QED
    BY <1>1, <1>4, <2>1, ReturnTidy
<1>5. CASE At("literal", "start") /\ Is("bigint") /\ Consume /\ Return("null")
  <2>1. Reads
    BY <1>2, <1>5, KnownToken DEF Reads
  <2> QED
    BY <1>1, <1>5, <2>1, ReturnTidy
<1>6. CASE At("literal", "start") /\ Return("null") /\ UNCHANGED source
  <2>1. "null" # "lost" /\ "node" # "lost" /\ "holed" # "lost"
    OBVIOUS
  <2> QED
    BY <1>1, <1>6, <2>1, ReturnTidy DEF Quiet, Reads
<1> QED
  BY <1>4, <1>5, <1>6 DEF ParseLiteral, Is

\* ParseCast.
LEMMA CastTidy ==
  ASSUME DepthInv, ParseCast PROVE Tidy
<1>1. /\ "cast" \notin Roots /\ "close" \notin Waits /\ "colon" \notin Waits /\ "end" \notin Waits
      /\ "hint done" \notin Waits /\ "hint" \notin Waits /\ "open" \notin Waits
      /\ "operand done" \notin Waits /\ "operand" \notin Waits
  BY DEF Roots, Waits
<1>2. "(" \in Tokens /\ ")" \in Tokens /\ ":" \in Tokens /\ "cast" \in Tokens
  BY TokenNames
<1>3. "expression" # "synchronize" /\ "type" # "synchronize"
  OBVIOUS
<1>4. CASE Expect("cast", "start", "cast", "open")
  BY <1>1, <1>2, <1>3, <1>4, ExpectTidy, Zenon
<1>5. CASE Expect("cast", "open", "(", "operand")
  BY <1>1, <1>2, <1>3, <1>5, ExpectTidy, Zenon
<1>6. CASE Child("cast", "operand", Frame("expression", FALSE), "operand done", "colon")
  BY <1>1, <1>2, <1>3, <1>6, ChildTidy, Zenon
<1>7. CASE Option("cast", "colon", ":", "hint", "close")
  BY <1>1, <1>2, <1>3, <1>7, OptionTidy, Zenon
<1>8. CASE Child("cast", "hint", Frame("type", TRUE), "hint done", "close")
  BY <1>1, <1>2, <1>3, <1>8, ChildTidy, Zenon
<1>9. CASE Expect("cast", "close", ")", "end")
  BY <1>1, <1>2, <1>3, <1>9, ExpectTidy, Zenon
<1> QED
  BY <1>4, <1>5, <1>6, <1>7, <1>8, <1>9 DEF ParseCast

\* ParseArray.
LEMMA ArrayTidy ==
  ASSUME DepthInv, ParseArray PROVE Tidy
<1>1. /\ "array" \notin Roots /\ "close" \notin Waits /\ "comma" \notin Waits
      /\ "element done" \notin Waits /\ "element" \notin Waits /\ "end" \notin Waits
      /\ "loop" \notin Waits
  BY DEF Roots, Waits
<1>2. "," \in Tokens /\ "[" \in Tokens /\ "]" \in Tokens
  BY TokenNames
<1>3. "expression" # "synchronize"
  OBVIOUS
<1>4. CASE Expect("array", "start", "[", "loop")
  BY <1>1, <1>2, <1>3, <1>4, ExpectTidy, Zenon
<1>5. CASE Test("array", "loop", HasInput /\ ~Is("]"), "element", "close")
  BY <1>1, <1>2, <1>3, <1>5, TestTidy, Zenon
<1>6. CASE Child("array", "element", Frame("expression", FALSE), "element done", "comma")
  BY <1>1, <1>2, <1>3, <1>6, ChildTidy, Zenon
<1>7. CASE At("array", "comma") /\ Goto("loop") /\ Quiet
  BY <1>1, <1>7, GotoTidy DEF Quiet, Reads
<1>8. CASE Expect("array", "comma", ",", "loop")
  BY <1>1, <1>2, <1>3, <1>8, ExpectTidy, Zenon
<1>9. CASE Expect("array", "close", "]", "end")
  BY <1>1, <1>2, <1>3, <1>9, ExpectTidy, Zenon
<1> QED
  BY <1>4, <1>5, <1>6, <1>7, <1>8, <1>9 DEF ParseArray

\* ParseReference.
LEMMA ReferenceTidy ==
  ASSUME DepthInv, ParseReference PROVE Tidy
<1>1. /\ "end" \notin Waits /\ "operand done" \notin Waits /\ "operand" \notin Waits
      /\ "reference" \notin Roots
  BY DEF Roots, Waits
<1>2. "&" \in Tokens
  BY TokenNames
<1>3. "expression" # "synchronize"
  OBVIOUS
<1>4. CASE Expect("reference", "start", "&", "operand")
  BY <1>1, <1>2, <1>3, <1>4, ExpectTidy, Zenon
<1>5. CASE Child("reference", "operand", Frame("expression", FALSE), "operand done", "end")
  BY <1>1, <1>2, <1>3, <1>5, ChildTidy, Zenon
<1> QED
  BY <1>4, <1>5 DEF ParseReference

\* ParseIdentifier.
LEMMA IdentifierTidy ==
  ASSUME DepthInv, ParseIdentifier PROVE Tidy
<1>1. "identifier" \notin Roots /\ "named" \notin Waits
  BY DEF Roots, Waits
<1>2. "id" \in Tokens
  BY TokenNames
<1>3. "struct_literal" # "synchronize"
  OBVIOUS
<1>4. CASE Expect("identifier", "start", "id", "named")
  BY <1>1, <1>2, <1>3, <1>4, ExpectTidy, Zenon
<1>5. CASE At("identifier", "named") /\ Become(Frame("struct_literal", FALSE)) /\ Quiet
  BY <1>1, <1>3, <1>5, BecomeTidy DEF Quiet
<1>6. CASE At("identifier", "named") /\ Return("node") /\ Quiet
  <2>1. "null" # "lost" /\ "node" # "lost" /\ "holed" # "lost"
    OBVIOUS
  <2> QED
    BY <1>1, <1>6, <2>1, ReturnTidy DEF Quiet, Reads
<1> QED
  BY <1>4, <1>5, <1>6 DEF ParseIdentifier

\* ParseStructField.
LEMMA StructFieldTidy ==
  ASSUME DepthInv, ParseStructField PROVE Tidy
<1>1. /\ "colon" \notin Waits /\ "end" \notin Waits /\ "struct_field" \notin Roots
      /\ "value done" \notin Waits /\ "value" \notin Waits
  BY DEF Roots, Waits
<1>2. ":" \in Tokens /\ "id" \in Tokens
  BY TokenNames
<1>3. "expression" # "synchronize"
  OBVIOUS
<1>4. CASE Expect("struct_field", "start", "id", "colon")
  BY <1>1, <1>2, <1>3, <1>4, ExpectTidy, Zenon
<1>5. CASE Expect("struct_field", "colon", ":", "value")
  BY <1>1, <1>2, <1>3, <1>5, ExpectTidy, Zenon
<1>6. CASE Child("struct_field", "value", Frame("expression", FALSE), "value done", "end")
  BY <1>1, <1>2, <1>3, <1>6, ChildTidy, Zenon
<1> QED
  BY <1>4, <1>5, <1>6 DEF ParseStructField

\* ParseStructLiteral: it waits for synchronize.
LEMMA StructLiteralTidy ==
  ASSUME DepthInv, ParseStructLiteral PROVE Tidy
<1>1. /\ "close" \notin Waits /\ "end" \notin Waits /\ "field done" \notin Waits
      /\ "field" \notin Waits /\ "loop" \notin Waits /\ "next" \notin Waits
      /\ "struct_literal" \notin Roots
  BY DEF Roots, Waits
<1>2. "," \in Tokens /\ "{" \in Tokens /\ "}" \in Tokens
  BY TokenNames
<1>3. "struct_field" # "synchronize"
  OBVIOUS
<1>4. CASE Expect("struct_literal", "start", "{", "loop")
  BY <1>1, <1>2, <1>3, <1>4, ExpectTidy, Zenon
<1>5. CASE Test("struct_literal", "loop", HasInput, "field", "close")
  BY <1>1, <1>2, <1>3, <1>5, TestTidy, Zenon
<1>6. CASE Child("struct_literal", "field", Frame("struct_field", FALSE), "field done", "next")
  BY <1>1, <1>2, <1>3, <1>6, ChildTidy, Zenon
<1>7. CASE At("struct_literal", "next") /\ Goto("close") /\ Quiet
  BY <1>1, <1>7, GotoTidy DEF Quiet, Reads
<1>8. CASE At("struct_literal", "next") /\ Is(",") /\ Consume /\ Goto("loop")
  <2>1. Reads
    BY <1>2, <1>8, KnownToken DEF Reads
  <2> QED
    BY <1>1, <1>8, <2>1, GotoTidy
<1>9. CASE At("struct_literal", "next") /\ Call(Frame("synchronize", FALSE), "skipped") /\ Quiet
  <2>1. "skipped" \in Waits
    BY DEF Waits
  <2> QED
    BY <1>9, <2>1, CallTidy DEF Quiet
<1>10. CASE At("struct_literal", "skipped") /\ Return("null") /\ UNCHANGED source
  <2>1. "null" # "lost" /\ "node" # "lost" /\ "holed" # "lost"
    OBVIOUS
  <2> QED
    BY <1>1, <1>10, <2>1, ReturnTidy DEF Quiet, Reads
<1>11. CASE Expect("struct_literal", "close", "}", "end")
  BY <1>1, <1>2, <1>3, <1>11, ExpectTidy, Zenon
<1> QED
  BY <1>4, <1>5, <1>6, <1>7, <1>8, <1>9, <1>10, <1>11 DEF ParseStructLiteral

\* ParseExpressionStatement.
LEMMA ExpressionStatementTidy ==
  ASSUME DepthInv, ParseExpressionStatement PROVE Tidy
<1>1. "expression_statement" \notin Roots /\ "semicolon" \notin Waits
  BY DEF Roots, Waits
<1>2. ";" \in Tokens
  BY TokenNames
<1>3. "expression" # "synchronize"
  OBVIOUS
<1>4. CASE At("expression_statement", "start") /\ Call(Frame("expression", FALSE), "semicolon") /\ Quiet
  BY <1>1, <1>3, <1>4, CallTidy DEF Quiet
<1>5. CASE At("expression_statement", "semicolon") /\ Is(";") /\ Consume /\ Return(ret)
  <2>1. Reads
    BY <1>2, <1>5, KnownToken DEF Reads
  <2> QED
    BY <1>1, <1>5, <2>1, ReturnTidy
<1>6. CASE At("expression_statement", "semicolon") /\ Return("null") /\ UNCHANGED source
  <2>1. "null" # "lost" /\ "node" # "lost" /\ "holed" # "lost"
    OBVIOUS
  <2> QED
    BY <1>1, <1>6, <2>1, ReturnTidy DEF Quiet, Reads
<1> QED
  BY <1>4, <1>5, <1>6 DEF ParseExpressionStatement

\* ParseBlock.
LEMMA BlockTidy ==
  ASSUME DepthInv, ParseBlock PROVE Tidy
<1>1. /\ "block" \notin Roots /\ "close" \notin Waits /\ "end" \notin Waits /\ "loop" \notin Waits
      /\ "statement done" \notin Waits /\ "statement" \notin Waits
  BY DEF Roots, Waits
<1>2. "{" \in Tokens /\ "}" \in Tokens
  BY TokenNames
<1>3. "declaration" # "synchronize"
  OBVIOUS
<1>4. CASE Expect("block", "start", "{", "loop")
  BY <1>1, <1>2, <1>3, <1>4, ExpectTidy, Zenon
<1>5. CASE Test("block", "loop", HasInput /\ ~Is("}"), "statement", "close")
  BY <1>1, <1>2, <1>3, <1>5, TestTidy, Zenon
<1>6. CASE Child("block", "statement", Frame("declaration", FALSE), "statement done", "loop")
  BY <1>1, <1>2, <1>3, <1>6, ChildTidy, Zenon
<1>7. CASE Expect("block", "close", "}", "end")
  BY <1>1, <1>2, <1>3, <1>7, ExpectTidy, Zenon
<1> QED
  BY <1>4, <1>5, <1>6, <1>7 DEF ParseBlock

\* ParseIf.
LEMMA IfTidy ==
  ASSUME DepthInv, ParseIf PROVE Tidy
<1>1. /\ "close" \notin Waits /\ "condition done" \notin Waits /\ "condition" \notin Waits
      /\ "else" \notin Waits /\ "else?" \notin Waits /\ "if" \notin Roots /\ "open" \notin Waits
      /\ "then done" \notin Waits /\ "then" \notin Waits
  BY DEF Roots, Waits
<1>2. "(" \in Tokens /\ ")" \in Tokens /\ "else" \in Tokens /\ "if" \in Tokens
  BY TokenNames
<1>3. "block" # "synchronize" /\ "expression" # "synchronize"
  OBVIOUS
<1>4. CASE Expect("if", "start", "if", "open")
  BY <1>1, <1>2, <1>3, <1>4, ExpectTidy, Zenon
<1>5. CASE Expect("if", "open", "(", "condition")
  BY <1>1, <1>2, <1>3, <1>5, ExpectTidy, Zenon
<1>6. CASE Child("if", "condition", Frame("expression", FALSE), "condition done", "close")
  BY <1>1, <1>2, <1>3, <1>6, ChildTidy, Zenon
<1>7. CASE Expect("if", "close", ")", "then")
  BY <1>1, <1>2, <1>3, <1>7, ExpectTidy, Zenon
<1>8. CASE Child("if", "then", Frame("block", FALSE), "then done", "else?")
  BY <1>1, <1>2, <1>3, <1>8, ChildTidy, Zenon
<1>9. CASE At("if", "else?") /\ Is("else") /\ Consume /\ Goto("else")
  <2>1. Reads
    BY <1>2, <1>9, KnownToken DEF Reads
  <2> QED
    BY <1>1, <1>9, <2>1, GotoTidy
<1>10. CASE At("if", "else?") /\ Return("node") /\ UNCHANGED source
  <2>1. "null" # "lost" /\ "node" # "lost" /\ "holed" # "lost"
    OBVIOUS
  <2> QED
    BY <1>1, <1>10, <2>1, ReturnTidy DEF Quiet, Reads
<1>11. CASE At("if", "else") /\ Become(Frame(IF Is("if") THEN "if" ELSE "block", FALSE)) /\ Quiet
  <2>1. PICK new : new = IF Is("if") THEN "if" ELSE "block"
    OBVIOUS
  <2>2. Become(Frame(new, FALSE)) /\ new # "synchronize"
    BY <1>11, <2>1
  <2> QED
    BY <1>1, <1>11, <2>2, BecomeTidy DEF Quiet
<1> QED
  BY <1>4, <1>5, <1>6, <1>7, <1>8, <1>9, <1>10, <1>11 DEF ParseIf

\* ParseVariable.
LEMMA VariableTidy ==
  ASSUME DepthInv, ParseVariable PROVE Tidy
<1>1. /\ "assign" \notin Waits /\ "colon" \notin Waits /\ "end" \notin Waits
      /\ "hint done" \notin Waits /\ "hint" \notin Waits /\ "name" \notin Waits
      /\ "semicolon" \notin Waits /\ "value done" \notin Waits /\ "value" \notin Waits
      /\ "variable" \notin Roots
  BY DEF Roots, Waits
<1>2. ":" \in Tokens /\ ";" \in Tokens /\ "=" \in Tokens /\ "id" \in Tokens /\ "var" \in Tokens
  BY TokenNames
<1>3. "expression" # "synchronize" /\ "type" # "synchronize"
  OBVIOUS
<1>4. CASE Expect("variable", "start", "var", "name")
  BY <1>1, <1>2, <1>3, <1>4, ExpectTidy, Zenon
<1>5. CASE Expect("variable", "name", "id", "colon")
  BY <1>1, <1>2, <1>3, <1>5, ExpectTidy, Zenon
<1>6. CASE Option("variable", "colon", ":", "hint", "assign")
  BY <1>1, <1>2, <1>3, <1>6, OptionTidy, Zenon
<1>7. CASE Child("variable", "hint", Frame("type", TRUE), "hint done", "assign")
  BY <1>1, <1>2, <1>3, <1>7, ChildTidy, Zenon
<1>8. CASE Expect("variable", "assign", "=", "value")
  BY <1>1, <1>2, <1>3, <1>8, ExpectTidy, Zenon
<1>9. CASE Child("variable", "value", Frame("expression", FALSE), "value done", "semicolon")
  BY <1>1, <1>2, <1>3, <1>9, ChildTidy, Zenon
<1>10. CASE Expect("variable", "semicolon", ";", "end")
  BY <1>1, <1>2, <1>3, <1>10, ExpectTidy, Zenon
<1> QED
  BY <1>4, <1>5, <1>6, <1>7, <1>8, <1>9, <1>10 DEF ParseVariable

\* ParseFieldDeclaration.
LEMMA FieldDeclarationTidy ==
  ASSUME DepthInv, ParseFieldDeclaration PROVE Tidy
<1>1. /\ "colon" \notin Waits /\ "end" \notin Waits /\ "field_declaration" \notin Roots
      /\ "semicolon" \notin Waits /\ "type done" \notin Waits /\ "type" \notin Waits
  BY DEF Roots, Waits
<1>2. ":" \in Tokens /\ ";" \in Tokens /\ "id" \in Tokens
  BY TokenNames
<1>3. "type" # "synchronize"
  OBVIOUS
<1>4. CASE Expect("field_declaration", "start", "id", "colon")
  BY <1>1, <1>2, <1>3, <1>4, ExpectTidy, Zenon
<1>5. CASE Expect("field_declaration", "colon", ":", "type")
  BY <1>1, <1>2, <1>3, <1>5, ExpectTidy, Zenon
<1>6. CASE Child("field_declaration", "type", Frame("type", FALSE), "type done", "semicolon")
  BY <1>1, <1>2, <1>3, <1>6, ChildTidy, Zenon
<1>7. CASE Expect("field_declaration", "semicolon", ";", "end")
  BY <1>1, <1>2, <1>3, <1>7, ExpectTidy, Zenon
<1> QED
  BY <1>4, <1>5, <1>6, <1>7 DEF ParseFieldDeclaration

\* ParseStruct.
LEMMA StructTidy ==
  ASSUME DepthInv, ParseStruct PROVE Tidy
<1>1. /\ "close" \notin Waits /\ "end" \notin Waits /\ "loop" \notin Waits
      /\ "member done" \notin Waits /\ "member" \notin Waits /\ "members done" \notin Waits
      /\ "name" \notin Waits /\ "open" \notin Waits /\ "struct" \notin Roots
  BY DEF Roots, Waits
<1>2. "id" \in Tokens /\ "struct" \in Tokens /\ "{" \in Tokens /\ "}" \in Tokens
  BY TokenNames
<1>3. "field_declaration" # "synchronize"
  OBVIOUS
<1>4. CASE Expect("struct", "start", "struct", "name")
  BY <1>1, <1>2, <1>3, <1>4, ExpectTidy, Zenon
<1>5. CASE Expect("struct", "name", "id", "open")
  BY <1>1, <1>2, <1>3, <1>5, ExpectTidy, Zenon
<1>6. CASE Expect("struct", "open", "{", "loop")
  BY <1>1, <1>2, <1>3, <1>6, ExpectTidy, Zenon
<1>7. CASE Test("struct", "loop", HasInput /\ ~Is("}"), "member", "members done")
  BY <1>1, <1>2, <1>3, <1>7, TestTidy, Zenon
<1>8. CASE At("struct", "member") /\ Call(Frame("field_declaration", FALSE), "member done") /\ Quiet
  BY <1>1, <1>3, <1>8, CallTidy DEF Quiet
<1>9. CASE At("struct", "member done") /\ Return("null") /\ Quiet
  <2>1. "null" # "lost" /\ "node" # "lost" /\ "holed" # "lost"
    OBVIOUS
  <2> QED
    BY <1>1, <1>9, <2>1, ReturnTidy DEF Quiet, Reads
<1>10. CASE At("struct", "member done") /\ GotoFlag("loop", TRUE) /\ Quiet
  BY <1>1, <1>10, GotoTidy DEF Quiet, Reads
<1>11. CASE At("struct", "members done") /\ Goto("close") /\ UNCHANGED source
  BY <1>1, <1>11, GotoTidy DEF Quiet, Reads
<1>12. CASE Expect("struct", "close", "}", "end")
  BY <1>1, <1>2, <1>3, <1>12, ExpectTidy, Zenon
<1> QED
  BY <1>4, <1>5, <1>6, <1>7, <1>8, <1>9, <1>10, <1>11, <1>12 DEF ParseStruct

\* ParseAttribute.
LEMMA AttributeTidy ==
  ASSUME DepthInv, ParseAttribute PROVE Tidy
<1>1. /\ "arguments done" \notin Waits /\ "arguments" \notin Waits /\ "attribute" \notin Roots
      /\ "close" \notin Waits /\ "colon" \notin Waits /\ "comma" \notin Waits
      /\ "end" \notin Waits /\ "loop" \notin Waits /\ "name" \notin Waits /\ "open" \notin Waits
      /\ "value done" \notin Waits /\ "value" \notin Waits
  BY DEF Roots, Waits
<1>2. /\ "#" \in Tokens /\ "(" \in Tokens /\ ")" \in Tokens /\ "," \in Tokens /\ ":" \in Tokens
      /\ "[" \in Tokens /\ "]" \in Tokens /\ "id" \in Tokens
  BY TokenNames
<1>3. "expression" # "synchronize"
  OBVIOUS
<1>4. CASE Expect("attribute", "start", "#", "open")
  BY <1>1, <1>2, <1>3, <1>4, ExpectTidy, Zenon
<1>5. CASE Expect("attribute", "open", "[", "name")
  BY <1>1, <1>2, <1>3, <1>5, ExpectTidy, Zenon
<1>6. CASE Expect("attribute", "name", "id", "arguments")
  BY <1>1, <1>2, <1>3, <1>6, ExpectTidy, Zenon
<1>7. CASE Option("attribute", "arguments", "(", "loop", "close")
  BY <1>1, <1>2, <1>3, <1>7, OptionTidy, Zenon
<1>8. CASE Option("attribute", "loop", "id", "colon", "arguments done")
  BY <1>1, <1>2, <1>3, <1>8, OptionTidy, Zenon
<1>9. CASE Expect("attribute", "colon", ":", "value")
  BY <1>1, <1>2, <1>3, <1>9, ExpectTidy, Zenon
<1>10. CASE Child("attribute", "value", Frame("expression", FALSE), "value done", "comma")
  BY <1>1, <1>2, <1>3, <1>10, ChildTidy, Zenon
<1>11. CASE At("attribute", "comma") /\ Goto("arguments done") /\ Quiet
  BY <1>1, <1>11, GotoTidy DEF Quiet, Reads
<1>12. CASE Expect("attribute", "comma", ",", "loop")
  BY <1>1, <1>2, <1>3, <1>12, ExpectTidy, Zenon
<1>13. CASE Expect("attribute", "arguments done", ")", "close")
  BY <1>1, <1>2, <1>3, <1>13, ExpectTidy, Zenon
<1>14. CASE Expect("attribute", "close", "]", "end")
  BY <1>1, <1>2, <1>3, <1>14, ExpectTidy, Zenon
<1> QED
  BY <1>4, <1>5, <1>6, <1>7, <1>8, <1>9, <1>10, <1>11, <1>12, <1>13, <1>14 DEF ParseAttribute

\* ParseDeclaration.
LEMMA DeclarationTidy ==
  ASSUME DepthInv, ParseDeclaration PROVE Tidy
<1>1. "attribute done" \notin Waits /\ "declaration" \notin Roots /\ "start" \notin Waits
  BY DEF Roots, Waits
<1>3. /\ "attribute" # "synchronize" /\ "statement" # "synchronize" /\ "struct" # "synchronize"
      /\ "variable" # "synchronize"
  OBVIOUS
<1>4. CASE At("declaration", "start") /\ Call(Frame("attribute", FALSE), "attribute done") /\ Quiet
  BY <1>1, <1>3, <1>4, CallTidy DEF Quiet
<1>5. CASE At("declaration", "start") /\ Become(Frame("variable", FALSE)) /\ Quiet
  BY <1>1, <1>3, <1>5, BecomeTidy DEF Quiet
<1>6. CASE At("declaration", "start") /\ Become(Frame("struct", FALSE)) /\ Quiet
  BY <1>1, <1>3, <1>6, BecomeTidy DEF Quiet
<1>7. CASE At("declaration", "start") /\ Become(Frame("statement", FALSE)) /\ UNCHANGED source
  BY <1>1, <1>3, <1>7, BecomeTidy DEF Quiet
<1>8. CASE At("declaration", "attribute done") /\ GotoFlag("start", Top.flag \/ ret # "null") /\ Quiet
  BY <1>1, <1>8, GotoTidy DEF Quiet, Reads
<1> QED
  BY <1>4, <1>5, <1>6, <1>7, <1>8 DEF ParseDeclaration

\* ParseSource: it waits for synchronize as well, and ends at the end of the source.
LEMMA SourceTidy ==
  ASSUME DepthInv, ParseSource PROVE Tidy
<1>1. /\ "declared" \notin Waits /\ "separator" \notin Waits /\ "start" \notin Waits
      /\ "synchronized" \in Waits /\ "declaration" # "synchronize"
  BY DEF Waits
<1>2. ";" \in Tokens
  BY TokenNames
<1>3. CASE Option("source", "separator", ";", "start", "start")
  BY <1>1, <1>2, <1>3, OptionTidy, Zenon
<1>4. CASE At("source", "start") /\ Call(Frame("declaration", FALSE), "declared") /\ Quiet
  BY <1>1, <1>4, CallTidy DEF Quiet
<1>5. CASE At("source", "declared") /\ Call(Frame("synchronize", TRUE), "synchronized") /\ Quiet
  BY <1>1, <1>5, CallTidy DEF Quiet
<1>6. CASE At("source", "declared") /\ Goto("separator") /\ Quiet
  BY <1>1, <1>6, GotoTidy DEF Quiet, Reads
<1>7. CASE At("source", "synchronized") /\ Goto("start") /\ Quiet
  BY <1>1, <1>7, GotoTidy DEF Quiet, Reads
<1>8. CASE At("source", "start") /\ ~HasInput /\ Return("none") /\ Quiet
  <2>1. stack # <<>> /\ Top.fn = "source" /\ look = Eof /\ UNCHANGED source
    BY <1>8, TopFrame DEF HasInput, Quiet
  <2>2. stack' = Tail(stack) /\ ret' = "none"
    BY <1>8 DEF Return
  <2> QED
    BY <2>1, <2>2 DEF Tidy, TidyReturn, Reads
<1>9. CASE At("source", "synchronized") /\ ret # "found" /\ Return("none") /\ Quiet
  <2>1. stack # <<>> /\ Top.fn = "source" /\ Top.at = "synchronized" /\ UNCHANGED source
    BY <1>9, TopFrame DEF Quiet
  <2>2. stack' = Tail(stack) /\ ret' = "none"
    BY <1>9 DEF Return
  <2> QED
    BY <1>9, <2>1, <2>2 DEF Tidy, TidyReturn, Reads
<1> QED
  BY <1>3, <1>4, <1>5, <1>6, <1>7, <1>8, <1>9 DEF ParseSource

\* Synchronize finds its token or the end of the source.
LEMMA SynchronizeTidy ==
  ASSUME DepthInv, Synchronize PROVE Tidy
<1>1. At("synchronize", "start") /\ "start" \notin Waits
  BY DEF Synchronize, Waits
<1>2. stack # <<>> /\ Top.fn = "synchronize"
  BY <1>1, TopFrame
<1>3. CASE HasInput /\ Consume /\ Return("found")
  <2>1. stack' = Tail(stack) /\ ret' = "found" /\ Reads
    BY <1>3 DEF Return, Reads, HasInput
  <2> QED
    BY <1>2, <2>1 DEF Tidy, TidyReturn
<1>4. CASE HasInput /\ Consume /\ Goto("start")
  BY <1>1, <1>4, GotoTidy DEF Reads, HasInput
<1>5. CASE ~HasInput /\ Return("lost") /\ UNCHANGED source
  <2>1. stack' = Tail(stack) /\ ret' = "lost" /\ look = Eof /\ Reads
    BY <1>5 DEF Return, Reads, HasInput
  <2> QED
    BY <1>2, <1>5, <2>1 DEF Tidy, TidyReturn
<1> QED
  BY <1>3, <1>4, <1>5 DEF Synchronize

\* Every step.
LEMMA StepTidy ==
  ASSUME DepthInv, Next PROVE Tidy
BY TypeTidy, TypeNameTidy, ReferenceTypeTidy, ArrayTypeTidy, ExpressionTidy, LiteralTidy, CastTidy,
   ArrayTidy, ReferenceTidy, IdentifierTidy, StructFieldTidy, StructLiteralTidy,
   ExpressionStatementTidy, BlockTidy, IfTidy, StatementTidy, VariableTidy, FieldDeclarationTidy,
   StructTidy, AttributeTidy, DeclarationTidy, SourceTidy, SynchronizeTidy DEF Next

\* Who waits for whom, call by call.
Paired(s) == \A i \in 2..Len(s) : s[i - 1].fn = "synchronize" <=> s[i].at \in Waits

\* A call in front of others.
LEMMA PairedFront ==
  ASSUME NEW s \in Seq(Frames), Paired(s), NEW f \in Frames,
         s # <<>> => (f.fn = "synchronize" <=> s[1].at \in Waits)
  PROVE  Paired(<<f>> \o s)
<1>1. PICK n \in Nat : n = Len(s)
  OBVIOUS
<1>2. PICK t : t = <<f>> \o s
  OBVIOUS
<1>3. Len(t) = n + 1 /\ t[1] = f /\ \A i \in 1..n : t[i + 1] = s[i]
  BY <1>1, <1>2
<1>4. ASSUME NEW i \in 2..(n + 1) PROVE t[i - 1].fn = "synchronize" <=> t[i].at \in Waits
  <2>1. PICK j \in 1..n : i = j + 1
    <3>1. i - 1 \in 1..n /\ i = (i - 1) + 1
      OBVIOUS
    <3> QED
      BY <3>1
  <2>2. t[i] = s[j] /\ i - 1 = j
    BY <1>3, <2>1
  <2>3. CASE j = 1
    <3>1. s # <<>> /\ t[i - 1] = f /\ t[i] = s[1]
      BY <1>1, <1>3, <2>2, <2>3
    <3> QED
      BY <3>1
  <2>4. CASE j # 1
    <3>1. j \in 2..n /\ j - 1 \in 1..n /\ (j - 1) + 1 = j
      BY <2>4
    <3>2. t[j] = s[j - 1]
      BY <1>3, <3>1
    <3>3. s[j - 1].fn = "synchronize" <=> s[j].at \in Waits
      BY <1>1, <3>1 DEF Paired
    <3> QED
      BY <2>2, <3>2, <3>3
  <2> QED
    BY <2>3, <2>4
<1> QED
  BY <1>2, <1>3, <1>4 DEF Paired

\* And the calls behind the one on top.
LEMMA PairedTail ==
  ASSUME NEW s \in Seq(Frames), Paired(s), s # <<>>
  PROVE  /\ Paired(Tail(s))
         /\ Tail(s) # <<>> => (s[1].fn = "synchronize" <=> Tail(s)[1].at \in Waits)
<1>1. PICK t : t = Tail(s)
  OBVIOUS
<1>2. t \in Seq(Frames) /\ Len(s) = Len(t) + 1 /\ \A i \in 1..Len(t) : t[i] = s[i + 1]
  BY <1>1
<1>3. PICK n \in Nat : n = Len(t)
  BY <1>2
<1>4. ASSUME NEW i \in 2..n PROVE t[i - 1].fn = "synchronize" <=> t[i].at \in Waits
  <2>1. i - 1 \in 1..n /\ i \in 1..n /\ (i - 1) + 1 = i /\ i + 1 \in 2..(n + 1) /\ (i + 1) - 1 = i
    OBVIOUS
  <2>2. t[i] = s[i + 1] /\ t[i - 1] = s[i]
    BY <1>2, <1>3, <2>1
  <2>3. s[(i + 1) - 1].fn = "synchronize" <=> s[i + 1].at \in Waits
    BY <1>2, <1>3, <2>1 DEF Paired
  <2> QED
    BY <2>1, <2>2, <2>3
<1>5. ASSUME t # <<>> PROVE s[1].fn = "synchronize" <=> t[1].at \in Waits
  <2>1. 1 \in 1..n /\ 2 \in 2..(n + 1) /\ 2 - 1 = 1 /\ 1 + 1 = 2
    BY <1>2, <1>3, <1>5
  <2>2. t[1] = s[2]
    BY <1>2, <1>3, <2>1
  <2>3. s[2 - 1].fn = "synchronize" <=> s[2].at \in Waits
    BY <1>2, <1>3, <2>1 DEF Paired
  <2> QED
    BY <2>1, <2>2, <2>3
<1> QED
  BY <1>1, <1>3, <1>4, <1>5 DEF Paired

\* The call that returns last is zenit_parse_source.
LEMMA LastIsSource ==
  ASSUME DepthInv, stack # <<>>, Tail(stack) = <<>>
  PROVE  Top.fn = "source"
<1>1. stack \in Seq(Frames) /\ stack[Len(stack)].fn = "source"
  BY DEF DepthInv
<1>2. Len(stack) = 1
  <2>1. Len(stack) \in Nat \ {0} /\ Len(Tail(stack)) = Len(stack) - 1 /\ Len(<<>>) = 0
    BY <1>1
  <2> QED
    BY <2>1
<1> QED
  BY <1>1, <1>2 DEF Top

\* Every step keeps it so.
LEMMA StepEnd ==
  ASSUME DepthInv, DepthInv', EndInv, Tidy PROVE EndInv'
<1>1. stack \in Seq(Frames) /\ stack' \in Seq(Frames) /\ stack # <<>> /\ Reads
  BY DEF DepthInv, Tidy
<1>2. Paired(stack)
  BY DEF EndInv, Paired
<1>3. PICK s : s = Tail(stack)
  OBVIOUS
<1>4. /\ s \in Seq(Frames) /\ Paired(s)
      /\ s # <<>> => (Top.fn = "synchronize" <=> s[1].at \in Waits)
  <2>1. s \in Seq(Frames)
    BY <1>1, <1>3
  <2> QED
    BY <1>1, <1>2, <1>3, <2>1, PairedTail DEF Top
<1>5. ret = "lost" => look' = Eof
  BY <1>1 DEF EndInv, Reads, source
<1>6. CASE TidyMove
  <2>1. PICK f : /\ stack' = <<f>> \o s /\ ret' = ret
                 /\ f.fn = "synchronize" <=> Top.fn = "synchronize"
                 /\ f.at \notin Waits
    BY <1>3, <1>6 DEF TidyMove
  <2>2. f \in Frames
    BY <1>1, <1>4, <2>1, FrontFrames
  <2>3. Paired(stack')
    BY <1>4, <2>1, <2>2, PairedFront
  <2>4. stack' # <<>> /\ stack'[1] = f
    BY <1>4, <2>1, <2>2
  <2>5. f.at # "synchronized"
    BY <2>1 DEF Waits
  <2> QED
    BY <1>5, <2>1, <2>3, <2>4, <2>5 DEF EndInv, Paired, Top
<1>7. CASE TidyCall
  <2>1. PICK f, g : /\ stack' = <<f, g>> \o s /\ ret' = "none"
                    /\ g.fn = "synchronize" <=> Top.fn = "synchronize"
                    /\ f.fn = "synchronize" <=> g.at \in Waits
                    /\ f.at \notin Waits
    BY <1>3, <1>7 DEF TidyCall
  <2>2. f \in Frames /\ g \in Frames
    BY <1>1, <1>4, <2>1, FrontFrames
  <2>3. PICK u : u = <<g>> \o s
    OBVIOUS
  <2>4. u \in Seq(Frames) /\ u # <<>> /\ u[1] = g /\ stack' = <<f>> \o u
    <3>1. <<g>> \o s \in Seq(Frames) /\ <<f>> \o (<<g>> \o s) = <<f, g>> \o s
      BY <1>4, <2>2, FrontFrames
    <3>2. u # <<>> /\ u[1] = g
      BY <1>4, <2>2, <2>3
    <3> QED
      BY <2>1, <2>3, <3>1, <3>2
  <2>5. Paired(u)
    BY <1>4, <2>1, <2>2, <2>3, PairedFront
  <2>6. Paired(stack')
    BY <2>1, <2>2, <2>4, <2>5, PairedFront
  <2>7. stack' # <<>> /\ stack'[1] = f
    BY <2>2, <2>4
  <2>8. f.at # "synchronized" /\ ret' # "lost"
    BY <2>1 DEF Waits
  <2> QED
    BY <2>6, <2>7, <2>8 DEF EndInv, Paired, Top
<1>8. CASE TidyReturn
  <2>1. stack' = s
    BY <1>3, <1>8 DEF TidyReturn
  <2>2. ASSUME s # <<>>, s[1].at = "synchronized" PROVE ret' \in {"found", "lost"}
    <3>1. Top.fn = "synchronize"
      BY <1>4, <2>2 DEF Waits
    <3> QED
      BY <1>8, <3>1 DEF TidyReturn, Roots
  <2>3. ret' = "lost" => look' = Eof
    BY <1>5, <1>8 DEF TidyReturn, source
  <2>4. ASSUME s = <<>> PROVE look' = Eof
    <3>1. Top.fn = "source"
      BY <1>1, <1>3, <2>4, LastIsSource
    <3>2. UNCHANGED source /\ (look = Eof \/ (Top.at = "synchronized" /\ ret # "found"))
      BY <1>8, <3>1 DEF TidyReturn, Roots
    <3>3. look = Eof
      BY <1>1, <3>2 DEF EndInv
    <3> QED
      BY <3>2, <3>3 DEF source
  <2> QED
    BY <1>4, <2>1, <2>2, <2>3, <2>4 DEF EndInv, Paired, Top
<1> QED
  BY <1>6, <1>7, <1>8 DEF Tidy

\* At first there is one call.
LEMMA InitEnd ==
  ASSUME Init PROVE EndInv
<1>1. PICK frame : frame = Frame("source", FALSE)
  OBVIOUS
<1>2. stack = <<frame>> /\ ret = "none"
  BY <1>1 DEF Init
<1>3. Len(stack) = 1 /\ stack[1] = frame /\ 2..1 = {} /\ stack # <<>>
  BY <1>2
<1>4. frame.at = "start"
  BY <1>1 DEF Frame
<1> QED
  BY <1>2, <1>3, <1>4 DEF EndInv, Top

\* ParseSource: declarations up to the end of the source.
LEMMA ParseSourceFaithful ==
  ASSUME ~Documented, Running, DepthInv', NEW R \in Forms, NEW X, Going(R, X), ParseSource
  PROVE  Faithful
<1>1. PICK P, Y : P = Dot("program", {<<>>}) /\ Y = Dot("empty", P)
  OBVIOUS
<1>2. ASSUME NEW point, At("source", point)
      PROVE  R = {<<>>} /\ SourceLeft(point, R, X)
  <2>1. Left("source", point, Top.flag, R, X)
    BY <1>2, PointLeft
  <2> QED
    BY <2>1, LeftIs DEF SourceLeft
<1>3. /\ (look = Eof => After(P, look) = {<<>>})
      /\ (look # Eof => After(P, look) = After(Dot("declaration", Y), look))
      /\ (look = ";" => After(Y, look) = P)
      /\ (look # ";" => After(Y, look) = After(P, look))
      /\ Ends6(Y) /\ After(Y, "else") = {}
  BY <1>1, ProgramRow
<1>4. CASE At("source", "start") /\ HasInput /\ Call(Frame("declaration", FALSE), "declared") /\ Quiet
  <2>1. PICK Z : Z = Dot("declaration", Y)
    OBVIOUS
  <2>2. R = {<<>>} /\ X = P
    <3>1. At("source", "start")
      BY <1>4
    <3>2. R = {<<>>} /\ SourceLeft("start", R, X)
      BY <1>2, <3>1
    <3> QED
      BY <1>1, <3>2 DEF SourceLeft
  <2>3. After(X, look) = After(Z, look)
    BY <1>3, <1>4, <2>1, <2>2 DEF HasInput
  <2>4. Left("source", "declared", Top.flag, R, Y) /\ Left("declaration", "start", FALSE, Y, Z)
    BY <1>1, <2>1, <2>2 DEF Left, SourceLeft, DeclarationLeft
  <2>5. "declaration" \notin Values
    BY DEF Values
  <2>6. Asks("source", "start", "declaration", FALSE, "declared", Top.flag, R, X, Y, Z)
    BY <1>3, <1>4, <2>3, <2>4, <2>5 DEF Asks, Quiet
  <2> QED
    BY <2>6, AsksFaithful
<1>5. CASE At("source", "start") /\ ~HasInput /\ Return("none") /\ Quiet
  <2>1. R = {<<>>} /\ X = P
    <3>1. At("source", "start")
      BY <1>5
    <3>2. R = {<<>>} /\ SourceLeft("start", R, X)
      BY <1>2, <3>1
    <3> QED
      BY <1>1, <3>2 DEF SourceLeft
  <2>2. look = Eof
    BY <1>5 DEF HasInput
  <2>3. After(X, look) = After(R, look)
    BY <1>3, <2>1, <2>2, AfterEmpty
  <2>4. Leaves("source", "start", "none", R, X)
    BY <1>5, <2>3 DEF Leaves, Quiet
  <2> QED
    BY <2>4, LeavesFaithful
<1>6. CASE At("source", "declared") /\ (ret = "null" \/ Goto("separator")) /\ Quiet
  <2>1. Goto("separator") /\ failed' = failed /\ UNCHANGED source
    BY <1>6 DEF Running, NullMeansError, Quiet
  <2>2. SourceLeft("declared", R, X) => Left("source", "separator", Top.flag, R, X)
    BY DEF Left, SourceLeft
  <2>3. Left("source", "separator", Top.flag, R, X)
    BY <1>2, <1>6, <2>2
  <2>4. GoesOn("source", "declared", "separator", Top.flag, R, X, X)
    BY <1>6, <2>1, <2>3 DEF GoesOn
  <2> QED
    BY <2>4, GoesFaithful
<1>7. CASE Option("source", "separator", ";", "start", "start")
  <2>1. At("source", "separator")
    BY <1>7 DEF Option
  <2>2. R = {<<>>} /\ X = Y
    BY <1>1, <1>2, <2>1 DEF SourceLeft
  <2>3. Left("source", "start", Top.flag, R, P)
    BY <1>1, <2>2 DEF Left, SourceLeft
  <2>4. ";" \in Tokens
    BY TokenNames
  <2>5. OptionFirst("source", "separator", ";", "start", "start", Top.flag, R, X, P, P)
    BY <1>3, <1>7, <2>2, <2>3, <2>4 DEF OptionFirst
  <2> QED
    BY <2>5, OptionFaithful
<1>8. CASE At("source", "synchronized")
  BY <1>2, <1>8 DEF SourceLeft
<1> QED
  BY <1>4, <1>5, <1>6, <1>7, <1>8 DEF ParseSource

\* Nothing is left to find where zenit_parse_source recovers: it has reported.
LEMMA NotRecovering ==
  ASSUME NEW fn, NEW flag, NEW R, NEW X
  PROVE  ~Left(fn, "synchronized", flag, R, X)
BY DEF Left, SourceLeft, DeclarationLeft, AttributeLeft, VariableLeft, TypeLeft, TypeNameLeft,
       ReferenceTypeLeft, ArrayTypeLeft, ExpressionLeft, LiteralLeft, CastLeft, ArrayLeft,
       ReferenceLeft, IdentifierLeft, StructFieldLeft, StructLiteralLeft, ExpressionStatementLeft,
       BlockLeft, IfLeft, StatementLeft, StructLeft, FieldDeclarationLeft, SynchronizeLeft

\* Without an error synchronize runs only for a struct literal.
LEMMA SkippedFor ==
  ASSUME DepthInv, EndInv, NEW R \in Forms, NEW X, Going(R, X), At("synchronize", "start")
  PROVE  /\ R = {} /\ X = {} /\ Tail(stack) # <<>> /\ Tail(stack)[1].at = "skipped"
         /\ Tail(stack)[1] = stack[2] /\ Len(stack) > 1
<1>1. stack \in Seq(Frames) /\ stack # <<>> /\ Top.fn = "synchronize"
  BY TopFrame DEF DepthInv
<1>2. R = {} /\ X = {}
  <2>1. Left("synchronize", "start", Top.flag, R, X)
    BY PointLeft
  <2> QED
    BY <2>1, LeftIs DEF SynchronizeLeft
<1>3. PICK s : s = Tail(stack)
  OBVIOUS
<1>4. s # <<>>
  BY <1>1, <1>3, LastIsSource
<1>5. s \in Seq(Frames)
  BY <1>1, <1>3
<1>6. s[1].at \in Waits
  <2>1. Paired(stack)
    BY DEF EndInv, Paired
  <2>2. stack[1].fn = "synchronize" <=> s[1].at \in Waits
    BY <1>1, <1>3, <1>4, <2>1, PairedTail
  <2> QED
    BY <1>1, <2>2 DEF Top
<1>7. s[1].at # "synchronized"
  <2>1. Awaits(s, R)
    BY <1>3 DEF Going
  <2>2. PICK Q \in Forms : Left(s[1].fn, s[1].at, s[1].flag, Q, R)
    BY <1>4, <1>5, <2>1, AwaitsTop
  <2> QED
    BY <2>2, NotRecovering
<1>8. Len(stack) > 1 /\ s[1] = stack[2]
  <2>1. Len(stack) \in Nat /\ Len(s) = Len(stack) - 1 /\ Len(s) \in Nat /\ Len(s) # 0
    BY <1>1, <1>3, <1>4, <1>5
  <2> QED
    BY <1>1, <1>3, <2>1
<1> QED
  BY <1>2, <1>3, <1>4, <1>6, <1>7, <1>8 DEF Waits

\* Synchronize skips where nothing can come.
LEMMA SynchronizeFaithful ==
  ASSUME ~Documented, Running, DepthInv', EndInv, NEW R \in Forms, NEW X, Going(R, X), Synchronize
  PROVE  Faithful
<1>1. At("synchronize", "start") /\ DepthInv
  BY DEF Synchronize, Running
<1>2. /\ R = {} /\ X = {} /\ Tail(stack) # <<>> /\ Tail(stack)[1].at = "skipped"
      /\ Tail(stack)[1] = stack[2] /\ Len(stack) > 1
  BY <1>1, SkippedFor
<1>3. failed' = failed /\ ~failed'
  BY DEF Synchronize, Running
<1>4. After(forms, look) = {}
  BY <1>2, AfterEmpty DEF Going
<1>5. After(forms', look') = After({}, look')
  <2>1. CASE UNCHANGED source
    BY <1>4, <2>1, AfterEmpty DEF source
  <2>2. CASE HasInput /\ Consume
    <3>1. forms' = After(forms, look)
      BY <2>2, AfterIs DEF HasInput, Consume, Running
    <3> QED
      BY <1>4, <3>1
  <2> QED
    BY <2>1, <2>2 DEF Synchronize
<1>6. CASE Return("found") \/ Return("lost")
  <2>1. stack' = Tail(stack)
    BY <1>6 DEF Return
  <2>2. Awaits(stack', {}) /\ {} \in Forms
    BY <1>2, <2>1, FormsKept DEF Going
  <2>3. Skipping'
    BY <1>2, <2>1 DEF Skipping, Top
  <2> QED
    BY <1>3, <1>5, <2>2, <2>3 DEF Faithful, Agrees
<1>7. CASE Goto("start")
  <2>1. PICK f : f = [Top EXCEPT !.at = "start"]
    OBVIOUS
  <2>2. f = Top
    <3>1. Top \in Frames /\ Top.at = "start"
      BY <1>1, TopFrame
    <3> QED
      BY <2>1, <3>1 DEF Frames
  <2>3. stack' = stack
    <3>1. stack' = <<Top>> \o Tail(stack)
      BY <1>7, <2>1, <2>2 DEF Goto
    <3>2. stack \in Seq(Frames) /\ stack # <<>>
      BY <1>1, TopFrame DEF DepthInv
    <3> QED
      BY <3>1, <3>2 DEF Top
  <2>4. Awaits(stack', {}) /\ {} \in Forms
    <3>1. Fits(Top.fn, {}) /\ Left(Top.fn, Top.at, Top.flag, {}, {})
      BY <1>2 DEF Going
    <3>2. stack \in Seq(Frames) /\ stack # <<>>
      BY <1>1, TopFrame DEF DepthInv
    <3>3. Tail(stack) \in Seq(Frames) /\ Top \in Frames /\ stack = <<Top>> \o Tail(stack)
      BY <3>2 DEF Top
    <3>4. Awaits(Tail(stack), {}) /\ {} \in Forms
      BY <1>2, FormsKept DEF Going
    <3> QED
      BY <2>3, <3>1, <3>3, <3>4, AwaitsMore
  <2>5. Skipping'
    BY <1>1, <1>2, <2>3 DEF Skipping, Top, At
  <2> QED
    BY <1>3, <1>5, <2>4, <2>5 DEF Faithful, Agrees
<1> QED
  BY <1>6, <1>7 DEF Synchronize

\* Every step keeps the calls and the grammar in agreement, up to the first error.
LEMMA StepFaithful ==
  ASSUME ~Documented, Running, DepthInv', EndInv, NEW R \in Forms, NEW X, Going(R, X), Next
  PROVE  Faithful
BY ParseTypeFaithful, ParseTypeNameFaithful, ParseReferenceTypeFaithful, ParseArrayTypeFaithful,
   ParseExpressionFaithful, ParseLiteralFaithful, ParseCastFaithful, ParseArrayFaithful,
   ParseReferenceFaithful, ParseIdentifierFaithful, ParseStructFieldFaithful,
   ParseStructLiteralFaithful, ParseExpressionStatementFaithful, ParseBlockFaithful,
   ParseIfFaithful, ParseStatementFaithful, ParseVariableFaithful, ParseFieldDeclarationFaithful,
   ParseStructFaithful, ParseAttributeFaithful, ParseDeclarationFaithful, ParseSourceFaithful,
   SynchronizeFaithful DEF Next

\* Where nothing can come nothing can come later.
LEMMA DeadEnd ==
  ASSUME ~Documented, forms \in Forms, Reads
  PROVE  /\ forms' \in Forms
         /\ After(forms, look) = {} => After(forms', look') = {}
<1>1. CASE UNCHANGED source
  BY <1>1 DEF source
<1>2. CASE look # Eof /\ Consume
  <2>1. forms' = After(forms, look)
    BY <1>2, AfterIs DEF Consume
  <2> QED
    BY <2>1, AfterIs, AfterEmpty
<1> QED
  BY <1>1, <1>2 DEF Reads

\* The inductive invariant: before the first error the calls in progress have to
\* find what the grammar allows next, and after it nothing can be a program.
LanguageInv ==
  /\ DepthInv /\ EndInv /\ NullMeansError
  /\ failed \in BOOLEAN /\ forms \in Forms
  /\ failed => After(forms, look) = {}
  /\ ~failed => Agrees /\ (forms # {} \/ Skipping)

\* What an action makes of it.
LEMMA NextFaithful ==
  ASSUME ~Documented, LanguageInv, Next, ~failed
  PROVE  Faithful
<1>1. Running /\ EndInv /\ DepthInv
  BY DEF LanguageInv, Running
<1>2. DepthInv'
  BY <1>1, StepDepth
<1>3. stack # <<>> /\ stack \in Seq(Frames)
  <2>1. Tidy
    BY <1>1, StepTidy
  <2> QED
    BY <1>1, <2>1 DEF Tidy, DepthInv
<1>4. PICK X \in Forms : Awaits(stack, X) /\ After(forms, look) = After(X, look)
  BY DEF LanguageInv, Agrees
<1>5. PICK R \in Forms : Awaits(Tail(stack), R) /\ Fits(Top.fn, R) /\ Left(Top.fn, Top.at, Top.flag, R, X)
  BY <1>3, <1>4, AwaitsTop DEF Top
<1>6. Going(R, X)
  BY <1>4, <1>5 DEF Going
<1> QED
  BY <1>1, <1>2, <1>6, StepFaithful

\* It holds in every state.
LEMMA LanguageStep ==
  ASSUME ~Documented, LanguageInv, [Next]_vars
  PROVE  LanguageInv'
<1>1. CASE UNCHANGED vars
  BY <1>1 DEF vars, LanguageInv, DepthInv, SourceOK, Remaining, Top, EndInv, NullMeansError, Agrees, Skipping
<1>2. CASE Next
  <2>1. DepthInv' /\ NullMeansError' /\ Sound /\ Tidy
    BY <1>2, StepDepth, StepKeepsErrors, StepSound, StepTidy DEF LanguageInv
  <2>2. EndInv' /\ Reads
    BY <2>1, StepEnd DEF LanguageInv, Tidy
  <2>3. failed' \in BOOLEAN /\ (failed => failed')
    BY <2>1 DEF Sound, LanguageInv
  <2>4. forms' \in Forms /\ (After(forms, look) = {} => After(forms', look') = {})
    BY <2>2, DeadEnd DEF LanguageInv
  <2>5. CASE failed
    BY <2>1, <2>2, <2>3, <2>4, <2>5 DEF LanguageInv
  <2>6. CASE ~failed
    <3>1. Faithful
      BY <1>2, <2>6, NextFaithful
    <3> QED
      BY <2>1, <2>2, <2>3, <2>4, <3>1 DEF LanguageInv, Faithful
  <2> QED
    BY <2>5, <2>6
<1> QED
  BY <1>1, <1>2

\* A form is its first symbol and the rest.
LEMMA HeadAndTail ==
  ASSUME NEW s \in Seq(Symbols), s # <<>>
  PROVE  s = <<Head(s)>> \o Tail(s)
OBVIOUS

\* The whole program is to come at first.
LEMMA LanguageInit ==
  ASSUME ~Documented, Init
  PROVE  LanguageInv
<1>1. PICK P : P = Dot("program", {<<>>})
  OBVIOUS
<1>2. P \in Forms /\ P # {} /\ {<<>>} \in Forms
  BY <1>1, ProgramRow, FormsKept
<1>3. forms = P
  <2>1. <<"program">> \o <<>> = <<"program">>
    OBVIOUS
  <2>2. PICK x : x = "program" /\ x \in Symbols
    BY <1>2, <1>1 DEF Dot
  <2>3. Dot(x, {<<>>}) = {<<x>>}
    <3>1. ASSUME NEW s \in Seq(Symbols), s # <<>>, Head(s) = x, Tail(s) = <<>>
          PROVE  s = <<x>>
      <4>1. s = <<Head(s)>> \o Tail(s)
        BY <3>1, HeadAndTail
      <4>2. <<x>> \o <<>> = <<x>>
        OBVIOUS
      <4> QED
        BY <3>1, <4>1, <4>2, Zenon
    <3>2. <<x>> \in Seq(Symbols) /\ <<x>> # <<>> /\ Head(<<x>>) = x /\ Tail(<<x>>) = <<>>
      BY <2>2
    <3>3. ASSUME NEW s
          PROVE  s \in Dot(x, {<<>>}) <=> s = <<x>>
      BY <3>1, <3>2 DEF Dot
    <3> QED
      BY <3>3
  <2>5. P = {<<"program">>}
    BY <1>1, <2>2, <2>3, Zenon
  <2> QED
    BY <2>5 DEF Init, Start
<1>4. PICK frame : frame = Frame("source", FALSE)
  OBVIOUS
<1>5. frame \in Frames /\ frame.fn = "source" /\ frame.at = "start" /\ frame.flag = FALSE
  <2>1. "source" \in Names
    BY DEF Names
  <2>2. frame \in Frames /\ frame.fn = "source" /\ frame.at = "start"
    BY <1>4, <2>1, NewFrame
  <2> QED
    BY <1>4, <2>2 DEF Frame
<1>6. Awaits(stack, P)
  <2>1. <<>> \in Seq(Frames) /\ <<frame>> \o <<>> = <<frame>>
    BY <1>5
  <2>2. Awaits(<<>>, {<<>>})
    BY AwaitsNothing
  <2>3. Left("source", "start", FALSE, {<<>>}, P)
    BY <1>1 DEF Left, SourceLeft
  <2>4. Fits("source", {<<>>})
    BY <1>2 DEF Fits, Values, Statements
  <2>5. Awaits(<<frame>> \o <<>>, P)
    BY <1>2, <1>5, <2>1, <2>2, <2>3, <2>4, AwaitsMore
  <2>6. stack = <<frame>>
    BY <1>4 DEF Init
  <2> QED
    BY <2>1, <2>5, <2>6
<1>7. Agrees
  BY <1>2, <1>3, <1>6 DEF Agrees
<1>8. failed = FALSE /\ ret = "none"
  BY DEF Init
<1>9. NullMeansError
  BY <1>8 DEF NullMeansError
<1> QED
  BY <1>2, <1>3, <1>7, <1>8, <1>9, InitDepth, InitEnd DEF LanguageInv

\* Before the first error the calls in progress of the recursive descent are to find
\* what the grammar allows next, and after it nothing can become a program.
THEOREM LanguageInvariance ==
  ASSUME ~Documented
  PROVE  Spec => []LanguageInv
<1>1. Init => LanguageInv
  BY LanguageInit
<1>2. LanguageInv /\ [Next]_vars => LanguageInv'
  BY LanguageStep
<1> QED
  BY <1>1, <1>2, PTL DEF Spec

\* zenit_parse_source ends without an error for exactly the sequences of tokens that
\* the grammar derives from "program": no rule of the recursive descent takes a wrong
\* turn, refuses a part that may come, or leaves one out that must.
THEOREM ParserAccepts ==
  ASSUME ~Documented
  PROVE  Spec => []AcceptsTheLanguage
<1>1. Spec => []LanguageInv
  BY LanguageInvariance
<1>2. LanguageInv => AcceptsTheLanguage
  <2> SUFFICES ASSUME LanguageInv, stack = <<>> PROVE failed <=> ~MayEnd(forms)
    BY DEF AcceptsTheLanguage
  <2>1. look = Eof /\ forms \in Forms /\ failed \in BOOLEAN
    BY DEF LanguageInv, EndInv
  <2>2. MayEnd(forms) <=> After(forms, look) # {}
    BY <2>1, AfterIs
  <2>3. failed => After(forms, look) = {}
    BY DEF LanguageInv
  <2>4. ASSUME ~failed PROVE After(forms, look) # {}
    <3>1. PICK X \in Forms : Awaits(stack, X) /\ After(forms, look) = After(X, look)
      BY <2>4 DEF LanguageInv, Agrees
    <3>2. X = {<<>>}
      BY <3>1, AwaitsNothing
    <3> QED
      BY <2>1, <3>1, <3>2, AfterEmpty
  <2> QED
    BY <2>1, <2>2, <2>3, <2>4
<1> QED
  BY <1>1, <1>2, PTL

\* Before the first error, and outside of a recovery, no token was consumed as if it
\* fitted where no program of the grammar has it.
THEOREM ParserViable ==
  ASSUME ~Documented
  PROVE  Spec => []ViablePrefix
<1>1. Spec => []LanguageInv
  BY LanguageInvariance
<1>2. LanguageInv => ViablePrefix
  <2> SUFFICES ASSUME LanguageInv, ~failed, \A i \in DOMAIN stack : stack[i].fn # "synchronize"
               PROVE  forms # {} \/ Top.at = "skipped"
    BY DEF ViablePrefix
  <2>1. stack \in Seq(Frames) /\ (forms # {} \/ Skipping)
    BY DEF LanguageInv, DepthInv
  <2>2. stack # <<>> => 1 \in DOMAIN stack
    BY <2>1
  <2> QED
    BY <2>1, <2>2 DEF Skipping, Top
<1> QED
  BY <1>1, <1>2, PTL

\* The first error is reported only where what was read and the token that the parser
\* looks at begin no program of the grammar.
THEOREM ParserErrors ==
  ASSUME ~Documented
  PROVE  Spec => ErrorsAreReal
<1>1. Spec => []LanguageInv
  BY LanguageInvariance
<1>2. LanguageInv /\ [Next]_vars => [failed' /\ ~failed => Derive(forms, look) = {}]_vars
  <2> SUFFICES ASSUME LanguageInv, Next, failed', ~failed PROVE Derive(forms, look) = {}
    BY DEF vars
  <2>1. After(forms, look) = {}
    BY NextFaithful DEF Faithful
  <2> QED
    BY <2>1, AfterIs DEF LanguageInv
<1> QED
  BY <1>1, <1>2, PTL DEF Spec, ErrorsAreReal
=============================================================================

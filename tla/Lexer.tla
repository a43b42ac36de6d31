------------------------------- MODULE Lexer -------------------------------
(***************************************************************************)
(* The lexer of the compiler (front-end/lexer.c): zenit_lexer_consume,     *)
(* zenit_lexer_peek and the loop of zenit_lexer_tokenize over a source     *)
(* text.  A step is an iteration of a loop of remove_ws_and_comments, or   *)
(* the recognition of a token.  A character is one representative of its   *)
(* class; keywords are words, which the text alone tells apart.            *)
(***************************************************************************)
EXTENDS Integers, Sequences, FiniteSets

CONSTANT Sources   \* the source texts

Blank == {" ", "tab", "cr"}
Letters == {"a", "b", "x"}
Digits == {"0", "1"}
HexDigits == Digits \cup {"a", "b"}
BinaryDigits == Digits \cup {"_"}
WordChars == Letters \cup Digits \cup {"_", "-"}
Punctuation == {";", "=", "#", "{"}
\* What peek_at answers beyond the end of the source.
Nul == "nul"
SyncChars == {Nul, "nl", "#", ";", "="} \cup Blank

Chars == {"nl", "/", "*", "$"} \cup Blank \cup WordChars \cup Punctuation
ASSUME LexerAssumption == Sources \subseteq Seq(Chars)

VARIABLES content,  \* the source text
          index,    \* position of the next character, from 1
          line, col,
          call,     \* the function that runs: "none", "peek", "consume" or "skip"
          mode,     \* where it is: "strip", "line" or "block" comment
          level,    \* nesting of block comments
          saved,    \* the state zenit_lexer_peek restores
          peeked,   \* the token of the last peek, or NoToken
          token,    \* the last consumed token, or NoToken
          from      \* where the call of consume that returned it started

vars == <<content, index, line, col, call, mode, level, saved, peeked, token, from>>
cursor == <<index, line, col>>

Types == {"none", "int", "word", "punct", "unknown", "eof"}
Token(t, n) == [type |-> t, start |-> index, len |-> n, line |-> line, col |-> col]
NoToken == [type |-> "none", start |-> 0, len |-> 0, line |-> 0, col |-> 0]
\* The token of the end has no location.
EndToken == [type |-> "eof", start |-> index, len |-> 0, line |-> 0, col |-> 0]

HasInput == index <= Len(content)
PeekAt(n) == IF index + n <= Len(content) THEN content[index + n] ELSE Nul
\* The next two characters (at offset n), if another one follows them.
PeekMany == IF index + 1 >= Len(content) THEN <<>> ELSE <<PeekAt(0), PeekAt(1)>>
\* Mutant: the bound corrected here alone, so that "//" at the end is a token of no characters.
PeekManyAt_Inclusive(n) ==
  IF index + n + 1 > Len(content) THEN <<>> ELSE <<PeekAt(n), PeekAt(n + 1)>>
PeekManyAt(n) ==
  IF index + n + 1 >= Len(content) THEN <<>> ELSE <<PeekAt(n), PeekAt(n + 1)>>

IsSync(n) == PeekAt(n) \in SyncChars \/ PeekManyAt(n) \in {<<"/", "/">>, <<"/", "*">>}

\* How many characters from offset n on belong to S.
Least(S) == CHOOSE n \in S : \A k \in S : n <= k
Span(n, S) == Least({k \in 0..Len(content) : PeekAt(n + k) \notin S})

IsDecimal == PeekAt(0) \in Digits /\ ~(PeekAt(0) = "0" /\ PeekAt(1) \in {"x", "b"})
Recognised ==
  CASE PeekAt(0) \in Punctuation                 -> Token("punct", 1)
    [] PeekAt(0) = "0" /\ PeekAt(1) = "x"        -> Token("int", 2 + Span(2, HexDigits))
    [] PeekAt(0) = "0" /\ PeekAt(1) = "b"        -> Token("int", 2 + Span(2, BinaryDigits))
    [] IsDecimal                                 -> Token("int", Span(0, Digits))
    [] PeekAt(0) \in Letters                     -> Token("word", Span(0, WordChars))
    [] OTHER -> Token("unknown", Least({n \in 0..Len(content) : IsSync(n)}))

-----------------------------------------------------------------------------
Advance(n) == /\ index' = index + n
              /\ col' = col + n
\* Mutant: a line that ends does not reset the column.
NewLine_KeepsColumn == /\ Advance(1)
                       /\ line' = line + 1
NewLine == /\ index' = index + 1
           /\ line' = line + 1
           /\ col' = 1

\* A client calls peek, consume, or the clean-up between the tokens of tokenize.
Begin(c) ==
  /\ call = "none"
  /\ token.type # "eof"
  /\ call' = c
  /\ mode' = "strip"
  /\ saved' = cursor
  /\ UNCHANGED <<content, index, line, col, level, peeked, token, from>>

Peek == Begin("peek")
Consume == Begin("consume")
Skip == /\ token # NoToken
        /\ Begin("skip")

Stripping(m) == call # "none" /\ mode = m
LexUnchanged == UNCHANGED <<content, call, saved, peeked, token, from>>

StripNewLine ==
  /\ Stripping("strip") /\ PeekAt(0) = "nl"
  /\ NewLine
  /\ UNCHANGED <<mode, level>> /\ LexUnchanged

StripBlank ==
  /\ Stripping("strip") /\ PeekAt(0) \in Blank
  /\ Advance(1)
  /\ UNCHANGED <<line, mode, level>> /\ LexUnchanged

OpenComment ==
  /\ Stripping("strip")
  /\ \/ /\ PeekMany = <<"/", "/">>
        /\ mode' = "line"
        /\ UNCHANGED <<cursor, level>>
     \/ /\ PeekMany = <<"/", "*">>
        /\ mode' = "block"
        /\ level' = 0
        /\ Advance(2)
        /\ UNCHANGED line
  /\ LexUnchanged

LineComment ==
  /\ Stripping("line")
  /\ IF HasInput /\ PeekAt(0) # "nl"
     THEN Advance(1) /\ UNCHANGED mode
     ELSE mode' = "strip" /\ UNCHANGED <<index, col>>
  /\ UNCHANGED <<line, level>> /\ LexUnchanged

\* Mutants: the first end closes all levels; the level is counted down before the test.
CloseBlock_All ==
  /\ mode' = "strip"
  /\ level' = 0
CloseBlock_CountsFirst ==
  /\ mode' = IF level = 0 THEN "strip" ELSE "block"
  /\ level' = level - 1
CloseBlock ==
  /\ mode' = IF level = 0 THEN "strip" ELSE "block"
  /\ level' = IF level = 0 THEN 0 ELSE level - 1

BlockComment ==
  /\ Stripping("block")
  /\ \/ /\ ~HasInput
        /\ mode' = "strip"
        /\ UNCHANGED <<cursor, level>>
     \/ /\ PeekAt(0) = "*" /\ PeekAt(1) = "/"
        /\ Advance(2)
        /\ CloseBlock
        /\ UNCHANGED line
     \/ /\ PeekAt(0) = "/" /\ PeekAt(1) = "*"
        /\ Advance(2)
        /\ level' = level + 1
        /\ UNCHANGED <<line, mode>>
     \/ /\ PeekAt(0) = "nl"
        /\ NewLine
        /\ UNCHANGED <<mode, level>>
     \/ /\ HasInput /\ PeekAt(0) # "nl"
        /\ <<PeekAt(0), PeekAt(1)>> \notin {<<"*", "/">>, <<"/", "*">>}
        /\ Advance(1)
        /\ UNCHANGED <<line, mode, level>>
  /\ LexUnchanged

Stripped ==
  /\ Stripping("strip")
  /\ PeekAt(0) \notin Blank \cup {"nl"}
  /\ PeekMany \notin {<<"/", "/">>, <<"/", "*">>}

\* Mutant: the position is restored and the location is not.
Restore_IndexOnly == /\ index' = saved[1]
                     /\ UNCHANGED <<line, col>>
Restore == /\ index' = saved[1]
           /\ line' = saved[2]
           /\ col' = saved[3]

\* The end of a call: peek takes the cursor back.
Return ==
  /\ Stripped
  /\ LET t == IF HasInput THEN Recognised ELSE EndToken
     IN \/ /\ call = "peek"
           /\ peeked' = t
           /\ Restore
           /\ UNCHANGED <<token, from>>
        \/ /\ call = "consume"
           /\ token' = t
           /\ from' = saved[1]
           /\ peeked' = NoToken
           /\ Advance(t.len)
           /\ UNCHANGED line
        \/ /\ call = "skip"
           /\ UNCHANGED <<index, line, col, peeked, token, from>>
  /\ call' = "none"
  /\ saved' = <<0, 0, 0>>
  /\ UNCHANGED <<content, mode, level>>

Init ==
  /\ content \in Sources
  /\ index = 1 /\ line = 1 /\ col = 1
  /\ call = "none" /\ mode = "strip" /\ level = 0 /\ saved = <<0, 0, 0>>
  /\ peeked = NoToken /\ token = NoToken /\ from = 0

Next ==
  \/ Peek \/ Consume \/ Skip
  \/ StripNewLine \/ StripBlank \/ OpenComment \/ LineComment \/ BlockComment
  \/ Return

\* One thread runs the loops, and whoever calls the lexer goes on to consume: the loops of the
\* parser and of zenit_lexer_tokenize do not only peek.
Spec == Init /\ [][Next]_vars /\ WF_vars(Next) /\ SF_vars(Consume)

-----------------------------------------------------------------------------
\* The cursor is inside the text, and a token that is not the end has characters.
LexTypeOK ==
  /\ index \in 1..(Len(content) + 1)
  /\ line \in 1..(Len(content) + 1) /\ col \in Nat \ {0}
  /\ call \in {"none", "peek", "consume", "skip"}
  /\ mode \in {"strip", "line", "block"}
  /\ level \in Nat /\ saved \in Nat \X Nat \X Nat
  /\ {peeked, token} \subseteq [type : Types, start : Nat, len : Nat, line : Nat, col : Nat]
  /\ \A t \in {peeked, token} : t.len = 0 <=> t.type \in {"none", "eof"}
  /\ from \in Nat

Char(p) == IF p \in 1..Len(content) THEN content[p] ELSE Nul
\* What a reader of the text knows before position p: how deep in a block comment it is (-1 in a
\* line comment), and whether p is the second character of a pair.  As the lexer has it,
\* nothing opens a comment at the very end.
Opens(p) == p + 1 < Len(content) /\ <<Char(p), Char(p + 1)>> \in {<<"/", "/">>, <<"/", "*">>}
Reading[p \in 1..(Len(content) + 1)] ==
  IF p = 1 THEN [depth |-> 0, second |-> FALSE]
  ELSE LET s == Reading[p - 1]
           pair == <<Char(p - 1), Char(p)>>
           Deeper(d) == [depth |-> d, second |-> TRUE]
       IN CASE s.second                                   -> [s EXCEPT !.second = FALSE]
            [] s.depth = 0 /\ ~s.second /\ Opens(p - 1)   -> Deeper(IF Char(p) = "/" THEN -1 ELSE 1)
            [] s.depth = -1 /\ ~s.second /\ pair[1] = "nl" -> [depth |-> 0, second |-> FALSE]
            [] s.depth > 0 /\ ~s.second /\ pair = <<"*", "/">> -> Deeper(s.depth - 1)
            [] s.depth > 0 /\ ~s.second /\ pair = <<"/", "*">> -> Deeper(s.depth + 1)
            [] OTHER -> s
Commented(p) == Reading[p].depth # 0 \/ Reading[p].second \/ Opens(p)

\* A call that returns a token skips nothing but white space and comments, which nest, and a token
\* has no character of either: what the lexer drops and what it delivers is the source.
OnlyTriviaSkipped ==
  token # NoToken =>
    /\ \A p \in from..(token.start - 1) : Commented(p) \/ content[p] \in Blank \cup {"nl"}
    /\ \A p \in token.start..(token.start + token.len - 1) :
         ~Commented(p) /\ content[p] \notin Blank \cup {"nl"}
    /\ token.type = "eof" => token.start = Len(content) + 1

\* The line and the column of a token, the ones errors name and identifiers of nodes are made of,
\* are those of its first character, whatever comments and peeks came before.
LocationOf(p) ==
  LET breaks == {q \in 1..(p - 1) : content[q] = "nl"}
      last == IF breaks = {} THEN 0 ELSE CHOOSE q \in breaks : \A r \in breaks : r <= q
  IN [line |-> 1 + Cardinality(breaks), col |-> p - last]
LocationsExact ==
  \A t \in {token, peeked} : t.type \notin {"none", "eof"} =>
     [line |-> t.line, col |-> t.col] = LocationOf(t.start)

\* A parser decides by peek and acts by consume: the token consumed is the one that was peeked,
\* and a peek, which strips comments on its way, leaves the cursor where it was.
PeekIsNextConsume ==
  [][/\ token' # token /\ peeked # NoToken => token' = peeked
     /\ call = "peek" /\ call' = "none" =>
          index' <= peeked'.start /\ [line |-> line', col |-> col'] = LocationOf(index')]_vars

\* The end of the source is reached: no comment, not even an open one, and no character the
\* lexer does not know keep it in a loop or in a token of no characters.
LexerTerminates == <>(token.type = "eof")
=============================================================================

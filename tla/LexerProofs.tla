---------------------------- MODULE LexerProofs ----------------------------
(***************************************************************************)
(* Proofs about Lexer, for every source text.                              *)
(***************************************************************************)
EXTENDS Lexer, LeastNumber, SequenceTheorems, FiniteSetTheorems

-----------------------------------------------------------------------------
(* The inductive invariant.                                                *)

End == Len(content) + 1

Knowledge == [depth : Int, second : BOOLEAN]
\* A reader at that depth, about to read the first character of a pair or of none; the second.
Fresh(s, depth) == s.depth = depth /\ ~s.second
Second(s, depth) == s.depth = depth /\ s.second

\* Is the character at p white space or part of a comment?
Trivia(p) == Commented(p) \/ content[p] \in Blank \cup {"nl"}

Skipped(first, next) == first <= next /\ \A p \in first..(next - 1) : Trivia(p)

\* The token that starts at p: its kind and length depend on the text from
\* there on, its location on the text before.
SpanAt(p, S) == Least({k \in 0..Len(content) : Char(p + k) \notin S})
SyncAt(p, n) ==
  \/ Char(p + n) \in SyncChars
  \/ /\ p + n + 1 < Len(content)
     /\ <<Char(p + n), Char(p + n + 1)>> \in {<<"/", "/">>, <<"/", "*">>}
TokenOf(p, t, n) ==
  [type |-> t, start |-> p, len |-> n, line |-> LocationOf(p).line, col |-> LocationOf(p).col]
TokenAt(p) ==
  CASE Char(p) \in Punctuation                  -> TokenOf(p, "punct", 1)
    [] Char(p) = "0" /\ Char(p + 1) = "x"       -> TokenOf(p, "int", 2 + SpanAt(p + 2, HexDigits))
    [] Char(p) = "0" /\ Char(p + 1) = "b"       -> TokenOf(p, "int", 2 + SpanAt(p + 2, BinaryDigits))
    [] Char(p) \in Digits /\ ~(Char(p) = "0" /\ Char(p + 1) \in {"x", "b"}) ->
         TokenOf(p, "int", SpanAt(p, Digits))
    [] Char(p) \in Letters                      -> TokenOf(p, "word", SpanAt(p, WordChars))
    [] OTHER -> TokenOf(p, "unknown", Least({n \in 0..Len(content) : SyncAt(p, n)}))

\* A token is where it says, starts with a character of the source proper and
\* has only such characters; the one of the end is at the end.
Genuine(t) ==
  \/ t = [type |-> "eof", start |-> End, len |-> 0, line |-> 0, col |-> 0]
  \/ /\ t.start \in 1..Len(content)
     /\ t = TokenAt(t.start)
     /\ ~Trivia(t.start)

\* Line and column are those of the position.
At(p, l, c) == p \in 1..End /\ l = LocationOf(p).line /\ c = LocationOf(p).col

\* Between two tokens: outside of comments, or at the line end that ends one.
Between(p) ==
  \/ p = End
  \/ Fresh(Reading[p], 0)
  \/ Fresh(Reading[p], -1) /\ Char(p) = "nl"

\* What the mode says of the text read so far.
ModeAt(p, m, depth) ==
  \/ p = End
  \/ m = "strip" /\ Between(p)
  \/ /\ m = "line"
     /\ \/ Fresh(Reading[p], 0) /\ Opens(p) /\ Char(p + 1) = "/"
        \/ Second(Reading[p], -1) /\ Char(p) = "/"
        \/ Fresh(Reading[p], -1)
  \/ m = "block" /\ Fresh(Reading[p], depth + 1)

ModeOK ==
  /\ mode \in {"strip", "line", "block"} /\ level \in Nat
  /\ call \in {"none", "peek", "consume", "skip"}
  /\ call = "none" => mode = "strip"
  /\ ModeAt(index, mode, level)

\* A call has skipped what lies between where it began and the cursor.
CallOK ==
  /\ saved \in Nat \X Nat \X Nat
  /\ call # "none" => /\ At(saved[1], saved[2], saved[3])
                      /\ Between(saved[1])
                      /\ Skipped(saved[1], index)

TokenOK ==
  /\ from \in Nat
  /\ token # NoToken => Genuine(token) /\ from >= 1 /\ Skipped(from, token.start)

\* The token that was peeked is still the next one.
PeekedOK ==
  peeked # NoToken => Genuine(peeked) /\ Skipped(index, peeked.start)

LexIInv ==
  /\ content \in Seq(Chars)
  /\ At(index, line, col) /\ ModeOK /\ CallOK /\ TokenOK /\ PeekedOK

-----------------------------------------------------------------------------
(* What a reader of the text knows.                                        *)

\* What the reader knows at p, having known s at p - 1.
Turn(s, p) ==
  LET pair == <<Char(p - 1), Char(p)>>
      Deeper(d) == [depth |-> d, second |-> TRUE]
  IN CASE s.second                                   -> [s EXCEPT !.second = FALSE]
       [] s.depth = 0 /\ ~s.second /\ Opens(p - 1)   -> Deeper(IF Char(p) = "/" THEN -1 ELSE 1)
       [] s.depth = -1 /\ ~s.second /\ pair[1] = "nl" -> [depth |-> 0, second |-> FALSE]
       [] s.depth > 0 /\ ~s.second /\ pair = <<"*", "/">> -> Deeper(s.depth - 1)
       [] s.depth > 0 /\ ~s.second /\ pair = <<"/", "*">> -> Deeper(s.depth + 1)
       [] OTHER -> s

\* The cases of Turn, one by one.
LEMMA TurnFacts ==
  ASSUME NEW d \in Int, NEW b \in BOOLEAN, NEW p,
         NEW t, t = Turn([depth |-> d, second |-> b], p)
  PROVE  /\ t \in Knowledge
         /\ b => Fresh(t, d)
         /\ ~b /\ d = 0 /\ Opens(p - 1) => Second(t, IF Char(p) = "/" THEN -1 ELSE 1)
         /\ ~b /\ d = 0 /\ ~Opens(p - 1) => Fresh(t, 0)
         /\ ~b /\ d = -1 /\ Char(p - 1) = "nl" => Fresh(t, 0)
         /\ ~b /\ d = -1 /\ Char(p - 1) # "nl" => Fresh(t, -1)
         /\ ~b /\ d > 0 /\ <<Char(p - 1), Char(p)>> = <<"*", "/">> => Second(t, d - 1)
         /\ ~b /\ d > 0 /\ <<Char(p - 1), Char(p)>> = <<"/", "*">> => Second(t, d + 1)
         /\ ~b /\ d > 0 /\ <<Char(p - 1), Char(p)>> \notin {<<"*", "/">>, <<"/", "*">>} =>
              Fresh(t, d)
<1> DEFINE pair == <<Char(p - 1), Char(p)>>
           closing == pair = <<"*", "/">>
           opening == pair = <<"/", "*">>
           F(x) == [depth |-> x, second |-> FALSE]
           S(x) == [depth |-> x, second |-> TRUE]
<1>1. closing => ~opening
  OBVIOUS
<1>2. F(d) \in Knowledge /\ Fresh(F(d), d)
  BY DEF Knowledge, Fresh
<1>10. /\ S(d - 1) \in Knowledge /\ Second(S(d - 1), d - 1)
       /\ S(d + 1) \in Knowledge /\ Second(S(d + 1), d + 1)
       /\ F(0) \in Knowledge /\ Fresh(F(0), 0)
  BY DEF Knowledge, Fresh, Second
<1> DEFINE s == [depth |-> d, second |-> b]
           opens == s.depth = 0 /\ ~s.second /\ Opens(p - 1)
           ends == s.depth = -1 /\ ~s.second /\ pair[1] = "nl"
           up == s.depth > 0 /\ ~s.second /\ closing
           down == s.depth > 0 /\ ~s.second /\ opening
           step == IF Char(p) = "/" THEN -1 ELSE 1
<1>11. s.depth = d /\ (s.second <=> b) /\ (~b => s = F(d))
  <2>1. s.depth = d /\ (~b => s = F(d))
    OBVIOUS
  <2>2. s.second = b
    BY Zenon
  <2> QED
    BY <2>1, <2>2
<1>12. [s EXCEPT !.second = FALSE] = F(d)
  <2> DEFINE r == [s EXCEPT !.second = FALSE]
  <2>1. r \in Knowledge /\ r.depth = d /\ ~r.second
    BY DEF Knowledge
  <2>2. \A x \in Knowledge : x.depth = d /\ ~x.second => x = F(d)
    BY DEF Knowledge
  <2> HIDE DEF r, F, S
  <2>3. r = F(d)
    BY <2>1, <2>2
  <2> QED
    BY <2>3 DEF r
<1>13. pair[1] = Char(p - 1)
  OBVIOUS
<1>3. t = CASE s.second -> [s EXCEPT !.second = FALSE]
            [] opens    -> S(step)
            [] ends     -> F(0)
            [] up       -> S(s.depth - 1)
            [] down     -> S(s.depth + 1)
            [] OTHER    -> s
  <2>1. t = Turn(s, p)
    OBVIOUS
  <2> HIDE DEF s
  <2> QED
    BY <2>1, Zenon DEF Turn
<1>4. (IF Char(p) = "/" THEN -1 ELSE 1) \in Int
  OBVIOUS
<1>5. (pair = <<"*", "/">> <=> closing) /\ (pair = <<"/", "*">> <=> opening)
  OBVIOUS
<1>8. /\ opens => ~s.second /\ ~ends /\ ~up /\ ~down
      /\ ends => ~s.second /\ ~opens /\ ~up /\ ~down
      /\ up => ~s.second /\ ~opens /\ ~ends /\ ~down
      /\ down => ~s.second /\ ~opens /\ ~ends /\ ~up
  <2> HIDE DEF s, closing, opening
  <2> QED
    BY <1>1, <1>11
<1>9. /\ b => t = F(d)
      /\ opens => t = S(step)
      /\ ends => t = F(0)
      /\ up => t = S(d - 1)
      /\ down => t = S(d + 1)
      /\ ~b /\ ~opens /\ ~ends /\ ~up /\ ~down => t = F(d)
  <2> HIDE DEF s, opens, ends, up, down, step, F, S
  <2> QED
    BY <1>3, <1>8, <1>11, <1>12, Zenon
<1>14. /\ opens <=> d = 0 /\ ~b /\ Opens(p - 1)
       /\ ends <=> d = -1 /\ ~b /\ Char(p - 1) = "nl"
       /\ up <=> d > 0 /\ ~b /\ closing
       /\ down <=> d > 0 /\ ~b /\ opening
  <2> HIDE DEF s, pair, closing, opening
  <2> QED
    BY <1>11, <1>13
<1> HIDE DEF s, opens, ends, up, down
<1> HIDE DEF F, S, closing, opening, pair
<1>6. CASE b
  <2>1. t = F(d)
    BY <1>9, <1>6
  <2> QED
    BY <1>2, <1>6, <2>1
<1>7. CASE ~b
  <2> DEFINE other == pair \notin {<<"*", "/">>, <<"/", "*">>}
             ends1 == Char(p - 1) = "nl"
             opens1 == Opens(p - 1)
  <2> SUFFICES /\ t \in Knowledge
               /\ d = 0 /\ opens1 => Second(t, step)
               /\ d = 0 /\ ~opens1 => Fresh(t, 0)
               /\ d = -1 /\ ends1 => Fresh(t, 0)
               /\ d = -1 /\ ~ends1 => Fresh(t, -1)
               /\ d > 0 /\ closing => Second(t, d - 1)
               /\ d > 0 /\ opening => Second(t, d + 1)
               /\ d > 0 /\ other => Fresh(t, d)
    BY <1>5, <1>7, Zenon DEF pair
  <2>1. other <=> ~closing /\ ~opening
    BY <1>5
  <2>2. step \in Int
    BY <1>4
  <2> HIDE DEF other, ends1, opens1, step
  <2>3. CASE opens
    <3>1. t = S(step) /\ d = 0 /\ opens1
      BY <1>9, <1>14, <2>3 DEF opens1
    <3>2. S(step) \in Knowledge /\ Second(S(step), step)
      BY <2>2 DEF Knowledge, Second, S
    <3> QED
      BY <3>1, <3>2
  <2>4. CASE ends
    <3>1. t = F(0) /\ d = -1 /\ ends1
      BY <1>9, <1>14, <2>4 DEF ends1
    <3> QED
      BY <1>10, <3>1
  <2>5. CASE up
    <3>1. t = S(d - 1) /\ d > 0 /\ closing /\ ~opening /\ ~other
      BY <1>1, <1>9, <1>14, <2>1, <2>5
    <3> QED
      BY <1>10, <3>1
  <2>6. CASE down
    <3>1. t = S(d + 1) /\ d > 0 /\ opening /\ ~closing /\ ~other
      BY <1>1, <1>9, <1>14, <2>1, <2>6
    <3> QED
      BY <1>10, <3>1
  <2>7. CASE ~opens /\ ~ends /\ ~up /\ ~down
    <3>1. t = F(d)
      BY <1>7, <1>9, <1>14, <2>7
    <3>2. ~(d = 0 /\ opens1) /\ ~(d = -1 /\ ends1) /\ ~(d > 0 /\ (closing \/ opening))
      BY <1>7, <1>14, <2>7 DEF opens1, ends1
    <3> QED
      BY <1>2, <2>1, <3>1, <3>2
  <2> QED
    BY <2>3, <2>4, <2>5, <2>6, <2>7
<1> QED
  BY <1>6, <1>7

\* The reader starts outside of comments and goes on turn by turn.
LEMMA ReadingTurns ==
  ASSUME content \in Seq(Chars)
  PROVE  /\ Reading[1] = [depth |-> 0, second |-> FALSE]
         /\ \A p \in 2..End : Reading[p] = Turn(Reading[p - 1], p)
         /\ \A p \in 1..End : Reading[p] \in Knowledge
<1> DEFINE first == [depth |-> 0, second |-> FALSE]
           Body(f, p) == IF p = 1 THEN first ELSE Turn(f[p - 1], p)
<1>1. End \in Nat /\ End >= 1
  BY DEF End
<1>2. \E f : f = [p \in 1..End |-> Body(f, p)]
  <2> HIDE DEF first
  <2> DEFINE Defined == {m \in 1..End : \E f : f = [p \in 1..m |-> Body(f, p)]}
  <2>1. ASSUME NEW m \in 1..End, \A l \in 1..(m - 1) : l \in Defined
        PROVE  m \in Defined
    <3>1. CASE m = 1
      <4> DEFINE f == [p \in 1..1 |-> first]
      <4>1. \A p \in 1..1 : Body(f, p) = first
        OBVIOUS
      <4>2. f = [p \in 1..m |-> Body(f, p)]
        BY <4>1, <3>1
      <4> QED
        BY <4>2
    <3>2. CASE m # 1
      <4>1. m - 1 \in 1..(m - 1) /\ m - 1 \in Nat
        BY <3>2
      <4>2. PICK g : g = [p \in 1..(m - 1) |-> Body(g, p)]
        BY <4>1, <2>1
      <4> DEFINE f == [p \in 1..m |-> IF p = m THEN Body(g, m) ELSE g[p]]
      <4>3. \A p \in 1..(m - 1) : f[p] = g[p] /\ p # m /\ p \in 1..m
        OBVIOUS
      <4>4. \A p \in 1..m : p # 1 => p - 1 \in 1..(m - 1)
        OBVIOUS
      <4>5. \A p \in 1..m : Body(f, p) = Body(g, p)
        BY <4>3, <4>4
      <4>6. \A p \in 1..m : p # m => p \in 1..(m - 1)
        OBVIOUS
      <4>7. \A p \in 1..(m - 1) : g[p] = Body(g, p)
        <5> HIDE DEF Body
        <5> QED
          BY <4>2
      <4> HIDE DEF Body
      <4>8. \A p \in 1..m : f[p] = Body(f, p)
        BY <4>5, <4>6, <4>7
      <4>9. f = [p \in 1..m |-> f[p]]
        OBVIOUS
      <4> HIDE DEF f
      <4>10. f = [p \in 1..m |-> Body(f, p)]
        BY <4>8, <4>9
      <4> QED
        BY <4>10
    <3> QED
      BY <3>1, <3>2
  <2>2. 1 \in Nat
    OBVIOUS
  <2>3. End \in Defined
    <3> HIDE DEF Defined
    <3>1. 1..End \subseteq Defined
      BY <1>1, <2>1, <2>2, UpwardInduction
    <3> QED
      BY <3>1, <1>1
  <2> QED
    BY <2>3
<1>3. Reading = [p \in 1..End |-> Body(Reading, p)]
  BY <1>2 DEF Reading, Turn, End
<1> HIDE DEF Body
<1>4. \A p \in 1..End : Reading[p] = Body(Reading, p)
  BY <1>3
<1>5. 1 \in 1..End /\ Reading[1] = first
  BY <1>1, <1>4 DEF Body
<1>6. \A p \in 2..End : Reading[p] = Turn(Reading[p - 1], p)
  <2> TAKE p \in 2..End
  <2>1. p \in 1..End /\ p # 1
    OBVIOUS
  <2> QED
    BY <2>1, <1>4 DEF Body
<1>7. \A p \in 1..End : Reading[p] \in Knowledge
  <2> DEFINE T == {p \in 1..End : Reading[p] \in Knowledge}
  <2>1. ASSUME NEW p \in 1..End, \A m \in 1..(p - 1) : m \in T
        PROVE  p \in T
    <3>1. CASE p = 1
      <4>1. first \in Knowledge
        BY DEF Knowledge
      <4> HIDE DEF first
      <4> QED
        BY <3>1, <4>1, <1>5
    <3>2. CASE p # 1
      <4>1. p - 1 \in 1..(p - 1) /\ p \in 2..End
        BY <3>2
      <4>2. Reading[p - 1] \in Knowledge
        BY <4>1, <2>1
      <4>3. PICK d \in Int, b \in BOOLEAN : Reading[p - 1] = [depth |-> d, second |-> b]
        BY <4>2 DEF Knowledge
      <4>4. Reading[p] = Turn([depth |-> d, second |-> b], p)
        BY <4>1, <4>3, <1>6
      <4> QED
        BY <4>4, TurnFacts
    <3> QED
      BY <3>1, <3>2
  <2>2. 1 \in Nat
    OBVIOUS
  <2> HIDE DEF T
  <2>3. 1..End \subseteq T
    BY <1>1, <2>1, <2>2, UpwardInduction
  <2> QED
    BY <2>3 DEF T
<1> QED
  BY <1>5, <1>6, <1>7

\* A step of the reader: the cases of TurnFacts, from p to p + 1.
LEMMA ReadingNext ==
  ASSUME content \in Seq(Chars), NEW p \in 1..Len(content), NEW d \in Int
  PROVE  /\ Second(Reading[p], d) => Fresh(Reading[p + 1], d)
         /\ Fresh(Reading[p], 0) /\ Opens(p) /\ Char(p + 1) = "/" => Second(Reading[p + 1], -1)
         /\ Fresh(Reading[p], 0) /\ Opens(p) /\ Char(p + 1) # "/" => Second(Reading[p + 1], 1)
         /\ Fresh(Reading[p], 0) /\ ~Opens(p) => Fresh(Reading[p + 1], 0)
         /\ Fresh(Reading[p], -1) /\ Char(p) = "nl" => Fresh(Reading[p + 1], 0)
         /\ Fresh(Reading[p], -1) /\ Char(p) # "nl" => Fresh(Reading[p + 1], -1)
         /\ Fresh(Reading[p], d) /\ d > 0 /\ Char(p) = "*" /\ Char(p + 1) = "/" =>
              Second(Reading[p + 1], d - 1)
         /\ Fresh(Reading[p], d) /\ d > 0 /\ Char(p) = "/" /\ Char(p + 1) = "*" =>
              Second(Reading[p + 1], d + 1)
         /\ /\ Fresh(Reading[p], d) /\ d > 0
            /\ ~(Char(p) = "*" /\ Char(p + 1) = "/") /\ ~(Char(p) = "/" /\ Char(p + 1) = "*")
            => Fresh(Reading[p + 1], d)
<1>1. Len(content) \in Nat /\ p + 1 \in 2..End /\ p \in 1..End /\ p + 1 - 1 = p
  BY DEF End
<1>2. PICK e \in Int, b \in BOOLEAN : Reading[p] = [depth |-> e, second |-> b]
  BY <1>1, ReadingTurns DEF Knowledge
<1>3. Reading[p + 1] = Turn([depth |-> e, second |-> b], p + 1)
  BY <1>1, <1>2, ReadingTurns
<1> DEFINE s == Reading[p]
           t == Reading[p + 1]
<1>4. s.depth = e /\ (s.second <=> b)
  <2>1. s.depth = e
    BY <1>2
  <2>2. s.second = [depth |-> e, second |-> b].second
    BY <1>2, Zenon
  <2>3. [depth |-> e, second |-> b].second <=> b
    BY Zenon
  <2> QED
    BY <2>1, <2>2, <2>3, Zenon
<1>5. \A f \in Int : (Fresh(s, f) <=> f = e /\ ~b) /\ (Second(s, f) <=> f = e /\ b)
  <2> HIDE DEF s
  <2> QED
    BY <1>4 DEF Fresh, Second
<1> DEFINE pair == <<Char(p), Char(p + 1)>>
<1>6. /\ b => Fresh(t, e)
      /\ ~b /\ e = 0 /\ Opens(p) => Second(t, IF Char(p + 1) = "/" THEN -1 ELSE 1)
      /\ ~b /\ e = 0 /\ ~Opens(p) => Fresh(t, 0)
      /\ ~b /\ e = -1 /\ Char(p) = "nl" => Fresh(t, 0)
      /\ ~b /\ e = -1 /\ Char(p) # "nl" => Fresh(t, -1)
      /\ ~b /\ e > 0 /\ pair = <<"*", "/">> => Second(t, e - 1)
      /\ ~b /\ e > 0 /\ pair = <<"/", "*">> => Second(t, e + 1)
      /\ ~b /\ e > 0 /\ pair \notin {<<"*", "/">>, <<"/", "*">>} => Fresh(t, e)
  <2>1. p + 1 - 1 = p
    OBVIOUS
  <2> QED
    BY <1>3, <2>1, TurnFacts
<1>7. /\ Char(p) = "*" /\ Char(p + 1) = "/" => pair = <<"*", "/">>
      /\ Char(p) = "/" /\ Char(p + 1) = "*" => pair = <<"/", "*">>
      /\ pair \in {<<"*", "/">>, <<"/", "*">>} =>
           \/ Char(p) = "*" /\ Char(p + 1) = "/"
           \/ Char(p) = "/" /\ Char(p + 1) = "*"
  OBVIOUS
<1> HIDE DEF s, t, pair
<1>8. /\ Fresh(s, 0) => 0 = e /\ ~b
      /\ Fresh(s, -1) => -1 = e /\ ~b
      /\ Fresh(s, d) => d = e /\ ~b
      /\ Second(s, d) => d = e /\ b
  BY <1>5
<1>9. /\ Second(s, d) => Fresh(t, d)
      /\ Fresh(s, 0) /\ Opens(p) /\ Char(p + 1) = "/" => Second(t, -1)
      /\ Fresh(s, 0) /\ Opens(p) /\ Char(p + 1) # "/" => Second(t, 1)
      /\ Fresh(s, 0) /\ ~Opens(p) => Fresh(t, 0)
      /\ Fresh(s, -1) /\ Char(p) = "nl" => Fresh(t, 0)
      /\ Fresh(s, -1) /\ Char(p) # "nl" => Fresh(t, -1)
  BY <1>6, <1>8
<1>10. /\ Fresh(s, d) /\ d > 0 /\ Char(p) = "*" /\ Char(p + 1) = "/" => Second(t, d - 1)
       /\ Fresh(s, d) /\ d > 0 /\ Char(p) = "/" /\ Char(p + 1) = "*" => Second(t, d + 1)
       /\ /\ Fresh(s, d) /\ d > 0
          /\ ~(Char(p) = "*" /\ Char(p + 1) = "/") /\ ~(Char(p) = "/" /\ Char(p + 1) = "*")
          => Fresh(t, d)
  BY <1>6, <1>7, <1>8
<1> QED
  BY <1>9, <1>10 DEF s, t

-----------------------------------------------------------------------------
(* Lines and columns.                                                      *)

Breaks(p) == {q \in 1..(p - 1) : content[q] = "nl"}
Greatest(S) == IF S = {} THEN 0 ELSE CHOOSE q \in S : \A r \in S : r <= q
Last(p) == Greatest(Breaks(p))

\* The last line end before p is the greatest of them.
LEMMA LastBreak ==
  ASSUME NEW p \in Nat \ {0}, NEW q \in Breaks(p), \A r \in Breaks(p) : r <= q
  PROVE  Last(p) = q
<1>1. Breaks(p) \subseteq Nat
  BY DEF Breaks
<1>2. \A x \in Breaks(p) : (\A r \in Breaks(p) : r <= x) => x = q
  BY <1>1
<1> QED
  BY <1>2 DEF Last, Greatest

\* How many line ends there are before p, and where the last of them can be.
LEMMA BreaksBefore ==
  ASSUME content \in Seq(Chars), NEW p \in 1..End
  PROVE  /\ IsFiniteSet(Breaks(p)) /\ Cardinality(Breaks(p)) \in 0..(p - 1)
         /\ Last(p) \in 0..(p - 1)
<1>1. /\ Len(content) \in Nat /\ End \in Nat /\ p \in Nat \ {0} /\ p - 1 \in Nat
      /\ Breaks(p) \subseteq 1..(p - 1)
  BY DEF End, Breaks
<1>2. PICK m \in Nat : m = p - 1
  BY <1>1
<1>3. IsFiniteSet(1..m) /\ Cardinality(1..m) = m
  BY FS_Interval
<1>4. /\ IsFiniteSet(Breaks(p)) /\ Cardinality(Breaks(p)) \in Nat
      /\ Cardinality(Breaks(p)) <= m
  BY <1>1, <1>2, <1>3, FS_Subset, FS_CardinalityType
<1>5. CASE Breaks(p) = {}
  BY <1>1, <1>2, <1>4, <1>5 DEF Last, Greatest
<1>6. CASE Breaks(p) # {}
  <2>1. PICK q \in Breaks(p) : \A r \in Breaks(p) : r <= q
    <3> DEFINE T == {p - r : r \in Breaks(p)}
    <3>1. T \subseteq Nat /\ T # {}
      BY <1>1, <1>6
    <3>2. PICK k \in T : \A j \in T : k <= j
      <4> HIDE DEF T
      <4> QED
        BY <3>1, LeastElement
    <3>3. PICK q \in Breaks(p) : k = p - q
      BY <3>2
    <3>4. \A r \in Breaks(p) : p - q <= p - r
      BY <3>2, <3>3
    <3> QED
      BY <1>1, <3>4
  <2>2. Last(p) = q
    BY <1>1, <2>1, LastBreak
  <2> QED
    BY <1>1, <1>2, <1>4, <2>2
<1> QED
  BY <1>5, <1>6

\* What one character does to the location.
LEMMA AtNext ==
  ASSUME content \in Seq(Chars), NEW p \in 1..Len(content), NEW l, NEW c, At(p, l, c)
  PROVE  IF Char(p) = "nl" THEN At(p + 1, l + 1, 1) ELSE At(p + 1, l, c + 1)
<1>1. /\ Len(content) \in Nat /\ p \in Nat \ {0} /\ p + 1 \in Nat \ {0} /\ p \in 1..End
      /\ p + 1 \in 1..End /\ 1..(p + 1 - 1) = 1..(p - 1) \cup {p} /\ p \notin 1..(p - 1)
      /\ Char(p) = content[p]
  BY DEF End, Char
<1>2. Breaks(p) \subseteq 1..(p - 1) /\ p \notin Breaks(p)
  BY <1>1 DEF Breaks
<1>3. /\ IsFiniteSet(Breaks(p)) /\ Cardinality(Breaks(p)) \in Nat /\ Last(p) \in Nat
  BY <1>1, BreaksBefore
<1>5. \A q : /\ LocationOf(q).line = 1 + Cardinality(Breaks(q))
             /\ LocationOf(q).col = q - Last(q)
  BY DEF LocationOf, Breaks, Last, Greatest
<1>4. l = 1 + Cardinality(Breaks(p)) /\ c = p - Last(p)
  BY <1>5 DEF At
<1>6. ASSUME Char(p) = "nl"
      PROVE  At(p + 1, l + 1, 1)
  <2>1. Breaks(p + 1) = Breaks(p) \cup {p}
    <3>1. content[p] = "nl"
      BY <1>1, <1>6
    <3>2. \A q \in 1..(p + 1 - 1) : q \in 1..(p - 1) \/ q = p
      BY <1>1
    <3> QED
      BY <1>1, <3>1, <3>2 DEF Breaks
  <2>2. \A r \in Breaks(p + 1) : r <= p
    BY <1>1, <1>2, <2>1
  <2>3. Cardinality(Breaks(p + 1)) = Cardinality(Breaks(p)) + 1
    BY <1>2, <1>3, <2>1, FS_AddElement
  <2>4. Last(p + 1) = p
    BY <1>1, <2>1, <2>2, LastBreak
  <2> QED
    BY <1>1, <1>3, <1>4, <1>5, <2>3, <2>4 DEF At
<1>7. ASSUME Char(p) # "nl"
      PROVE  At(p + 1, l, c + 1)
  <2>1. Breaks(p + 1) = Breaks(p)
    BY <1>1, <1>7 DEF Breaks
  <2>2. Last(p + 1) = Last(p)
    BY <2>1 DEF Last
  <2> QED
    BY <1>1, <1>3, <1>4, <1>5, <2>1, <2>2 DEF At
<1> QED
  BY <1>6, <1>7

\* Lines and columns count from 1, and there are no more lines than characters.
LEMMA AtBounds ==
  ASSUME content \in Seq(Chars), NEW p, NEW l, NEW c, At(p, l, c)
  PROVE  /\ p \in Nat \ {0} /\ l \in 1..End /\ c \in Nat \ {0}
         /\ LocationOf(p) = [line |-> l, col |-> c]
<1>1. p \in 1..End /\ Len(content) \in Nat /\ End \in Nat
  BY DEF At, End
<1>2. Cardinality(Breaks(p)) \in 0..(p - 1) /\ Last(p) \in 0..(p - 1)
  BY <1>1, BreaksBefore
<1>3. LocationOf(p) = [line |-> 1 + Cardinality(Breaks(p)), col |-> p - Last(p)]
  BY DEF LocationOf, Breaks, Last, Greatest
<1>4. l = 1 + Cardinality(Breaks(p)) /\ c = p - Last(p)
  BY <1>3 DEF At
<1> QED
  BY <1>1, <1>2, <1>3, <1>4

\* The text starts in the first column of the first line.
LEMMA AtFirst ==
  ASSUME content \in Seq(Chars)
  PROVE  At(1, 1, 1)
<1>1. Len(content) \in Nat /\ 1 \in 1..End
  BY DEF End
<1>2. Breaks(1) = {}
  BY DEF Breaks
<1>3. LocationOf(1) = [line |-> 1 + Cardinality(Breaks(1)), col |-> 1 - Last(1)]
  BY DEF LocationOf, Breaks, Last, Greatest
<1>4. Cardinality(Breaks(1)) = 0 /\ Last(1) = 0
  BY <1>2, FS_EmptySet DEF Last, Greatest
<1> QED
  BY <1>1, <1>3, <1>4 DEF At

\* A stretch of text without line ends moves the column only; source proper
\* that opens no comment leaves the reader outside of comments.
LEMMA Stretch ==
  ASSUME content \in Seq(Chars), NEW p \in 1..End, NEW n \in Nat, p + n <= End,
         \A q \in p..(p + n - 1) : Char(q) # "nl" /\ ~Opens(q)
  PROVE  /\ \A l, c : At(p, l, c) => At(p + n, l, c + n)
         /\ Fresh(Reading[p], 0) => \A q \in p..(p + n) : Fresh(Reading[q], 0)
<1> DEFINE LC == {k \in 0..n : \A l, c : At(p, l, c) => At(p + k, l, c + k)}
           R == {k \in 0..n : Fresh(Reading[p], 0) => Fresh(Reading[p + k], 0)}
<1>1. Len(content) \in Nat /\ End = Len(content) + 1 /\ 0 \in Nat /\ p \in Nat
  BY DEF End
<1>2. ASSUME NEW k \in 0..n, \A m \in 0..(k - 1) : m \in LC /\ m \in R
      PROVE  k \in LC /\ k \in R
  <2>1. CASE k = 0
    <3>1. p + k = p
      BY <1>1, <2>1
    <3>2. \A l, c : At(p, l, c) => c + k = c
      BY <2>1, AtBounds
    <3> QED
      BY <2>1, <3>1, <3>2
  <2>2. CASE k # 0
    <3>1. /\ k - 1 \in 0..(k - 1) /\ k - 1 \in 0..n /\ p + (k - 1) \in p..(p + n - 1)
          /\ p + (k - 1) \in 1..Len(content) /\ p + (k - 1) + 1 = p + k
      BY <1>1, <2>2
    <3>2. Char(p + (k - 1)) # "nl" /\ ~Opens(p + (k - 1))
      BY <3>1
    <3>3. k - 1 \in LC /\ k - 1 \in R
      BY <1>2, <3>1
    <3>4. ASSUME NEW l, NEW c, At(p, l, c)
          PROVE  At(p + k, l, c + k)
      <4>1. At(p + (k - 1), l, c + (k - 1))
        BY <3>3, <3>4
      <4>2. c \in Nat
        BY <3>4, AtBounds
      <4>3. At(p + (k - 1) + 1, l, c + (k - 1) + 1)
        BY <3>1, <3>2, <4>1, AtNext
      <4>4. c + (k - 1) + 1 = c + k
        BY <4>2, <3>1
      <4> QED
        BY <3>1, <4>3, <4>4
    <3>5. ASSUME Fresh(Reading[p], 0)
          PROVE  Fresh(Reading[p + k], 0)
      <4>1. Fresh(Reading[p + (k - 1)], 0)
        BY <3>3, <3>5
      <4>2. Fresh(Reading[p + (k - 1) + 1], 0)
        BY <3>1, <3>2, <4>1, ReadingNext
      <4> QED
        BY <3>1, <4>2
    <3> QED
      BY <3>4, <3>5
  <2> QED
    BY <2>1, <2>2
<1> HIDE DEF LC, R
<1>3. 0..n \subseteq LC \cap R
  <2>1. \A k \in 0..n : (\A m \in 0..(k - 1) : m \in LC \cap R) => k \in LC \cap R
    BY <1>2
  <2> QED
    BY <1>1, <2>1, UpwardInduction
<1>4. n \in 0..n /\ \A q \in p..(p + n) : q - p \in 0..n /\ p + (q - p) = q
  BY <1>1
<1>5. ASSUME Fresh(Reading[p], 0), NEW q \in p..(p + n)
      PROVE  Fresh(Reading[q], 0)
  <2>1. q - p \in R
    BY <1>3, <1>4
  <2>2. Fresh(Reading[p + (q - p)], 0)
    BY <1>5, <2>1 DEF R
  <2> QED
    BY <1>4, <2>2
<1> QED
  BY <1>3, <1>4, <1>5 DEF LC

-----------------------------------------------------------------------------
(* Tokens.                                                                 *)

\* Least finds the least element.
LEMMA LeastFacts ==
  ASSUME NEW S, S \subseteq Nat, S # {}
  PROVE  Least(S) \in S /\ \A k \in S : Least(S) <= k
<1>1. \E n \in S : \A k \in S : n <= k
  BY LeastElement
<1> QED
  BY <1>1 DEF Least

\* A span of characters of S ends inside the text or at its end.
LEMMA SpanFacts ==
  ASSUME content \in Seq(Chars), NEW p \in 1..End, NEW S, Nul \notin S
  PROVE  /\ SpanAt(p, S) \in Nat /\ p + SpanAt(p, S) <= End
         /\ \A q \in p..(p + SpanAt(p, S) - 1) : Char(q) \in S
         /\ Char(p) \in S => SpanAt(p, S) # 0
<1> DEFINE L == Len(content)
           T == {k \in 0..L : Char(p + k) \notin S}
           n == SpanAt(p, S)
<1>1. L \in Nat /\ End = L + 1 /\ p \in Nat \ {0}
  BY DEF End
<1>2. \A q \in Nat : q > L => Char(q) = Nul
  BY <1>1 DEF Char
<1>3. L \in T
  BY <1>1, <1>2
<1>4. n \in T /\ \A k \in T : n <= k
  <2>1. n = Least(T)
    BY DEF SpanAt
  <2>2. T \subseteq Nat /\ T # {}
    BY <1>1, <1>3
  <2> HIDE DEF T, n
  <2> QED
    BY <2>1, <2>2, LeastFacts
<1>5. n \in 0..L /\ Char(p + n) \notin S
  BY <1>4
<1>6. ASSUME NEW q \in p..(p + n - 1)
      PROVE  Char(q) \in S
  <2>1. q - p \in 0..L /\ q - p < n /\ p + (q - p) = q
    BY <1>1, <1>5
  <2>2. q - p \notin T
    BY <1>4, <1>5, <2>1
  <2> QED
    BY <2>1, <2>2
<1>7. p + n <= End
  <2>1. CASE n = 0
    BY <1>1, <2>1
  <2>2. CASE n # 0
    <3>1. p + n - 1 \in p..(p + n - 1) /\ p + n - 1 \in Nat
      BY <1>1, <1>5, <2>2
    <3>2. Char(p + n - 1) # Nul
      BY <1>6, <3>1
    <3> QED
      BY <1>1, <1>2, <1>5, <3>1, <3>2
  <2> QED
    BY <2>1, <2>2
<1>8. Char(p) \in S => n # 0
  BY <1>1, <1>5
<1> QED
  BY <1>1, <1>5, <1>6, <1>7, <1>8

\* An unknown character goes on to the next synchronisation character.
LEMMA SyncFacts ==
  ASSUME content \in Seq(Chars), NEW p \in 1..Len(content), ~SyncAt(p, 0),
         NEW n, n = Least({k \in 0..Len(content) : SyncAt(p, k)})
  PROVE  /\ n \in Nat \ {0} /\ p + n <= End
         /\ \A q \in p..(p + n - 1) : Char(q) \notin SyncChars /\ ~Opens(q)
<1> DEFINE L == Len(content)
           T == {k \in 0..L : SyncAt(p, k)}
<1>1. L \in Nat /\ End = L + 1 /\ p \in Nat \ {0}
  BY DEF End
<1>2. \A k \in Nat : Char(p + k) = Nul => SyncAt(p, k)
  BY DEF SyncAt, SyncChars
<1>3. \A q \in Nat : q > L => Char(q) = Nul
  BY <1>1 DEF Char
<1>4. L + 1 - p \in T
  <2>1. L + 1 - p \in 0..L /\ p + (L + 1 - p) = L + 1 /\ L + 1 - p \in Nat
    BY <1>1
  <2>2. Char(p + (L + 1 - p)) = Nul
    BY <1>1, <1>3, <2>1
  <2> QED
    BY <1>2, <2>1, <2>2
<1>5. n \in T /\ \A k \in T : n <= k
  <2>1. n = Least(T) /\ T \subseteq Nat /\ T # {}
    BY <1>1, <1>4
  <2> HIDE DEF T
  <2> QED
    BY <2>1, LeastFacts
<1>6. n \in 0..L /\ SyncAt(p, n) /\ n <= L + 1 - p
  BY <1>4, <1>5
<1>7. ASSUME NEW q \in p..(p + n - 1)
      PROVE  Char(q) \notin SyncChars /\ ~Opens(q)
  <2>1. q - p \in 0..L /\ q - p < n /\ p + (q - p) = q
    BY <1>1, <1>6
  <2>2. q - p \notin T
    BY <1>5, <1>6, <2>1
  <2>3. ~SyncAt(p, q - p)
    BY <2>1, <2>2
  <2>4. p + (q - p) + 1 = q + 1
    BY <2>1
  <2> QED
    BY <2>1, <2>3, <2>4 DEF SyncAt, Opens
<1>8. n # 0
  BY <1>6
<1> QED
  BY <1>1, <1>6, <1>7, <1>8

\* The kinds of token exclude one another.
LEMMA TokenCases ==
  ASSUME NEW a, NEW b
  PROVE  /\ a \in Punctuation => a # "0" /\ a \notin Digits /\ a \notin Letters
         /\ a \in Digits => a \notin Letters
         /\ "0" \in Digits /\ (b = "x" => b # "b")
         /\ Punctuation \cap (Blank \cup {"nl", "/", Nul}) = {}
         /\ WordChars \cap (Blank \cup {"nl", "/", Nul}) = {}
         /\ HexDigits \subseteq WordChars /\ BinaryDigits \subseteq WordChars
         /\ Digits \subseteq WordChars /\ Letters \subseteq WordChars
         /\ {"0", "x", "b"} \subseteq WordChars
  BY DEF Punctuation, Digits, Letters, WordChars, HexDigits, BinaryDigits, Blank, Nul

\* What TokenAt is in each case.
LEMMA TokenAtCases ==
  ASSUME NEW p
  PROVE  /\ Char(p) \in Punctuation => TokenAt(p) = TokenOf(p, "punct", 1)
         /\ Char(p) = "0" /\ Char(p + 1) = "x" =>
              TokenAt(p) = TokenOf(p, "int", 2 + SpanAt(p + 2, HexDigits))
         /\ Char(p) = "0" /\ Char(p + 1) = "b" =>
              TokenAt(p) = TokenOf(p, "int", 2 + SpanAt(p + 2, BinaryDigits))
         /\ Char(p) \in Digits /\ ~(Char(p) = "0" /\ Char(p + 1) \in {"x", "b"}) =>
              TokenAt(p) = TokenOf(p, "int", SpanAt(p, Digits))
         /\ Char(p) \in Letters => TokenAt(p) = TokenOf(p, "word", SpanAt(p, WordChars))
         /\ Char(p) \notin Punctuation \cup Digits \cup Letters =>
              TokenAt(p) = TokenOf(p, "unknown", Least({n \in 0..Len(content) : SyncAt(p, n)}))
<1> DEFINE punct == Char(p) \in Punctuation
           hex == Char(p) = "0" /\ Char(p + 1) = "x"
           bin == Char(p) = "0" /\ Char(p + 1) = "b"
           dec == Char(p) \in Digits /\ ~(Char(p) = "0" /\ Char(p + 1) \in {"x", "b"})
           word == Char(p) \in Letters
           other == Char(p) \notin Punctuation \cup Digits \cup Letters
<1>1. /\ punct => ~hex /\ ~bin /\ ~dec /\ ~word
      /\ hex => ~punct /\ ~bin /\ ~dec /\ ~word
      /\ bin => ~punct /\ ~hex /\ ~dec /\ ~word
      /\ dec => ~punct /\ ~hex /\ ~bin /\ ~word
      /\ word => ~punct /\ ~hex /\ ~bin /\ ~dec
      /\ other => ~punct /\ ~hex /\ ~bin /\ ~dec /\ ~word
  BY TokenCases DEF Punctuation, Digits, Letters
<1>2. TokenAt(p) =
        CASE punct -> TokenOf(p, "punct", 1)
          [] hex   -> TokenOf(p, "int", 2 + SpanAt(p + 2, HexDigits))
          [] bin   -> TokenOf(p, "int", 2 + SpanAt(p + 2, BinaryDigits))
          [] dec   -> TokenOf(p, "int", SpanAt(p, Digits))
          [] word  -> TokenOf(p, "word", SpanAt(p, WordChars))
          [] OTHER -> TokenOf(p, "unknown", Least({n \in 0..Len(content) : SyncAt(p, n)}))
  BY Zenon DEF TokenAt
<1>3. /\ punct => TokenAt(p) = TokenOf(p, "punct", 1)
      /\ hex => TokenAt(p) = TokenOf(p, "int", 2 + SpanAt(p + 2, HexDigits))
      /\ bin => TokenAt(p) = TokenOf(p, "int", 2 + SpanAt(p + 2, BinaryDigits))
      /\ dec => TokenAt(p) = TokenOf(p, "int", SpanAt(p, Digits))
      /\ word => TokenAt(p) = TokenOf(p, "word", SpanAt(p, WordChars))
      /\ other => TokenAt(p) =
                    TokenOf(p, "unknown", Least({n \in 0..Len(content) : SyncAt(p, n)}))
  <2> HIDE DEF punct, hex, bin, dec, word, other
  <2> QED
    BY <1>1, <1>2, Zenon
<1> QED
  BY <1>3, Zenon
\* A token has characters, all of them source proper.
LEMMA TokenChars ==
  ASSUME content \in Seq(Chars), NEW p \in 1..Len(content), ~Trivia(p)
  PROVE  \E t \in {"int", "word", "punct", "unknown"}, n \in Nat \ {0} :
           /\ TokenAt(p) = TokenOf(p, t, n) /\ p + n <= End
           /\ \A q \in p..(p + n - 1) : Char(q) \notin Blank \cup {"nl", Nul} /\ ~Opens(q)
<1> DEFINE Proper(n) == \A q \in p..(p + n - 1) : Char(q) \notin Blank \cup {"nl", Nul} /\ ~Opens(q)
           Words(n) == \A q \in p..(p + n - 1) : Char(q) \in WordChars
           Goal == \E t \in {"int", "word", "punct", "unknown"}, n \in Nat \ {0} :
                     TokenAt(p) = TokenOf(p, t, n) /\ p + n <= End /\ Proper(n)
<1>1. /\ Len(content) \in Nat /\ End = Len(content) + 1 /\ p \in Nat \ {0} /\ p \in 1..End
      /\ Char(p) = content[p] /\ Char(p) \in Chars /\ Char(p) # Nul /\ p + 1 \in 1..End
  <2>1. /\ Len(content) \in Nat /\ End = Len(content) + 1 /\ p \in Nat \ {0} /\ p \in 1..End
        /\ p + 1 \in 1..End /\ Char(p) = content[p]
    BY DEF End, Char
  <2>2. content[p] \in Chars
    BY <2>1
  <2>3. Nul \notin Chars
    BY DEF Chars, Nul, Blank, WordChars, Letters, Digits, Punctuation
  <2> QED
    BY <2>1, <2>2, <2>3
<1>2. Char(p) \notin Blank \cup {"nl"} /\ ~Opens(p)
  BY <1>1 DEF Trivia, Commented
<1>3. \A q : Opens(q) => Char(q) = "/"
  BY DEF Opens
<1>4. /\ \A n : Words(n) => Proper(n)
      /\ Char(p) \in Punctuation => Proper(1)
  BY <1>1, <1>3, TokenCases
<1>5. Nul \notin WordChars /\ Nul \notin HexDigits /\ Nul \notin BinaryDigits /\ Nul \notin Digits
  BY TokenCases
<1> SUFFICES Goal
  OBVIOUS
<1> HIDE DEF Proper
<1>6. ASSUME NEW t \in {"int", "word", "punct", "unknown"}, NEW n \in Nat \ {0},
             TokenAt(p) = TokenOf(p, t, n), p + n <= End, Proper(n)
      PROVE  Goal
  BY <1>6
<1> HIDE DEF Goal
<1>7. CASE Char(p) \in Punctuation
  <2>1. TokenAt(p) = TokenOf(p, "punct", 1)
    BY <1>7, TokenAtCases
  <2>2. 1 \in Nat \ {0} /\ p + 1 <= End
    BY <1>1
  <2> QED
    BY <1>4, <1>6, <1>7, <2>1, <2>2
<1>8. ASSUME NEW S, Nul \notin S, S \subseteq WordChars, Char(p) = "0", Char(p + 1) \in {"x", "b"},
             TokenAt(p) = TokenOf(p, "int", 2 + SpanAt(p + 2, S))
      PROVE  Goal
  <2>1. p + 1 \in 1..Len(content) /\ p + 2 \in 1..End
    <3>1. Char(p + 1) # Nul
      BY <1>5, <1>8, TokenCases
    <3>2. p + 1 <= Len(content)
      BY <1>1, <3>1 DEF Char
    <3> QED
      BY <1>1, <3>2
  <2> DEFINE m == SpanAt(p + 2, S)
  <2>2. m \in Nat /\ p + 2 + m <= End /\ \A q \in (p + 2)..(p + 2 + m - 1) : Char(q) \in S
    BY <2>1, <1>8, SpanFacts
  <2> HIDE DEF m
  <2>3. Words(2 + m)
    <3> SUFFICES ASSUME NEW q \in p..(p + (2 + m) - 1)
                 PROVE  Char(q) \in WordChars
      OBVIOUS
    <3>1. q = p \/ q = p + 1 \/ q \in (p + 2)..(p + 2 + m - 1)
      BY <1>1, <2>2
    <3>2. Char(p) \in WordChars /\ Char(p + 1) \in WordChars
      BY <1>8, TokenCases
    <3> QED
      BY <1>8, <2>2, <3>1, <3>2
  <2>4. Proper(2 + m) /\ 2 + m \in Nat \ {0} /\ p + (2 + m) <= End
    BY <1>1, <1>4, <2>2, <2>3
  <2>5. TokenAt(p) = TokenOf(p, "int", 2 + m)
    BY <1>8 DEF m
  <2> QED
    BY <1>6, <2>4, <2>5
<1>9. ASSUME NEW S, Nul \notin S, S \subseteq WordChars, Char(p) \in S,
             NEW t \in {"int", "word"}, TokenAt(p) = TokenOf(p, t, SpanAt(p, S))
      PROVE  Goal
  <2> DEFINE m == SpanAt(p, S)
  <2>1. m \in Nat \ {0} /\ p + m <= End /\ \A q \in p..(p + m - 1) : Char(q) \in S
    BY <1>1, <1>9, SpanFacts
  <2> HIDE DEF m
  <2>2. Proper(m)
    BY <1>4, <1>9, <2>1
  <2>3. TokenAt(p) = TokenOf(p, t, m)
    BY <1>9 DEF m
  <2> QED
    BY <1>6, <2>1, <2>2, <2>3
<1>10. CASE Char(p) \in Digits
  <2>1. CASE Char(p) = "0" /\ Char(p + 1) = "x"
    BY <1>5, <1>8, <2>1, TokenCases, TokenAtCases
  <2>2. CASE Char(p) = "0" /\ Char(p + 1) = "b"
    BY <1>5, <1>8, <2>2, TokenCases, TokenAtCases
  <2>3. CASE ~(Char(p) = "0" /\ Char(p + 1) \in {"x", "b"})
    BY <1>5, <1>9, <1>10, <2>3, TokenCases, TokenAtCases
  <2> QED
    BY <2>1, <2>2, <2>3
<1>11. CASE Char(p) \in Letters
  <2>1. Char(p) \in WordChars /\ TokenAt(p) = TokenOf(p, "word", SpanAt(p, WordChars))
    BY <1>11, TokenCases, TokenAtCases
  <2> QED
    BY <1>5, <1>9, <2>1
<1>12. CASE Char(p) \notin Punctuation \cup Digits \cup Letters
  <2> DEFINE m == Least({n \in 0..Len(content) : SyncAt(p, n)})
  <2>1. TokenAt(p) = TokenOf(p, "unknown", m)
    BY <1>12, TokenAtCases
  <2>2. ~SyncAt(p, 0)
    <3>1. Char(p) \notin SyncChars
      BY <1>1, <1>2, <1>12 DEF SyncChars, Punctuation
    <3>2. p + 0 = p /\ p + 0 + 1 = p + 1
      BY <1>1
    <3> QED
      BY <1>2, <3>1, <3>2 DEF SyncAt, Opens
  <2>3. /\ m \in Nat \ {0} /\ p + m <= End
        /\ \A q \in p..(p + m - 1) : Char(q) \notin SyncChars /\ ~Opens(q)
    BY <2>2, SyncFacts
  <2> HIDE DEF m
  <2>4. Proper(m)
    BY <2>3 DEF Proper, SyncChars
  <2> QED
    BY <1>6, <2>1, <2>3, <2>4
<1> QED
  BY <1>7, <1>10, <1>11, <1>12

\* Where the cursor is at the location of its position, what the lexer
\* recognises is the token of that position.
LEMMA RecognisedHere ==
  ASSUME content \in Seq(Chars), At(index, line, col)
  PROVE  Recognised = TokenAt(index)
<1>1. Len(content) \in Nat /\ index \in 1..End /\ End = Len(content) + 1
  BY DEF At, End
<1>2. \A n \in Nat : PeekAt(n) = Char(index + n)
  BY <1>1 DEF PeekAt, Char
<1>3. PeekAt(0) = Char(index) /\ PeekAt(1) = Char(index + 1)
  <2>1. index + 0 = index
    BY <1>1
  <2> QED
    BY <1>2, <2>1
<1>4. \A t, n : Token(t, n) = TokenOf(index, t, n)
  BY AtBounds DEF Token, TokenOf
<1>5. \A m \in Nat : \A S : Span(m, S) = SpanAt(index + m, S)
  <2> TAKE m \in Nat
  <2> TAKE S
  <2>1. \A k \in 0..Len(content) : PeekAt(m + k) = Char(index + m + k)
    BY <1>1, <1>2
  <2>2. {k \in 0..Len(content) : PeekAt(m + k) \notin S}
          = {k \in 0..Len(content) : Char(index + m + k) \notin S}
    BY <2>1
  <2> QED
    BY <2>2 DEF Span, SpanAt
<1>6. \A n \in 0..Len(content) : IsSync(n) <=> SyncAt(index, n)
  <2> TAKE n \in 0..Len(content)
  <2>1. PeekAt(n) = Char(index + n) /\ PeekAt(n + 1) = Char(index + n + 1)
    BY <1>1, <1>2
  <2>2. \A a, b : <<a, b>> \in {<<"/", "/">>, <<"/", "*">>} => <<a, b>> # <<>>
    OBVIOUS
  <2>3. <<>> \notin {<<"/", "/">>, <<"/", "*">>}
    OBVIOUS
  <2>4. PeekManyAt(n) \in {<<"/", "/">>, <<"/", "*">>} <=>
          /\ index + n + 1 < Len(content)
          /\ <<Char(index + n), Char(index + n + 1)>> \in {<<"/", "/">>, <<"/", "*">>}
    BY <1>1, <2>1, <2>3 DEF PeekManyAt
  <2> QED
    BY <2>1, <2>4 DEF IsSync, SyncAt
<1>7. Least({n \in 0..Len(content) : IsSync(n)}) = Least({n \in 0..Len(content) : SyncAt(index, n)})
  BY <1>6
<1>8. /\ Span(2, HexDigits) = SpanAt(index + 2, HexDigits)
      /\ Span(2, BinaryDigits) = SpanAt(index + 2, BinaryDigits)
      /\ Span(0, Digits) = SpanAt(index, Digits)
      /\ Span(0, WordChars) = SpanAt(index, WordChars)
  <2>1. index + 0 = index
    BY <1>1
  <2> QED
    BY <1>5, <2>1
<1> QED
  BY <1>3, <1>4, <1>7, <1>8, Zenon DEF Recognised, TokenAt, IsDecimal
-----------------------------------------------------------------------------
(* Steps.                                                                  *)

\* Reading as an operator of the text.
ReadingOf(text) ==
  LET Chr(p) == IF p \in 1..Len(text) THEN text[p] ELSE Nul
      Opn(p) == p + 1 < Len(text) /\ <<Chr(p), Chr(p + 1)>> \in {<<"/", "/">>, <<"/", "*">>}
      R[p \in 1..(Len(text) + 1)] ==
        IF p = 1 THEN [depth |-> 0, second |-> FALSE]
        ELSE LET s == R[p - 1]
                 pair == <<Chr(p - 1), Chr(p)>>
                 Deeper(d) == [depth |-> d, second |-> TRUE]
             IN CASE s.second                                   -> [s EXCEPT !.second = FALSE]
                  [] s.depth = 0 /\ ~s.second /\ Opn(p - 1)     -> Deeper(IF Chr(p) = "/" THEN -1 ELSE 1)
                  [] s.depth = -1 /\ ~s.second /\ pair[1] = "nl" -> [depth |-> 0, second |-> FALSE]
                  [] s.depth > 0 /\ ~s.second /\ pair = <<"*", "/">> -> Deeper(s.depth - 1)
                  [] s.depth > 0 /\ ~s.second /\ pair = <<"/", "*">> -> Deeper(s.depth + 1)
                  [] OTHER -> s
  IN R

\* TokenAt with its cases one in the other.
TokenByCase(p) ==
  IF Char(p) \in Punctuation THEN TokenOf(p, "punct", 1)
  ELSE IF Char(p) \in Letters THEN TokenOf(p, "word", SpanAt(p, WordChars))
  ELSE IF Char(p) \notin Digits THEN
         TokenOf(p, "unknown", Least({n \in 0..Len(content) : SyncAt(p, n)}))
  ELSE IF Char(p) = "0" /\ Char(p + 1) = "x" THEN TokenOf(p, "int", 2 + SpanAt(p + 2, HexDigits))
  ELSE IF Char(p) = "0" /\ Char(p + 1) = "b" THEN TokenOf(p, "int", 2 + SpanAt(p + 2, BinaryDigits))
  ELSE TokenOf(p, "int", SpanAt(p, Digits))

\* The two are the same.
LEMMA TokenAtByCase == \A p : TokenAt(p) = TokenByCase(p)
<1> TAKE p
<1>1. CASE Char(p) \in Punctuation
  BY <1>1, TokenAtCases DEF TokenByCase
<1>2. CASE Char(p) \in Letters
  BY <1>2, TokenAtCases, TokenCases DEF TokenByCase
<1>3. CASE Char(p) \notin Punctuation \cup Letters \cup Digits
  BY <1>3, TokenAtCases DEF TokenByCase
<1>4. CASE Char(p) \in Digits
  BY <1>4, TokenAtCases, TokenCases DEF TokenByCase
<1> QED
  BY <1>1, <1>2, <1>3, <1>4

\* What is said of the text alone stays as long as the text does.
LEMMA SameText ==
  ASSUME content' = content
  PROVE  /\ End' = End /\ Reading' = Reading
         /\ \A p : /\ Char(p)' = Char(p) /\ (Opens(p)' <=> Opens(p)) /\ (Trivia(p)' <=> Trivia(p))
                   /\ LocationOf(p)' = LocationOf(p) /\ TokenAt(p)' = TokenAt(p)
                   /\ (Between(p)' <=> Between(p))
         /\ \A p, q : Skipped(p, q)' <=> Skipped(p, q)
         /\ \A p, l, c : At(p, l, c)' <=> At(p, l, c)
         /\ \A t : Genuine(t)' <=> Genuine(t)
         /\ \A p, m, d : ModeAt(p, m, d)' <=> ModeAt(p, m, d)
<1>1. End' = End
  BY DEF End
<1>2. \A p : Char(p)' = Char(p)
  BY DEF Char
<1>3. \A p : Opens(p)' <=> Opens(p)
  BY <1>2 DEF Opens
<1>4. Reading' = Reading
  <2>1. Reading = ReadingOf(content)
    BY Zenon DEF Reading, Opens, Char, ReadingOf
  <2>2. Reading' = ReadingOf(content')
    BY Zenon DEF Reading, Opens, Char, ReadingOf
  <2> QED
    BY <2>1, <2>2
<1>5. \A p : Trivia(p)' <=> Trivia(p)
  BY <1>3, <1>4 DEF Trivia, Commented
<1>6. \A p : LocationOf(p)' = LocationOf(p)
  BY DEF LocationOf
<1>7. \A p, t, n : TokenOf(p, t, n)' = TokenOf(p, t, n)
  BY <1>6 DEF TokenOf
<1>8. \A p, S : SpanAt(p, S)' = SpanAt(p, S)
  BY Zenon DEF SpanAt, Char
<1>9. \A p, n : SyncAt(p, n)' <=> SyncAt(p, n)
  BY <1>2 DEF SyncAt
<1>10. \A p : TokenAt(p)' = TokenAt(p)
  <2>1. \A p : TokenByCase(p)' = TokenByCase(p)
    <3>1. \A p : Least({n \in 0..Len(content') : SyncAt(p, n)'})
                   = Least({n \in 0..Len(content) : SyncAt(p, n)})
      BY <1>9
    <3> QED
      BY <1>2, <1>7, <1>8, <3>1 DEF TokenByCase
  <2>2. (\A p : TokenAt(p) = TokenByCase(p))'
    BY TokenAtByCase, PTL
  <2> QED
    BY <2>1, <2>2, TokenAtByCase
<1>11. \A p : Between(p)' <=> Between(p)
  BY <1>1, <1>2, <1>4 DEF Between, Fresh
<1>12. \A p, q : Skipped(p, q)' <=> Skipped(p, q)
  BY <1>5 DEF Skipped
<1>13. \A p, l, c : At(p, l, c)' <=> At(p, l, c)
  BY <1>1, <1>6 DEF At
<1>14. \A t : Genuine(t)' <=> Genuine(t)
  BY <1>1, <1>5, <1>10 DEF Genuine
<1>15. \A p, m, d : ModeAt(p, m, d)' <=> ModeAt(p, m, d)
  BY <1>1, <1>2, <1>3, <1>4, <1>11 DEF ModeAt, Fresh, Second
<1> QED
  BY <1>1, <1>2, <1>3, <1>4, <1>5, <1>6, <1>10, <1>11, <1>12, <1>13, <1>14, <1>15
\* A peeked token stays the next one as long as only trivia are passed.
LEMMA StillNext ==
  ASSUME content \in Seq(Chars), NEW p \in 1..End, NEW n \in Nat, p + n <= End,
         \A q \in p..(p + n - 1) : Trivia(q),
         NEW t, Genuine(t), Skipped(p, t.start)
  PROVE  Skipped(p + n, t.start)
<1>1. /\ Len(content) \in Nat /\ End = Len(content) + 1 /\ p \in Nat
      /\ t.start \in Nat /\ (t.start = End \/ ~Trivia(t.start)) /\ t.start <= End
  BY DEF End, Genuine
<1>2. t.start \notin p..(p + n - 1)
  BY <1>1
<1>3. p <= t.start /\ \A q \in p..(t.start - 1) : Trivia(q)
  BY DEF Skipped
<1>4. p + n <= t.start /\ \A q \in (p + n)..(t.start - 1) : q \in p..(t.start - 1)
  BY <1>1, <1>2, <1>3
<1> QED
  BY <1>3, <1>4 DEF Skipped

\* A step of a call that passes n characters, all of them trivia, keeps the
\* invariant if it keeps the location and what the mode says.
LEMMA PassesTrivia ==
  ASSUME LexIInv, call # "none", LexUnchanged, NEW n \in 0..2,
         index' = index + n, index + n <= End, \A q \in index..(index + n - 1) : Trivia(q),
         At(index', line', col'),
         mode' \in {"strip", "line", "block"}, level' \in Nat, ModeAt(index', mode', level')
  PROVE  LexIInv'
<1> USE DEF LexUnchanged
<1>1. content' = content /\ call' = call /\ saved' = saved /\ peeked' = peeked /\ token' = token
      /\ from' = from
  OBVIOUS
<1>2. content \in Seq(Chars) /\ index \in 1..End /\ Len(content) \in Nat /\ End = Len(content) + 1
  BY DEF LexIInv, At, End
<1>3. At(index, line, col)'
  BY <1>1, SameText
<1>4. ModeOK'
  BY <1>1, SameText DEF LexIInv, ModeOK
<1>5. CallOK'
  <2>1. /\ saved \in Nat \X Nat \X Nat
        /\ At(saved[1], saved[2], saved[3]) /\ Between(saved[1]) /\ Skipped(saved[1], index)
    BY DEF LexIInv, CallOK
  <2> DEFINE a == saved[1]
  <2>2. a \in Nat /\ a <= index /\ \A q \in a..(index - 1) : Trivia(q)
    BY <2>1 DEF Skipped
  <2> HIDE DEF a
  <2>3. \A q \in a..(index + n - 1) : q \in a..(index - 1) \/ q \in index..(index + n - 1)
    BY <1>2, <2>2
  <2>4. Skipped(a, index + n)
    BY <1>2, <2>2, <2>3 DEF Skipped
  <2> QED
    BY <1>1, <2>1, <2>4, SameText DEF CallOK, a
<1>6. TokenOK'
  BY <1>1, SameText DEF LexIInv, TokenOK
<1>7. PeekedOK'
  <2> SUFFICES ASSUME peeked # NoToken
               PROVE  Genuine(peeked) /\ Skipped(index + n, peeked.start)
    BY <1>1, SameText DEF PeekedOK
  <2>1. Genuine(peeked) /\ Skipped(index, peeked.start)
    BY DEF LexIInv, PeekedOK
  <2>2. n \in Nat
    OBVIOUS
  <2>3. Skipped(index + n, peeked.start)
    BY <1>2, <2>1, <2>2, StillNext
  <2> QED
    BY <2>1, <2>3
<1> QED
  BY <1>1, <1>2, <1>3, <1>4, <1>5, <1>6, <1>7 DEF LexIInv
\* What the lexer sees from its cursor.
LEMMA Peeks ==
  ASSUME content \in Seq(Chars), index \in 1..End
  PROVE  /\ PeekAt(0) = Char(index) /\ PeekAt(1) = Char(index + 1)
         /\ index \in Nat /\ Len(content) \in Nat /\ End = Len(content) + 1
         /\ HasInput <=> index \in 1..Len(content)
         /\ ~HasInput <=> index = End
         /\ \A p \in Nat : Char(p) # Nul => p \in 1..Len(content) /\ Char(p) = content[p]
         /\ PeekMany = <<"/", "/">> <=> Opens(index) /\ Char(index + 1) = "/"
         /\ PeekMany = <<"/", "*">> <=> Opens(index) /\ Char(index + 1) = "*"
         /\ \A p : Opens(p) => Char(p) = "/" /\ Char(p + 1) \in {"/", "*"}
<1>1. index \in Nat /\ Len(content) \in Nat /\ End = Len(content) + 1
  BY DEF End
<1>2. PeekAt(0) = Char(index) /\ PeekAt(1) = Char(index + 1)
  BY <1>1 DEF PeekAt, Char
<1>3. (HasInput <=> index \in 1..Len(content)) /\ (~HasInput <=> index = End)
  BY <1>1 DEF HasInput
<1>4. \A p \in Nat : Char(p) # Nul => p \in 1..Len(content) /\ Char(p) = content[p]
  BY DEF Char
<1>5. <<>> # <<"/", "/">> /\ <<>> # <<"/", "*">>
  OBVIOUS
<1>6. PeekMany = IF index + 1 >= Len(content) THEN <<>> ELSE <<Char(index), Char(index + 1)>>
  BY <1>2 DEF PeekMany
<1>7. PeekMany = <<"/", "/">> <=>
        index + 1 < Len(content) /\ Char(index) = "/" /\ Char(index + 1) = "/"
  BY <1>1, <1>5, <1>6
<1>8. PeekMany = <<"/", "*">> <=>
        index + 1 < Len(content) /\ Char(index) = "/" /\ Char(index + 1) = "*"
  BY <1>1, <1>5, <1>6
<1>9. \A p : Opens(p) <=> p + 1 < Len(content) /\ Char(p) = "/" /\ Char(p + 1) \in {"/", "*"}
  BY DEF Opens
<1> QED
  BY <1>1, <1>2, <1>3, <1>4, <1>7, <1>8, <1>9

\* White space is trivia, and outside of comments leaves the reader there.
LEMMA StripKeeps ==
  ASSUME LexIInv, StripNewLine \/ StripBlank \/ OpenComment
  PROVE  LexIInv'
<1> USE DEF Nul
<1>1. /\ content \in Seq(Chars) /\ index \in 1..End /\ At(index, line, col)
      /\ call # "none" /\ mode = "strip" /\ level \in Nat /\ LexUnchanged
      /\ ModeAt(index, mode, level)
  BY DEF LexIInv, At, ModeOK, StripNewLine, StripBlank, OpenComment, Stripping
<1>2. PICK p \in Nat : p = index
  BY <1>1, Peeks
<1>3. Between(p)
  BY <1>1, <1>2 DEF ModeAt, Between
<1>4. CASE StripNewLine
  <2>1. p \in 1..Len(content) /\ Char(p) = "nl" /\ content[p] = "nl" /\ p + 1 <= End /\ p # End
    BY <1>1, <1>2, <1>4, Peeks DEF StripNewLine
  <2>2. ~Opens(p)
    BY <1>1, <2>1, Peeks
  <2>3. Fresh(Reading[p + 1], 0)
    BY <1>1, <1>3, <2>1, <2>2, ReadingNext DEF Between
  <2>4. At(p + 1, line + 1, 1)
    BY <1>1, <1>2, <2>1, AtNext
  <2>5. /\ index' = index + 1 /\ line' = line + 1 /\ col' = 1 /\ mode' = mode /\ level' = level
    BY <1>4 DEF StripNewLine, NewLine
  <2>6. \A q \in index..(index + 1 - 1) : Trivia(q)
    BY <1>2, <2>1 DEF Trivia
  <2>7. ModeAt(index', mode', level') /\ At(index', line', col')
    BY <1>1, <1>2, <2>3, <2>4, <2>5 DEF ModeAt, Between
  <2> QED
    BY <1>1, <1>2, <2>1, <2>5, <2>6, <2>7, PassesTrivia
<1>5. CASE StripBlank
  <2>1. /\ p \in 1..Len(content) /\ Char(p) \in Blank /\ content[p] \in Blank /\ p + 1 <= End
        /\ p # End /\ Char(p) # "nl"
    <3>1. Char(p) \in Blank
      BY <1>1, <1>2, <1>5, Peeks DEF StripBlank
    <3>2. Char(p) # Nul /\ Char(p) # "nl"
      BY <3>1 DEF Blank
    <3>3. p \in 1..Len(content) /\ Char(p) = content[p]
      BY <1>1, <3>2, Peeks
    <3> QED
      BY <1>1, <3>1, <3>2, <3>3, Peeks
  <2>2. ~Opens(p)
    BY <1>1, <2>1, Peeks DEF Blank
  <2>3. Fresh(Reading[p + 1], 0)
    BY <1>1, <1>3, <2>1, <2>2, ReadingNext DEF Between
  <2>4. At(p + 1, line, col + 1)
    BY <1>1, <1>2, <2>1, AtNext
  <2>5. index' = index + 1 /\ line' = line /\ col' = col + 1 /\ mode' = mode /\ level' = level
    BY <1>5 DEF StripBlank, Advance
  <2>6. \A q \in index..(index + 1 - 1) : Trivia(q)
    BY <1>2, <2>1 DEF Trivia
  <2>7. ModeAt(index', mode', level') /\ At(index', line', col')
    BY <1>1, <1>2, <2>3, <2>4, <2>5 DEF ModeAt, Between
  <2> QED
    BY <1>1, <1>2, <2>1, <2>5, <2>6, <2>7, PassesTrivia
<1>6. CASE OpenComment
  <2>1. /\ p \in 1..Len(content) /\ p + 1 \in 1..Len(content) /\ p # End /\ Opens(p) /\ Char(p) = "/"
    <3>1. Opens(p) /\ Char(p) = "/" /\ Char(p + 1) \in {"/", "*"}
      BY <1>1, <1>2, <1>6, Peeks DEF OpenComment
    <3> QED
      BY <1>1, <3>1, Peeks
  <2>2. Fresh(Reading[p], 0)
    BY <1>3, <2>1 DEF Between
  <2>3. CASE PeekMany = <<"/", "/">> /\ mode' = "line" /\ UNCHANGED <<cursor, level>>
    <3>1. Char(p + 1) = "/"
      BY <1>1, <1>2, <2>3, Peeks
    <3>2. index' = index + 0 /\ index + 0 = index /\ line' = line /\ col' = col /\ level' = level
      BY <1>1, <2>3, Peeks DEF cursor
    <3>3. \A q \in index..(index + 0 - 1) : Trivia(q)
      BY <1>2
    <3>4. ModeAt(index', mode', level') /\ At(index', line', col')
      BY <1>1, <1>2, <2>1, <2>2, <2>3, <3>1, <3>2 DEF ModeAt
    <3>5. index + 0 <= End /\ mode' \in {"strip", "line", "block"} /\ 0 \in 0..2 /\ level' \in Nat
      BY <1>1, <2>3, <3>2, Peeks
    <3> QED
      BY <1>1, <3>2, <3>3, <3>4, <3>5, PassesTrivia
  <2>4. CASE PeekMany = <<"/", "*">> /\ mode' = "block" /\ level' = 0 /\ Advance(2) /\ UNCHANGED line
    <3>1. Char(p + 1) = "*"
      BY <1>1, <1>2, <2>4, Peeks
    <3>2. Second(Reading[p + 1], 1)
      BY <1>1, <2>1, <2>2, <3>1, ReadingNext
    <3>3. Fresh(Reading[p + 1 + 1], 1)
      BY <1>1, <2>1, <3>2, ReadingNext
    <3>4. At(p + 1 + 1, line, col + 1 + 1)
      <4>1. At(p + 1, line, col + 1)
        BY <1>1, <1>2, <2>1, AtNext
      <4> QED
        BY <1>1, <2>1, <3>1, <4>1, AtNext
    <3>5. /\ index' = index + 2 /\ line' = line /\ col' = col + 2 /\ col + 1 + 1 = col + 2
          /\ p + 1 + 1 = index + 2
      BY <1>1, <1>2, <2>4, AtBounds DEF Advance
    <3>6. \A q \in index..(index + 2 - 1) : Trivia(q)
      <4>1. Trivia(p) /\ Trivia(p + 1)
        BY <2>1, <3>2 DEF Trivia, Commented, Second
      <4>2. \A q \in index..(index + 2 - 1) : q = p \/ q = p + 1
        BY <1>2
      <4> QED
        BY <4>1, <4>2
    <3>7. ModeAt(index', mode', level') /\ At(index', line', col')
      BY <2>4, <3>3, <3>4, <3>5 DEF ModeAt
    <3>8. index + 2 <= End /\ mode' \in {"strip", "line", "block"} /\ 2 \in 0..2 /\ level' \in Nat
      BY <1>1, <1>2, <2>1, <2>4, Peeks
    <3> QED
      BY <1>1, <3>5, <3>6, <3>7, <3>8, PassesTrivia
  <2> QED
    BY <1>6, <2>3, <2>4 DEF OpenComment
<1> QED
  BY <1>4, <1>5, <1>6
\* Comments are trivia, and the mode knows how deep in them the text is.
LEMMA CommentKeeps ==
  ASSUME LexIInv, LineComment \/ BlockComment
  PROVE  LexIInv'
<1> USE DEF Nul
<1>1. /\ content \in Seq(Chars) /\ index \in 1..End /\ At(index, line, col)
      /\ call # "none" /\ mode \in {"line", "block"} /\ level \in Nat /\ LexUnchanged
      /\ ModeAt(index, mode, level)
  BY DEF LexIInv, At, ModeOK, LineComment, BlockComment, Stripping
<1>2. PICK p \in Nat : p = index
  BY <1>1, Peeks
<1>3. ASSUME UNCHANGED <<index, line, col>>, ModeAt(index, mode', level'),
             mode' \in {"strip", "line", "block"}, level' \in Nat
      PROVE  LexIInv'
  <2>1. /\ index' = index + 0 /\ index + 0 = index /\ line' = line /\ col' = col
        /\ index + 0 <= End /\ 0 \in 0..2
    BY <1>1, <1>3, Peeks
  <2>2. \A q \in index..(index + 0 - 1) : Trivia(q)
    BY <1>2
  <2>3. ModeAt(index', mode', level') /\ At(index', line', col')
    BY <1>1, <1>3, <2>1
  <2> QED
    BY <1>1, <1>3, <2>1, <2>2, <2>3, PassesTrivia
<1>4. ASSUME p \in 1..Len(content), Trivia(p), index' = index + 1,
             IF Char(p) = "nl" THEN line' = line + 1 /\ col' = 1 ELSE line' = line /\ col' = col + 1,
             ModeAt(p + 1, mode', level'), mode' \in {"strip", "line", "block"}, level' \in Nat
      PROVE  LexIInv'
  <2>1. At(p + 1, line', col')
    BY <1>1, <1>2, <1>4, AtNext
  <2>2. \A q \in index..(index + 1 - 1) : Trivia(q)
    BY <1>2, <1>4
  <2>3. ModeAt(index', mode', level') /\ At(index', line', col') /\ index + 1 <= End /\ 1 \in 0..2
    BY <1>1, <1>2, <1>4, <2>1, Peeks
  <2> QED
    BY <1>1, <1>4, <2>2, <2>3, PassesTrivia
<1>5. CASE LineComment
  <2>1. mode = "line"
    BY <1>5 DEF LineComment, Stripping
  <2>2. CASE HasInput /\ Char(p) # "nl"
    <3>1. p \in 1..Len(content) /\ p # End
      BY <1>1, <1>2, <2>2, Peeks
    <3>2. index' = index + 1 /\ line' = line /\ col' = col + 1 /\ mode' = mode /\ level' = level
      BY <1>1, <1>2, <1>5, <2>2, Peeks DEF LineComment, Advance
    <3>3. \/ Fresh(Reading[p], 0) /\ Opens(p) /\ Char(p + 1) = "/"
          \/ Second(Reading[p], -1) /\ Char(p) = "/"
          \/ Fresh(Reading[p], -1)
      BY <1>1, <1>2, <2>1, <3>1 DEF ModeAt
    <3>4. Trivia(p)
      BY <3>3 DEF Trivia, Commented, Fresh, Second
    <3>5. \/ Second(Reading[p + 1], -1) /\ Char(p + 1) = "/"
          \/ Fresh(Reading[p + 1], -1)
      BY <1>1, <2>2, <3>1, <3>3, ReadingNext
    <3>6. ModeAt(p + 1, mode', level')
      BY <2>1, <3>2, <3>5 DEF ModeAt
    <3> QED
      BY <1>1, <1>4, <2>2, <3>1, <3>2, <3>4, <3>6
  <2>3. CASE ~(HasInput /\ Char(p) # "nl")
    <3>1. mode' = "strip" /\ index' = index /\ line' = line /\ col' = col /\ level' = level
      BY <1>1, <1>2, <1>5, <2>3, Peeks DEF LineComment
    <3>2. p = End \/ (Fresh(Reading[p], -1) /\ Char(p) = "nl")
      <4>1. \A q : Opens(q) => Char(q) = "/"
        BY <1>1, Peeks
      <4> QED
        BY <1>1, <1>2, <2>1, <2>3, <4>1, Peeks DEF ModeAt
    <3>3. ModeAt(index, mode', level')
      BY <1>2, <3>1, <3>2 DEF ModeAt, Between
    <3> QED
      BY <1>1, <1>3, <3>1, <3>3
  <2> QED
    BY <2>2, <2>3
<1>6. CASE BlockComment
  <2>1. mode = "block"
    BY <1>6 DEF BlockComment, Stripping
  <2> DEFINE d == level + 1
  <2>2. d \in Int /\ d > 0 /\ d - 1 = level
    BY <1>1
  <2>3. ASSUME p \in 1..Len(content)
        PROVE  Fresh(Reading[p], d) /\ Trivia(p)
    <3>1. p # End
      BY <1>1, <1>2, <2>3, Peeks
    <3>2. Fresh(Reading[p], d)
      BY <1>1, <1>2, <2>1, <3>1 DEF ModeAt
    <3> QED
      BY <2>2, <3>2 DEF Trivia, Commented, Fresh
  <2> HIDE DEF d
  <2>4. ASSUME p \in 1..Len(content), p + 1 \in 1..Len(content), NEW e \in Int,
               Second(Reading[p + 1], e), Char(p) # "nl", Char(p + 1) # "nl",
               Advance(2), line' = line,
               IF mode' = "strip" THEN e = 0 ELSE mode' = "block" /\ e = level' + 1, level' \in Nat
        PROVE  LexIInv'
    <3>1. Fresh(Reading[p + 1 + 1], e)
      BY <1>1, <2>4, ReadingNext
    <3>2. At(p + 1 + 1, line, col + 1 + 1)
      <4>1. At(p + 1, line, col + 1)
        BY <1>1, <1>2, <2>4, AtNext
      <4> QED
        BY <1>1, <2>4, <4>1, AtNext
    <3>3. /\ index' = index + 2 /\ col' = col + 2 /\ col + 1 + 1 = col + 2 /\ p + 1 + 1 = index + 2
          /\ index + 2 <= End /\ 2 \in 0..2
      BY <1>1, <1>2, <2>4, AtBounds, Peeks DEF Advance
    <3>4. \A q \in index..(index + 2 - 1) : Trivia(q)
      <4>1. Trivia(p) /\ Trivia(p + 1)
        BY <2>3, <2>4 DEF Trivia, Commented, Second
      <4>2. \A q \in index..(index + 2 - 1) : q = p \/ q = p + 1
        BY <1>2
      <4> QED
        BY <4>1, <4>2
    <3>5. ModeAt(index', mode', level') /\ At(index', line', col')
      BY <2>4, <3>1, <3>2, <3>3 DEF ModeAt, Between
    <3>6. mode' \in {"strip", "line", "block"}
      BY <2>4
    <3> QED
      BY <1>1, <2>4, <3>3, <3>4, <3>5, <3>6, PassesTrivia
  <2>5. CASE ~HasInput /\ mode' = "strip" /\ UNCHANGED <<cursor, level>>
    <3>1. index = End /\ index' = index /\ line' = line /\ col' = col /\ level' = level
      BY <1>1, <2>5, Peeks DEF cursor
    <3> QED
      BY <1>1, <1>3, <2>5, <3>1 DEF ModeAt
  <2>6. CASE PeekAt(0) = "*" /\ PeekAt(1) = "/" /\ Advance(2) /\ CloseBlock /\ UNCHANGED line
    <3>1. Char(p) = "*" /\ Char(p + 1) = "/" /\ p \in 1..Len(content) /\ p + 1 \in 1..Len(content)
      BY <1>1, <1>2, <2>6, Peeks
    <3>2. Second(Reading[p + 1], level)
      BY <1>1, <2>2, <2>3, <3>1, ReadingNext
    <3>3. /\ level' \in Nat /\ line' = line
          /\ IF mode' = "strip" THEN level = 0 ELSE mode' = "block" /\ level = level' + 1
      BY <1>1, <2>6 DEF CloseBlock
    <3>4. level \in Int
      BY <1>1
    <3> QED
      BY <2>4, <2>6, <3>1, <3>2, <3>3, <3>4
  <2>7. CASE /\ PeekAt(0) = "/" /\ PeekAt(1) = "*" /\ Advance(2) /\ level' = level + 1
             /\ UNCHANGED <<line, mode>>
    <3>1. Char(p) = "/" /\ Char(p + 1) = "*" /\ p \in 1..Len(content) /\ p + 1 \in 1..Len(content)
      BY <1>1, <1>2, <2>7, Peeks
    <3>2. Second(Reading[p + 1], d + 1)
      BY <1>1, <2>2, <2>3, <3>1, ReadingNext
    <3>3. /\ level' \in Nat /\ line' = line /\ d + 1 \in Int
          /\ IF mode' = "strip" THEN d + 1 = 0 ELSE mode' = "block" /\ d + 1 = level' + 1
      BY <1>1, <2>1, <2>2, <2>7 DEF d
    <3> QED
      BY <2>4, <2>7, <3>1, <3>2, <3>3
  <2>8. CASE PeekAt(0) = "nl" /\ NewLine /\ UNCHANGED <<mode, level>>
    <3>1. Char(p) = "nl" /\ p \in 1..Len(content)
      BY <1>1, <1>2, <2>8, Peeks
    <3>2. Fresh(Reading[p + 1], d)
      BY <1>1, <2>2, <2>3, <3>1, ReadingNext
    <3>3. /\ index' = index + 1 /\ line' = line + 1 /\ col' = 1 /\ level' = level /\ mode' = mode
      BY <2>8 DEF NewLine
    <3>4. ModeAt(p + 1, mode', level')
      BY <2>1, <3>2, <3>3 DEF ModeAt, d
    <3> QED
      BY <1>1, <1>4, <2>3, <3>1, <3>3, <3>4
  <2>9. CASE /\ HasInput /\ PeekAt(0) # "nl"
             /\ <<PeekAt(0), PeekAt(1)>> \notin {<<"*", "/">>, <<"/", "*">>}
             /\ Advance(1) /\ UNCHANGED <<line, mode, level>>
    <3>1. /\ Char(p) # "nl" /\ p \in 1..Len(content)
          /\ ~(Char(p) = "*" /\ Char(p + 1) = "/") /\ ~(Char(p) = "/" /\ Char(p + 1) = "*")
      BY <1>1, <1>2, <2>9, Peeks
    <3>2. Fresh(Reading[p + 1], d)
      BY <1>1, <2>2, <2>3, <3>1, ReadingNext
    <3>3. /\ index' = index + 1 /\ line' = line /\ col' = col + 1 /\ level' = level /\ mode' = mode
      BY <2>9 DEF Advance
    <3>4. ModeAt(p + 1, mode', level')
      BY <2>1, <3>2, <3>3 DEF ModeAt, d
    <3> QED
      BY <1>1, <1>4, <2>3, <3>1, <3>3, <3>4
  <2> QED
    BY <1>6, <2>5, <2>6, <2>7, <2>8, <2>9 DEF BlockComment
<1> QED
  BY <1>5, <1>6
\* What the call returns: the token at the cursor, which is the first thing
\* there that is not trivia, or the end.
LEMMA ReturnedToken ==
  ASSUME LexIInv, Stripped, NEW t, t = IF HasInput THEN Recognised ELSE EndToken
  PROVE  /\ Genuine(t) /\ t.start = index /\ t # NoToken
         /\ HasInput => /\ index \in 1..Len(content) /\ t = TokenAt(index) /\ ~Trivia(index)
                        /\ Fresh(Reading[index], 0)
         /\ ~HasInput => index = End /\ t.len = 0
<1> USE DEF Nul
<1>1. /\ content \in Seq(Chars) /\ index \in 1..End /\ At(index, line, col)
      /\ mode = "strip" /\ ModeAt(index, mode, level)
  BY DEF LexIInv, At, ModeOK, Stripped, Stripping
<1>2. CASE ~HasInput
  <2>1. index = End /\ t = [type |-> "eof", start |-> End, len |-> 0, line |-> 0, col |-> 0]
    BY <1>1, <1>2, Peeks DEF EndToken
  <2> QED
    BY <1>2, <2>1 DEF Genuine, NoToken
<1>3. CASE HasInput
  <2>1. index \in 1..Len(content) /\ index # End /\ Char(index) = content[index]
    <3>1. index \in 1..Len(content) /\ index # End
      BY <1>1, <1>3, Peeks
    <3> QED
      BY <3>1 DEF Char
  <2>2. Char(index) \notin Blank \cup {"nl"} /\ ~Opens(index)
    <3>1. Char(index) \notin Blank \cup {"nl"}
      BY <1>1, Peeks DEF Stripped
    <3>2. PeekMany # <<"/", "/">> /\ PeekMany # <<"/", "*">>
      BY DEF Stripped
    <3>3. ~(Opens(index) /\ Char(index + 1) = "/") /\ ~(Opens(index) /\ Char(index + 1) = "*")
      BY <1>1, <3>2, Peeks
    <3>4. Opens(index) => Char(index + 1) \in {"/", "*"}
      BY <1>1, Peeks
    <3> QED
      BY <3>1, <3>3, <3>4
  <2>3. Fresh(Reading[index], 0)
    BY <1>1, <2>1, <2>2 DEF ModeAt, Between
  <2>4. ~Trivia(index)
    BY <2>1, <2>2, <2>3 DEF Trivia, Commented, Fresh
  <2>5. t = TokenAt(index)
    BY <1>1, <1>3, RecognisedHere
  <2>6. PICK k \in {"int", "word", "punct", "unknown"}, n \in Nat \ {0} :
          TokenAt(index) = TokenOf(index, k, n)
    BY <1>1, <2>1, <2>4, TokenChars
  <2>7. t.start = index /\ t # NoToken
    <3>1. t.start = index /\ t.len = n
      BY <2>5, <2>6 DEF TokenOf
    <3> QED
      BY <3>1 DEF NoToken
  <2> QED
    BY <1>3, <2>1, <2>3, <2>4, <2>5, <2>7 DEF Genuine
<1> QED
  BY <1>2, <1>3

\* The cursor after a token is between two tokens, and at its location.
LEMMA AfterToken ==
  ASSUME LexIInv, Stripped, NEW t, t = IF HasInput THEN Recognised ELSE EndToken
  PROVE  At(index + t.len, line, col + t.len) /\ Between(index + t.len)
<1>1. /\ content \in Seq(Chars) /\ At(index, line, col) /\ index \in 1..End
  BY DEF LexIInv, At
<1>2. CASE ~HasInput
  <2>1. index = End /\ t.len = 0
    BY <1>2, ReturnedToken
  <2>2. index + 0 = index /\ col + 0 = col
    BY <1>1, AtBounds
  <2> QED
    BY <1>1, <2>1, <2>2 DEF Between
<1>3. CASE HasInput
  <2>1. /\ index \in 1..Len(content) /\ t = TokenAt(index) /\ ~Trivia(index)
        /\ Fresh(Reading[index], 0)
    BY <1>3, ReturnedToken
  <2>2. PICK k \in {"int", "word", "punct", "unknown"}, n \in Nat \ {0} :
          /\ TokenAt(index) = TokenOf(index, k, n) /\ index + n <= End
          /\ \A q \in index..(index + n - 1) : Char(q) \notin Blank \cup {"nl", Nul} /\ ~Opens(q)
    BY <1>1, <2>1, TokenChars
  <2>3. t.len = n
    BY <2>1, <2>2 DEF TokenOf
  <2>4. \A q \in index..(index + n - 1) : Char(q) # "nl" /\ ~Opens(q)
    BY <2>2
  <2>5. n \in Nat /\ index + n \in index..(index + n)
    BY <2>1, <2>2
  <2>6. At(index + n, line, col + n) /\ Fresh(Reading[index + n], 0)
    BY <1>1, <2>1, <2>2, <2>4, <2>5, Stretch
  <2> QED
    BY <2>3, <2>6 DEF Between
<1> QED
  BY <1>2, <1>3

\* A call begins between two tokens.
LEMMA BeginKeeps ==
  ASSUME LexIInv, NEW c \in {"peek", "consume", "skip"}, Begin(c)
  PROVE  LexIInv'
<1>1. /\ call = "none" /\ call' = c /\ mode' = "strip" /\ saved' = cursor
      /\ content' = content /\ index' = index /\ line' = line /\ col' = col /\ level' = level
      /\ peeked' = peeked /\ token' = token /\ from' = from
  BY DEF Begin
<1>2. content \in Seq(Chars) /\ At(index, line, col) /\ mode = "strip" /\ Between(index)
  BY <1>1 DEF LexIInv, ModeOK, ModeAt, Between
<1>3. index \in Nat /\ line \in Nat /\ col \in Nat
  <2>1. index \in Nat \ {0} /\ line \in 1..End /\ col \in Nat \ {0} /\ End \in Nat
    BY <1>2, AtBounds DEF End
  <2> QED
    BY <2>1
<1>4. content' \in Seq(Chars) /\ At(index, line, col)'
  BY <1>1, <1>2, SameText
<1>5. ModeOK'
  BY <1>1, <1>2, SameText DEF LexIInv, ModeOK, ModeAt
<1>6. CallOK'
  <2>1. saved' = <<index, line, col>>
    BY <1>1 DEF cursor
  <2>2. saved'[1] = index /\ saved'[2] = line /\ saved'[3] = col /\ saved' \in Nat \X Nat \X Nat
    BY <1>3, <2>1
  <2>3. Skipped(index, index)
    BY <1>3 DEF Skipped
  <2> QED
    BY <1>1, <1>2, <2>2, <2>3, SameText DEF CallOK
<1>7. TokenOK' /\ PeekedOK'
  BY <1>1, SameText DEF LexIInv, TokenOK, PeekedOK
<1> QED
  BY <1>4, <1>5, <1>6, <1>7 DEF LexIInv

\* A call returns the token it stripped its way to; peek goes back.
LEMMA ReturnKeeps ==
  ASSUME LexIInv, Return
  PROVE  LexIInv'
<1> DEFINE t == IF HasInput THEN Recognised ELSE EndToken
<1>1. /\ call # "none" /\ call' = "none" /\ saved' = <<0, 0, 0>> /\ content' = content
      /\ mode' = mode /\ level' = level /\ mode = "strip" /\ Stripped
  BY DEF Return, Stripped, Stripping
<1>2. /\ content \in Seq(Chars) /\ At(index, line, col) /\ level \in Nat
      /\ ModeAt(index, mode, level)
      /\ saved \in Nat \X Nat \X Nat /\ At(saved[1], saved[2], saved[3])
      /\ Between(saved[1]) /\ Skipped(saved[1], index)
  BY <1>1 DEF LexIInv, ModeOK, CallOK
<1>3. Genuine(t) /\ t.start = index /\ t # NoToken
  BY <1>1, ReturnedToken
<1>4. At(index + t.len, line, col + t.len) /\ Between(index + t.len)
  BY <1>1, AfterToken
<1>5. \/ call = "peek" /\ peeked' = t /\ Restore /\ UNCHANGED <<token, from>>
      \/ /\ call = "consume" /\ token' = t /\ from' = saved[1] /\ peeked' = NoToken
         /\ Advance(t.len) /\ UNCHANGED line
      \/ call = "skip" /\ UNCHANGED <<index, line, col, peeked, token, from>>
  BY DEF Return
<1> HIDE DEF t
<1>6. CallOK'
  BY <1>1 DEF CallOK
<1>7. ASSUME NEW p, NEW l, NEW c, p = index', l = line', c = col', At(p, l, c), Between(p)
      PROVE  At(index, line, col)' /\ ModeOK'
  <2>1. At(index', line', col') /\ ModeAt(index', mode', level')
    BY <1>1, <1>7 DEF ModeAt
  <2>2. mode' \in {"strip", "line", "block"} /\ level' \in Nat
    BY <1>1, <1>2
  <2> QED
    BY <1>1, <2>1, <2>2, SameText DEF ModeOK
<1>8. CASE call = "peek" /\ peeked' = t /\ Restore /\ UNCHANGED <<token, from>>
  <2>1. index' = saved[1] /\ line' = saved[2] /\ col' = saved[3]
    BY <1>8 DEF Restore
  <2>2. TokenOK'
    BY <1>1, <1>8, SameText DEF LexIInv, TokenOK
  <2>3. PeekedOK'
    <3>1. Genuine(peeked') /\ Skipped(index', peeked'.start)
      BY <1>2, <1>3, <1>8, <2>1
    <3> QED
      BY <1>1, <3>1, SameText DEF PeekedOK
  <2> QED
    BY <1>1, <1>2, <1>6, <1>7, <2>1, <2>2, <2>3 DEF LexIInv
<1>9. CASE /\ call = "consume" /\ token' = t /\ from' = saved[1] /\ peeked' = NoToken
           /\ Advance(t.len) /\ UNCHANGED line
  <2>1. index' = index + t.len /\ line' = line /\ col' = col + t.len
    BY <1>9 DEF Advance
  <2>2. TokenOK'
    <3>1. saved[1] \in Nat /\ saved[1] >= 1
      BY <1>2 DEF At
    <3>2. Genuine(token') /\ from' \in Nat /\ from' >= 1 /\ Skipped(from', token'.start)
      BY <1>2, <1>3, <1>9, <3>1
    <3> QED
      BY <1>1, <3>2, SameText DEF TokenOK
  <2>3. PeekedOK'
    BY <1>9 DEF PeekedOK
  <2> QED
    BY <1>1, <1>2, <1>4, <1>6, <1>7, <2>1, <2>2, <2>3 DEF LexIInv
<1>10. CASE call = "skip" /\ UNCHANGED <<index, line, col, peeked, token, from>>
  <2>1. Between(index)
    BY <1>1, <1>2 DEF ModeAt, Between
  <2>2. TokenOK' /\ PeekedOK'
    BY <1>1, <1>10, SameText DEF LexIInv, TokenOK, PeekedOK
  <2> QED
    BY <1>1, <1>2, <1>6, <1>7, <1>10, <2>1, <2>2 DEF LexIInv
<1> QED
  BY <1>5, <1>8, <1>9, <1>10
-----------------------------------------------------------------------------
(* Theorems.                                                               *)

\* The invariant holds at the start.
LEMMA LexInitial == Init => LexIInv
<1> SUFFICES ASSUME Init
             PROVE  LexIInv
  OBVIOUS
<1>1. content \in Seq(Chars) /\ index = 1 /\ line = 1 /\ col = 1
  BY LexerAssumption DEF Init
<1>2. At(index, line, col)
  BY <1>1, AtFirst
<1>3. Fresh(Reading[1], 0)
  BY <1>1, ReadingTurns DEF Fresh
<1>4. ModeOK
  BY <1>1, <1>3 DEF Init, ModeOK, ModeAt, Between
<1>5. CallOK /\ TokenOK /\ PeekedOK
  BY DEF Init, CallOK, TokenOK, PeekedOK
<1> QED
  BY <1>1, <1>2, <1>4, <1>5 DEF LexIInv

\* Every step of the lexer keeps the invariant.
LEMMA LexStep == LexIInv /\ [Next]_vars => LexIInv'
<1> SUFFICES ASSUME LexIInv, [Next]_vars
             PROVE  LexIInv'
  OBVIOUS
<1>1. CASE Peek \/ Consume \/ Skip
  BY <1>1, BeginKeeps DEF Peek, Consume, Skip
<1>2. CASE StripNewLine \/ StripBlank \/ OpenComment
  BY <1>2, StripKeeps
<1>3. CASE LineComment \/ BlockComment
  BY <1>3, CommentKeeps
<1>4. CASE Return
  BY <1>4, ReturnKeeps
<1>5. CASE UNCHANGED vars
  <2>1. /\ content' = content /\ index' = index /\ line' = line /\ col' = col /\ call' = call
        /\ mode' = mode /\ level' = level /\ saved' = saved /\ peeked' = peeked
        /\ token' = token /\ from' = from
    BY <1>5 DEF vars
  <2> QED
    BY <2>1, SameText DEF LexIInv, ModeOK, CallOK, TokenOK, PeekedOK
<1> QED
  BY <1>1, <1>2, <1>3, <1>4, <1>5 DEF Next

\* The lexer knows at every step how deep in the comments it is, on which line
\* and in which column, and what the token that was peeked will be
\* (front-end/lexer.c, remove_ws_and_comments and its callers).
THEOREM LexInvariance == Spec => []LexIInv
<1>1. Init => LexIInv
  BY LexInitial
<1>2. LexIInv /\ [Next]_vars => LexIInv'
  BY LexStep
<1> QED
  BY <1>1, <1>2, PTL DEF Spec

\* What a genuine token is made of.
LEMMA GenuineFacts ==
  ASSUME content \in Seq(Chars), NEW t, Genuine(t)
  PROVE  /\ t \in [type : Types, start : Nat, len : Nat, line : Nat, col : Nat]
         /\ t.type = "eof" => t.start = End /\ t.len = 0
         /\ t.type # "eof" => /\ t.len # 0 /\ t.start \in 1..Len(content)
                              /\ [line |-> t.line, col |-> t.col] = LocationOf(t.start)
                              /\ t.start + t.len <= End
                              /\ \A q \in t.start..(t.start + t.len - 1) : ~Trivia(q)
         /\ t.type # "none"
<1>1. Len(content) \in Nat /\ End = Len(content) + 1
  BY DEF End
<1>2. CASE t = [type |-> "eof", start |-> End, len |-> 0, line |-> 0, col |-> 0]
  BY <1>1, <1>2 DEF Types
<1>3. CASE t.start \in 1..Len(content) /\ t = TokenAt(t.start) /\ ~Trivia(t.start)
  <2>1. PICK p \in 1..Len(content) : p = t.start
    BY <1>3
  <2>2. PICK k \in {"int", "word", "punct", "unknown"}, n \in Nat \ {0} :
          /\ TokenAt(p) = TokenOf(p, k, n) /\ p + n <= End
          /\ \A q \in p..(p + n - 1) : Char(q) \notin Blank \cup {"nl", Nul} /\ ~Opens(q)
    BY <1>3, <2>1, TokenChars
  <2>3. PICK l, c : l = LocationOf(p).line /\ c = LocationOf(p).col
    OBVIOUS
  <2>4. l \in 1..End /\ c \in Nat /\ LocationOf(p) = [line |-> l, col |-> c]
    <3>1. At(p, l, c)
      BY <1>1, <2>3 DEF At
    <3> QED
      BY <3>1, AtBounds
  <2>5. t = [type |-> k, start |-> p, len |-> n, line |-> l, col |-> c]
    BY <1>3, <2>1, <2>2, <2>3 DEF TokenOf
  <2>6. ASSUME NEW q \in p..(p + n - 1)
        PROVE  ~Trivia(q)
    <3>1. Fresh(Reading[p], 0)
      <4>1. Reading[p] \in Knowledge
        BY <1>1, ReadingTurns
      <4> QED
        BY <1>3, <2>1, <4>1 DEF Trivia, Commented, Fresh, Knowledge
    <3>2. \A r \in p..(p + n - 1) : Char(r) # "nl" /\ ~Opens(r)
      BY <2>2
    <3>3. p \in 1..End /\ n \in Nat /\ q \in p..(p + n)
      BY <1>1, <2>1, <2>2
    <3>4. Fresh(Reading[q], 0)
      BY <2>2, <3>1, <3>2, <3>3, Stretch
    <3>5. q \in 1..Len(content) /\ Char(q) = content[q]
      BY <1>1, <2>2 DEF Char
    <3> QED
      BY <2>2, <3>4, <3>5 DEF Trivia, Commented, Fresh
  <2>7. t \in [type : Types, start : Nat, len : Nat, line : Nat, col : Nat]
    BY <1>1, <2>4, <2>5 DEF Types
  <2>8. t.type = k /\ t.start = p /\ t.len = n /\ t.line = l /\ t.col = c
    BY <2>5
  <2> QED
    BY <2>2, <2>4, <2>6, <2>7, <2>8
<1> QED
  BY <1>2, <1>3 DEF Genuine

\* The cursor stays inside the text, and a token that is not the end has
\* characters (front-end/lexer.c, zenit_lexer_consume): for every source text.
THEOREM LexTypeCorrect == Spec => []LexTypeOK
<1>1. LexIInv => LexTypeOK
  <2> SUFFICES ASSUME LexIInv
               PROVE  LexTypeOK
    OBVIOUS
  <2>1. /\ content \in Seq(Chars) /\ At(index, line, col) /\ ModeOK /\ CallOK /\ TokenOK /\ PeekedOK
        /\ index \in 1..End
    BY DEF LexIInv, At
  <2>2. line \in 1..End /\ col \in Nat \ {0}
    BY <2>1, AtBounds
  <2> DEFINE Fields == [type : Types, start : Nat, len : Nat, line : Nat, col : Nat]
  <2>3. NoToken \in Fields /\ (NoToken.len = 0 /\ NoToken.type = "none")
    BY DEF NoToken, Types
  <2>4. \A t \in {peeked, token} : t # NoToken => Genuine(t)
    BY <2>1 DEF TokenOK, PeekedOK
  <2>5. \A t \in {peeked, token} : t \in Fields /\ (t.len = 0 <=> t.type \in {"none", "eof"})
    <3> HIDE DEF Fields
    <3> TAKE t \in {peeked, token}
    <3>1. CASE t = NoToken
      BY <2>3, <3>1
    <3>2. CASE Genuine(t)
      BY <2>1, <3>2, GenuineFacts DEF Fields
    <3> QED
      BY <2>4, <3>1, <3>2
  <2> HIDE DEF Fields
  <2>6. {peeked, token} \subseteq Fields
    BY <2>5
  <2> QED
    BY <2>1, <2>2, <2>5, <2>6 DEF LexTypeOK, ModeOK, CallOK, TokenOK, End, Fields
<1> QED
  BY <1>1, LexInvariance, PTL

\* The line and the column of a token are those of its first character, however
\* comments nest and whatever was peeked before: for every source text.
THEOREM LocationsAreExact == Spec => []LocationsExact
<1>1. LexIInv => LocationsExact
  <2> SUFFICES ASSUME LexIInv, NEW t \in {token, peeked}, t.type \notin {"none", "eof"}
               PROVE  [line |-> t.line, col |-> t.col] = LocationOf(t.start)
    BY DEF LocationsExact
  <2>1. t # NoToken
    BY DEF NoToken
  <2>2. content \in Seq(Chars) /\ Genuine(t)
    BY <2>1 DEF LexIInv, TokenOK, PeekedOK
  <2> QED
    BY <2>2, GenuineFacts
<1> QED
  BY <1>1, LexInvariance, PTL

\* What consume skips is white space and comments, nested ones too, and what it
\* delivers is neither: for every source text.
THEOREM TriviaOnlySkipped == Spec => []OnlyTriviaSkipped
<1>1. LexIInv => OnlyTriviaSkipped
  <2> SUFFICES ASSUME LexIInv, token # NoToken
               PROVE  /\ \A p \in from..(token.start - 1) :
                            Commented(p) \/ content[p] \in Blank \cup {"nl"}
                      /\ \A p \in token.start..(token.start + token.len - 1) :
                            ~Commented(p) /\ content[p] \notin Blank \cup {"nl"}
                      /\ token.type = "eof" => token.start = Len(content) + 1
    BY Zenon DEF OnlyTriviaSkipped
  <2>1. content \in Seq(Chars) /\ Genuine(token) /\ Skipped(from, token.start)
    BY DEF LexIInv, TokenOK
  <2>2. \A p \in from..(token.start - 1) : Trivia(p)
    BY <2>1 DEF Skipped
  <2>3. token.type = "eof" => token.start = End /\ token.len = 0
    BY <2>1, GenuineFacts
  <2>4. \A q \in token.start..(token.start + token.len - 1) : ~Trivia(q)
    <3>1. CASE token.type = "eof"
      <4>1. End \in Nat
        BY <2>1 DEF End
      <4> QED
        BY <2>3, <3>1, <4>1
    <3>2. CASE token.type # "eof"
      BY <2>1, <3>2, GenuineFacts
    <3> QED
      BY <3>1, <3>2
  <2> QED
    BY <2>2, <2>3, <2>4 DEF Trivia, End
<1> QED
  BY <1>1, LexInvariance, PTL

\* The token that consume returns is the one that peek showed, and peek leaves
\* the cursor where it was: for every source text.
THEOREM PeekShowsTheNextToken == Spec => PeekIsNextConsume
<1>1. LexIInv /\ [Next]_vars =>
        [/\ token' # token /\ peeked # NoToken => token' = peeked
         /\ call = "peek" /\ call' = "none" =>
              index' <= peeked'.start /\ [line |-> line', col |-> col'] = LocationOf(index')]_vars
  <2> SUFFICES ASSUME LexIInv, Next
               PROVE  /\ token' # token /\ peeked # NoToken => token' = peeked
                      /\ call = "peek" /\ call' = "none" =>
                           /\ index' <= peeked'.start
                           /\ [line |-> line', col |-> col'] = LocationOf(index')
    OBVIOUS
  <2>1. CASE ~Return
    <3>1. token' = token /\ (call = "peek" => call' # "none")
      BY <2>1 DEF Next, Peek, Consume, Skip, Begin, StripNewLine, StripBlank, OpenComment,
                  LineComment, BlockComment, LexUnchanged
    <3> QED
      BY <3>1
  <2>2. CASE Return
    <3> DEFINE t == IF HasInput THEN Recognised ELSE EndToken
    <3>1. Stripped /\ call # "none"
      BY <2>2 DEF Return, Stripped, Stripping
    <3>2. /\ Genuine(t) /\ t.start = index
          /\ HasInput => t = TokenAt(index) /\ ~Trivia(index)
          /\ ~HasInput => index = End
      BY <3>1, ReturnedToken
    <3>3. \/ call = "peek" /\ peeked' = t /\ Restore /\ UNCHANGED <<token, from>>
          \/ call = "consume" /\ token' = t
          \/ call = "skip" /\ UNCHANGED <<index, line, col, peeked, token, from>>
      BY <2>2 DEF Return
    <3>4. /\ content \in Seq(Chars) /\ At(saved[1], saved[2], saved[3]) /\ Skipped(saved[1], index)
          /\ At(index, line, col) /\ index \in 1..End
      BY <3>1 DEF LexIInv, CallOK, At
    <3>5. ~HasInput => t = [type |-> "eof", start |-> End, len |-> 0, line |-> 0, col |-> 0]
      BY <3>2 DEF EndToken
    <3> HIDE DEF t
    <3>6. ASSUME peeked # NoToken
          PROVE  t = peeked
      <4>1. Genuine(peeked) /\ index <= peeked.start /\ \A q \in index..(peeked.start - 1) : Trivia(q)
        BY <3>6 DEF LexIInv, PeekedOK, Skipped
      <4>2. /\ peeked.start \in 1..End /\ Len(content) \in Nat /\ End = Len(content) + 1
        BY <3>4, <4>1 DEF Genuine, End
      <4>3. peeked.start = index
        <5>1. CASE ~HasInput
          BY <3>2, <4>1, <4>2, <5>1
        <5>2. CASE HasInput
          <6>1. index \notin index..(peeked.start - 1)
            BY <3>2, <4>1, <5>2
          <6> QED
            BY <3>4, <4>1, <4>2, <6>1
        <5> QED
          BY <5>1, <5>2
      <4>4. CASE ~HasInput
        BY <3>2, <3>5, <4>1, <4>2, <4>3, <4>4 DEF Genuine
      <4>5. CASE HasInput
        <5>1. index # End
          BY <3>4, <4>5, Peeks
        <5> QED
          BY <3>2, <4>1, <4>3, <4>5, <5>1 DEF Genuine
      <4> QED
        BY <4>4, <4>5
    <3>7. CASE call = "peek" /\ peeked' = t /\ Restore /\ UNCHANGED <<token, from>>
      <4>1. index' = saved[1] /\ line' = saved[2] /\ col' = saved[3] /\ token' = token
        BY <3>7 DEF Restore
      <4>2. index' <= peeked'.start
        BY <3>2, <3>4, <3>7, <4>1 DEF Skipped
      <4>3. LocationOf(saved[1]) = [line |-> saved[2], col |-> saved[3]]
        BY <3>4, AtBounds
      <4>4. content' = content
        BY <2>2 DEF Return
      <4> QED
        BY <4>1, <4>2, <4>3, <4>4
    <3>8. CASE call = "consume" /\ token' = t
      BY <3>6, <3>8
    <3>9. CASE call = "skip" /\ UNCHANGED <<index, line, col, peeked, token, from>>
      BY <3>9
    <3> QED
      BY <3>3, <3>7, <3>8, <3>9
  <2> QED
    BY <2>1, <2>2
<1> QED
  BY <1>1, LexInvariance, PTL DEF Spec, PeekIsNextConsume
=============================================================================

------------------------------ MODULE MCLexer ------------------------------
(***************************************************************************)
(* Every text of four characters of any class, and every text of eight     *)
(* characters that are only comment marks and line ends: two comments, one *)
(* in the other.                                                           *)
(***************************************************************************)
EXTENDS Lexer

TextsOf(S, n) == UNION {[1..k -> S] : k \in 0..n}
MCSources == TextsOf({"nl", " ", "/", "*", "0", "x", "$", ";"}, 4) \cup TextsOf({"nl", "/", "*"}, 8)
=============================================================================

--------------------------- MODULE MCStartupImage ---------------------------
(***************************************************************************)
(* Values for the constants of StartupImage: a byte has 16 values, ZP and  *)
(* RAM have 16 bytes each, and the PRG-ROM has 48.                         *)
(***************************************************************************)
EXTENDS StartupImage

U8 == [kind |-> "uint", size |-> 1]
U16 == [kind |-> "uint", size |-> 2]
Ref == [kind |-> "reference", size |-> 2]
Pair(T) == [kind |-> "array", names |-> <<1, 2>>, members |-> <<T, T>>]
Struct(T, U) == [kind |-> "struct", names |-> <<"a", "b">>, members |-> <<T, U>>]

AllTypes == {U8, U16, Ref, Pair(U8), Struct(U8, U16)}
Scalars == {U8, U16}
=============================================================================

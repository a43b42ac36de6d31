------------------------------ MODULE MCParser ------------------------------
(***************************************************************************)
(* Beginnings of programs whose constructs take more tokens than a run can *)
(* choose freely.                                                          *)
(***************************************************************************)
EXTENDS Parser

MCBeginnings ==
  {<<>>, <<"#", "[", "id", "(", "id", ":">>, <<"struct", "id", "{", "id", ":">>,
   <<"if", "(", "id", ")", "{">>, <<"var", "id", ":">>, <<"var", "id", "=", "cast", "(">>,
   <<"var", "id", "=", "id", "{", "id", ":">>}
=============================================================================

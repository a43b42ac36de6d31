---------------------------- MODULE MCRp2a03Text ----------------------------
(***************************************************************************)
(* Every NES IR segment of at most MaxLength instructions whose branches   *)
(* lead forward and not past the end.                                      *)
(***************************************************************************)
EXTENDS Rp2a03Text

CONSTANT MaxLength

InstrAt(i, length) ==
  {[op |-> "plain", offset |-> 0]}
  \cup [op : {"if_false", "jump"}, offset : 1..(length + 1 - i)]

Segments(length) ==
  {s \in [1..length -> UNION {InstrAt(i, length) : i \in 1..length}] :
     \A i \in 1..length : s[i] \in InstrAt(i, length)}

AllPrograms == UNION {Segments(length) : length \in 0..MaxLength}
=============================================================================

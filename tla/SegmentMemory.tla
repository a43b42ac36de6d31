--------------------------- MODULE SegmentMemory ---------------------------
(***************************************************************************)
(* What the memory of a compiled program promises to the code that reads   *)
(* it by name: a symbol that got a place keeps it, and two symbols of a    *)
(* segment share bytes only as exact aliases.  How places are found, in    *)
(* which order they are kept and how they are counted is left to the       *)
(* passes that implement it (ZnesProgram).                                 *)
(***************************************************************************)
EXTENDS Integers

CONSTANTS
  Symbols,    \* names that may get a place
  Lowest,      \* segment -> its first address
  Highest        \* segment -> its last address

VARIABLE placed     \* name -> where the symbol is: type, segment, address, size

Limited(a) == a.segment \in DOMAIN Lowest

Past(a) == a.address + a.size

Inside(a) == Lowest[a.segment] <= a.address /\ Past(a) <= Highest[a.segment] + 1

Compatible(a, b) ==
  \/ Past(a) <= b.address
  \/ Past(b) <= a.address
  \/ a.address = b.address /\ a.size = b.size /\ a.type = b.type

Neighbours(where, a) == {n \in DOMAIN where : where[n].segment = a.segment}

Init == DOMAIN placed = {}

\* One more symbol gets a place.  Nothing is promised of a segment that one of
\* its symbols has left.
Reserve(n) ==
  /\ n \notin DOMAIN placed
  /\ DOMAIN placed' = DOMAIN placed \cup {n}
  /\ \A m \in DOMAIN placed : placed'[m] = placed[m]
  /\ LET a == placed'[n]
         near == Neighbours(placed, a) IN
     Limited(a) /\ Inside(a) /\ (\A m \in near : Inside(placed[m]))
       => \A m \in near : Compatible(placed[m], a)

Next == \E n \in Symbols : Reserve(n)

Spec == Init /\ [][Next]_placed
=============================================================================

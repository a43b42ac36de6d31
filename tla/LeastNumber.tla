---------------------------- MODULE LeastNumber ----------------------------
(***************************************************************************)
(* Induction for the proofs about code read instruction by instruction or  *)
(* text read byte by byte: a set of numbers that is not empty has a least  *)
(* element, so a claim that fails somewhere fails somewhere first.         *)
(***************************************************************************)
EXTENDS Integers, WellFoundedInduction, TLAPS

\* A set of natural numbers that is not empty has a least element.
LEMMA LeastElement ==
  ASSUME NEW T, T \subseteq Nat, T # {}
  PROVE  \E m \in T : \A k \in T : m <= k
<1> DEFINE Less == OpToRel(<, Nat)
<1>1. IsWellFoundedOn(Less, Nat)
  BY NatLessThanWellFounded, Zenon
<1>2. Less = {ss \in Nat \X Nat : ss[1] < ss[2]}
  BY DEF OpToRel
<1> HIDE DEF Less
<1>3. PICK m \in T : \A k \in T : <<k, m>> \notin Less
  BY <1>1, WFMin
<1>4. ASSUME NEW k \in T
      PROVE  m <= k
  <2>1. m \in Nat /\ k \in Nat
    OBVIOUS
  <2>2. <<k, m>> \in Less <=> k < m
    BY <2>1, <1>2
  <2> QED
    BY <2>1, <2>2, <1>3
<1> QED
  BY <1>4

\* A set that contains a number whenever it contains all the smaller ones, down
\* to `first`, contains every number from `first` to `last`.
LEMMA UpwardInduction ==
  ASSUME NEW first \in Nat, NEW last \in Nat, NEW T,
         \A n \in first..last : (\A m \in first..(n - 1) : m \in T) => n \in T
  PROVE  first..last \subseteq T
<1> DEFINE Missing == {n \in first..last : n \notin T}
<1> SUFFICES ASSUME Missing # {}
             PROVE  FALSE
  OBVIOUS
<1>1. Missing \subseteq Nat
  OBVIOUS
<1>2. PICK n \in Missing : \A m \in Missing : n <= m
  BY <1>1, LeastElement
<1>3. \A m \in first..(n - 1) : m \in T
  BY <1>2
<1> QED
  BY <1>2, <1>3

\* The same downwards: a set that contains a number whenever it contains all
\* the greater ones, up to `last`.
LEMMA DownwardInduction ==
  ASSUME NEW first \in Nat, NEW last \in Nat, NEW T,
         \A n \in first..last : (\A m \in (n + 1)..last : m \in T) => n \in T
  PROVE  first..last \subseteq T
<1> DEFINE Missing == {d \in 0..(last - first) : last - d \notin T}
<1> SUFFICES ASSUME NEW x \in first..last, x \notin T
             PROVE  FALSE
  OBVIOUS
<1>1. last - x \in Missing
  <2>1. last - (last - x) = x
    OBVIOUS
  <2> QED
    BY <2>1
<1>2. Missing \subseteq Nat
  OBVIOUS
<1>3. PICK d \in Missing : \A e \in Missing : d <= e
  BY <1>1, <1>2, LeastElement
<1> DEFINE n == last - d
<1>4. n \in first..last /\ n \notin T /\ d \in Nat
  BY <1>3
<1>5. ASSUME NEW m \in (n + 1)..last
      PROVE  m \in T
  <2>1. last - m \in 0..(last - first) /\ last - m < d /\ last - (last - m) = m
    BY <1>4
  <2>2. last - m \notin Missing
    BY <2>1, <1>3, <1>4
  <2> QED
    BY <2>1, <2>2
<1> HIDE DEF n
<1> QED
  BY <1>4, <1>5
=============================================================================

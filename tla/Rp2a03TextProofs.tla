-------------------------- MODULE Rp2a03TextProofs --------------------------
(***************************************************************************)
(* Proofs about Rp2a03Text, for segments of every length, instructions of  *)
(* every size and operands of every width.                                 *)
(***************************************************************************)
EXTENDS Rp2a03Text, LeastNumber, SequenceTheorems

-----------------------------------------------------------------------------
(* The walk over the pending list.                                         *)

\* The list kept after the walk, node by node: `from` names the node of the
\* old list that a node of the new one was.
KeptFrom(jumps, here, from) ==
  LET kept == Kept(jumps, here) IN
  /\ kept \in Seq(PendingJump)
  /\ from \in [DOMAIN kept -> DOMAIN jumps]
  /\ \A k, l \in DOMAIN kept : k < l => from[k] < from[l]
  /\ \A m \in DOMAIN jumps : ~Leaves(jumps[m]) => \E k \in DOMAIN kept : from[k] = m
  /\ \A k \in DOMAIN kept : /\ ~Leaves(jumps[from[k]])
                            /\ kept[k] = CountedDown(jumps[from[k]], here)

\* What counting down does to the fields of a pending jump.
LEMMA CountedDownFacts ==
  ASSUME NEW jump \in PendingJump, NEW here \in Nat
  PROVE  /\ Due(jump) <=> jump.ir_offset <= 1
         /\ CountedDown(jump, here) \in PendingJump
         /\ CountedDown(jump, here).byte_index = jump.byte_index
         /\ CountedDown(jump, here).absolute = jump.absolute
         /\ CountedDown(jump, here).ir_offset =
              IF jump.ir_offset > 0 THEN jump.ir_offset - 1 ELSE 0
         /\ CountedDown(jump, here).base_jump_pc =
              IF Due(jump) THEN here ELSE jump.base_jump_pc
<1> DEFINE left == IF jump.ir_offset > 0 THEN jump.ir_offset - 1 ELSE 0
           down == CountDown(jump)
           marked == [down EXCEPT !.base_jump_pc = here]
<1>1. left \in Nat /\ jump.ir_offset \in Nat
  BY DEF PendingJump
<1>2. /\ down \in PendingJump
      /\ down.ir_offset = left
      /\ down.byte_index = jump.byte_index
      /\ down.absolute = jump.absolute
      /\ down.base_jump_pc = jump.base_jump_pc
  <2> HIDE DEF left
  <2>1. down = [jump EXCEPT !.ir_offset = left]
    BY DEF CountDown, left
  <2> HIDE DEF down
  <2> QED
    BY <2>1, <1>1 DEF PendingJump
<1>3. Due(jump) <=> jump.ir_offset <= 1
  BY <1>1, <1>2 DEF Due
<1>4. CountedDown(jump, here) = IF Due(jump) THEN marked ELSE down
  BY DEF CountedDown
<1> HIDE DEF left, down
<1>5. /\ marked \in PendingJump
      /\ marked.ir_offset = down.ir_offset
      /\ marked.byte_index = down.byte_index
      /\ marked.absolute = down.absolute
      /\ marked.base_jump_pc = here
  BY <1>2 DEF PendingJump
<1> HIDE DEF marked
<1> QED
  <2>1. CASE Due(jump)
    BY <2>1, <1>2, <1>3, <1>4, <1>5 DEF left
  <2>2. CASE ~Due(jump)
    BY <2>2, <1>2, <1>3, <1>4 DEF left
  <2> QED
    BY <2>1, <2>2

\* The walk keeps the jumps that do not leave, in their order, counted down.
LEMMA KeptInOrder ==
  ASSUME NEW jumps \in Seq(PendingJump), NEW here \in Nat
  PROVE  \E from : KeptFrom(jumps, here, from)
<1> DEFINE n == Len(jumps)
           Next1(f, k) ==
             IF k = 0 THEN <<>>
             ELSE IF Leaves(jumps[k]) THEN f[k - 1]
             ELSE Append(f[k - 1], CountedDown(jumps[k], here))
           kept[k \in 0..n] == Next1(kept, k)
<1>1. Kept(jumps, here) = kept[n]
  BY DEF Kept
<1>2. n \in Nat /\ DOMAIN jumps = 1..n
  OBVIOUS
<1>3. \A k \in 0..n : kept[k] = Next1(kept, k)
  <2> DEFINE Defined == {m \in 0..n : \E f : f = [k \in 0..m |-> Next1(f, k)]}
  <2>1. ASSUME NEW m \in 0..n, \A l \in 0..(m - 1) : l \in Defined
        PROVE  m \in Defined
    <3>1. CASE m = 0
      <4> DEFINE f == [k \in 0..0 |-> <<>>]
      <4>1. \A k \in 0..0 : Next1(f, k) = <<>>
        OBVIOUS
      <4>2. f = [k \in 0..m |-> Next1(f, k)]
        BY <4>1, <3>1
      <4> QED
        BY <4>2
    <3>2. CASE m # 0
      <4>1. m - 1 \in 0..(m - 1) /\ m - 1 \in Nat
        BY <3>2, <1>2
      <4>2. PICK g : g = [k \in 0..(m - 1) |-> Next1(g, k)]
        BY <4>1, <2>1
      <4> DEFINE f == [k \in 0..m |-> IF k = m THEN Next1(g, m) ELSE g[k]]
      <4>3. \A k \in 0..(m - 1) : f[k] = g[k] /\ k # m /\ k \in 0..m
        BY <1>2
      <4>4. \A k \in 0..m : k # 0 => k - 1 \in 0..(m - 1)
        BY <1>2
      <4>5. \A k \in 0..m : Next1(f, k) = Next1(g, k)
        BY <4>3, <4>4
      <4>6. \A k \in 0..m : k # m => k \in 0..(m - 1)
        BY <1>2
      <4>7. \A k \in 0..(m - 1) : g[k] = Next1(g, k)
        <5> HIDE DEF Next1
        <5> QED
          BY <4>2
      <4> HIDE DEF Next1
      <4>8. \A k \in 0..m : f[k] = Next1(f, k)
        BY <4>5, <4>6, <4>7
      <4>9. DOMAIN f = 0..m /\ f = [k \in 0..m |-> f[k]]
        OBVIOUS
      <4> HIDE DEF f
      <4>10. f = [k \in 0..m |-> Next1(f, k)]
        BY <4>8, <4>9
      <4> QED
        BY <4>10
    <3> QED
      BY <3>1, <3>2
  <2>2. 0 \in Nat /\ n \in Nat
    BY <1>2
  <2>3. n \in Defined
    <3> HIDE DEF Defined
    <3>1. 0..n \subseteq Defined
      BY <2>1, <2>2, UpwardInduction
    <3> QED
      BY <3>1, <1>2
  <2>4. kept = [k \in 0..n |-> Next1(kept, k)]
    BY <2>3
  <2> HIDE DEF kept, Next1
  <2> QED
    BY <2>4
<1> HIDE DEF kept
\* The first k nodes.
<1> DEFINE IsKept(k, from) ==
             /\ kept[k] \in Seq(PendingJump)
             /\ from \in [DOMAIN kept[k] -> 1..k]
             /\ \A a, b \in DOMAIN kept[k] : a < b => from[a] < from[b]
             /\ \A m \in 1..k : ~Leaves(jumps[m]) => \E a \in DOMAIN kept[k] : from[a] = m
             /\ \A a \in DOMAIN kept[k] :
                  /\ ~Leaves(jumps[from[a]])
                  /\ kept[k][a] = CountedDown(jumps[from[a]], here)
           Good == {k \in 0..n : \E from : IsKept(k, from)}
<1>4. ASSUME NEW m \in 0..n, \A l \in 0..(m - 1) : l \in Good
      PROVE  m \in Good
  <2>1. CASE m = 0
    <3>1. kept[0] = <<>>
      BY <1>2, <1>3
    <3> DEFINE from == [k \in 1..0 |-> 0]
    <3>2. kept[0] \in Seq(PendingJump) /\ DOMAIN kept[0] = {} /\ 1..0 = {}
      BY <3>1
    <3>3. IsKept(0, from)
      BY <3>2
    <3> QED
      BY <3>3, <2>1
  <2>2. CASE m # 0 /\ Leaves(jumps[m])
    <3>1. m - 1 \in 0..(m - 1)
      BY <2>2, <1>2
    <3>2. PICK from : IsKept(m - 1, from)
      BY <3>1, <1>4
    <3>3. kept[m] = kept[m - 1]
      BY <2>2, <1>3
    <3>4. 1..m = 1..(m - 1) \cup {m}
      BY <2>2, <1>2
    <3>5. IsKept(m, from)
      BY <3>2, <3>3, <3>4, <2>2
    <3> QED
      BY <3>5
  <2>3. CASE m # 0 /\ ~Leaves(jumps[m])
    <3>1. m - 1 \in 0..(m - 1) /\ m \in 1..n
      BY <2>3, <1>2
    <3>2. PICK old : IsKept(m - 1, old)
      BY <3>1, <1>4
    <3> DEFINE node == CountedDown(jumps[m], here)
               list == kept[m - 1]
    <3>3. kept[m] = Append(list, node)
      BY <2>3, <1>3
    <3>4. node \in PendingJump
      <4>1. jumps[m] \in PendingJump
        BY <3>1
      <4> QED
        BY <4>1, CountedDownFacts
    <3>5. list \in Seq(PendingJump)
      BY <3>2
    <3> HIDE DEF node, list
    <3>6. PICK c \in Nat : c = Len(list)
      BY <3>5
    <3>7. /\ kept[m] \in Seq(PendingJump)
          /\ DOMAIN kept[m] = 1..(c + 1)
          /\ DOMAIN list = 1..c
          /\ kept[m][c + 1] = node
          /\ \A a \in 1..c : kept[m][a] = list[a]
      BY <3>3, <3>4, <3>5, <3>6
    <3> DEFINE from == [a \in 1..(c + 1) |-> IF a = c + 1 THEN m ELSE old[a]]
    <3>8. /\ from[c + 1] = m
          /\ \A a \in 1..c : from[a] = old[a] /\ a \in 1..(c + 1)
          /\ \A a \in 1..(c + 1) : a \in 1..c \/ a = c + 1
      BY <3>6
    <3>9. \A a \in 1..c : old[a] \in 1..(m - 1)
      BY <3>2, <3>7 DEF list
    <3>10. from \in [DOMAIN kept[m] -> 1..m]
      BY <3>7, <3>8, <3>9, <3>1
    <3> HIDE DEF from
    <3>11. ASSUME NEW a \in DOMAIN kept[m], NEW b \in DOMAIN kept[m], a < b
           PROVE  from[a] < from[b]
      <4>1. a \in 1..c
        BY <3>11, <3>7
      <4>2. CASE b = c + 1
        BY <4>1, <4>2, <3>8, <3>9, <3>1
      <4>3. CASE b \in 1..c
        BY <4>1, <4>3, <3>8, <3>11, <3>2, <3>7 DEF list
      <4> QED
        BY <4>2, <4>3, <3>7, <3>8
    <3>12. ASSUME NEW k \in 1..m, ~Leaves(jumps[k])
           PROVE  \E a \in DOMAIN kept[m] : from[a] = k
      <4>1. CASE k = m
        BY <4>1, <3>7, <3>8
      <4>2. CASE k # m
        <5>1. k \in 1..(m - 1)
          BY <4>2, <3>1
        <5>2. PICK a \in 1..c : old[a] = k
          BY <5>1, <3>12, <3>2, <3>7 DEF list
        <5> QED
          BY <5>2, <3>7, <3>8
      <4> QED
        BY <4>1, <4>2
    <3>13. ASSUME NEW a \in DOMAIN kept[m]
           PROVE  /\ ~Leaves(jumps[from[a]])
                  /\ kept[m][a] = CountedDown(jumps[from[a]], here)
      <4>1. CASE a = c + 1
        BY <4>1, <3>7, <3>8, <2>3 DEF node
      <4>2. CASE a \in 1..c
        BY <4>2, <3>2, <3>7, <3>8 DEF list
      <4> QED
        BY <4>1, <4>2, <3>7, <3>8
    <3>14. IsKept(m, from)
      BY <3>7, <3>10, <3>11, <3>12, <3>13
    <3> QED
      BY <3>14
  <2> QED
    BY <2>1, <2>2, <2>3
<1>5. 0 \in Nat /\ n \in Nat
  BY <1>2
<1>6. n \in Good
  <2> HIDE DEF Good
  <2>1. 0..n \subseteq Good
    BY <1>4, <1>5, UpwardInduction
  <2> QED
    BY <2>1, <1>2
<1>7. PICK from : IsKept(n, from)
  BY <1>6
<1> QED
  BY <1>1, <1>2, <1>7 DEF KeptFrom
-----------------------------------------------------------------------------
(* The inductive invariant.                                                *)

\* An IR segment as the emitter reads it: branches lead forward.
ReadableIr ==
  /\ Len(ir) \in Nat /\ DOMAIN ir = 1..Len(ir)
  /\ \A i \in DOMAIN ir :
       /\ ir[i].op \in {"plain", "if_false", "jump"}
       /\ ir[i].offset \in Nat
       /\ ir[i].op # "plain" => ir[i].offset > 0

\* The least number of bytes that instruction i takes.
LeastSize(i) ==
  IF ir[i].op = "plain" THEN 0 ELSE IF ir[i].op = "if_false" THEN 2 ELSE 3

\* The code of the emitted instructions lies one after the other.
LaidOut ==
  /\ Len(starts) <= Len(ir)
  /\ \A i \in DOMAIN starts : \A j \in (i + 1)..(Len(starts) + 1) :
       Start(i) + LeastSize(i) <= Start(j)

EmittedBranches == EmittedOf("if_false") \cup EmittedOf("jump")

\* Every emitted branch has an operand, and nothing else has.
Slots == DOMAIN operands = {OperandOf(i) : i \in EmittedBranches}

\* The pc that the pending jump of instruction i holds.
BaseOf(i) == IF ir[i].op = "jump" /\ Reached(i) THEN pc ELSE Start(i + 1)

Left(i) == IF Reached(i) THEN 0 ELSE Target(i) - (Len(starts) + 1)

PendingFor(jump, i) ==
  /\ jump.byte_index = OperandOf(i)
  /\ jump.absolute = (ir[i].op = "jump")
  /\ jump.ir_offset = Left(i)
  /\ jump.base_jump_pc = BaseOf(i)

\* `order` names the instructions that the pending jumps are for.
Matches(order) ==
  /\ order \in [DOMAIN pending -> Awaiting]
  /\ \A i \in Awaiting : \E k \in DOMAIN pending : order[k] = i
  /\ \A k, l \in DOMAIN pending : k < l => order[k] < order[l]
  /\ \A k \in DOMAIN pending : PendingFor(pending[k], order[k])

\* While code is emitted, the pending list is exactly the branches that wait.
PendingMatches ==
  emission # "placed" => \E order \in [DOMAIN pending -> Awaiting] : Matches(order)

\* Once the segment is placed, its JMPs go where their pending jumps said.
JmpsPlaced ==
  emission = "placed" =>
    \A i \in EmittedOf("jump") : operands[OperandOf(i)] = (BaseOf(i) + base) % AbsRange

TextIInv ==
  /\ ReadableIr /\ TextTypeOK /\ LaidOut /\ Slots
  /\ BeqOperands /\ PendingMatches /\ JmpsPlaced
-----------------------------------------------------------------------------
(* Where the code and the operands lie.                                    *)

\* Branches have operands of their own, inside their own code.
OperandsApart ==
  \A i, j \in EmittedBranches :
    OperandOf(i) \in Nat /\ (OperandOf(i) = OperandOf(j) => i = j)

Offsets == pc \in Nat /\ starts \in Seq(Nat)

\* Code that lies one instruction after the other has distinct operands.
LEMMA LaidOutApart == ReadableIr /\ Offsets /\ LaidOut => OperandsApart
<1> SUFFICES ASSUME ReadableIr, Offsets, LaidOut
             PROVE  OperandsApart
  OBVIOUS
<1>1. PICK n \in Nat : n = Len(starts) /\ DOMAIN starts = 1..n
  BY DEF Offsets
<1>2. \A i \in 1..(n + 1) : Start(i) \in Nat
  BY <1>1 DEF Start, Offsets
<1>3. \A i \in 1..n : \A j \in (i + 1)..(n + 1) : Start(i) + LeastSize(i) <= Start(j)
  BY <1>1 DEF LaidOut
<1> DEFINE B == EmittedBranches
<1>4. ASSUME NEW i \in B
      PROVE  /\ i \in 1..n /\ i + 1 \in 1..(n + 1)
             /\ OperandOf(i) \in Nat
             /\ Start(i) <= OperandOf(i) /\ OperandOf(i) < Start(i + 1)
  <2>1. i \in 1..n /\ ir[i].op \in {"if_false", "jump"}
    BY <1>1 DEF EmittedBranches, EmittedOf
  <2>2. Start(i) + LeastSize(i) <= Start(i + 1)
    BY <2>1, <1>3
  <2>3. Start(i) \in Nat /\ Start(i + 1) \in Nat
    BY <2>1, <1>2
  <2> QED
    BY <2>1, <2>2, <2>3 DEF OperandOf, LeastSize
<1>5. ASSUME NEW i \in B, NEW j \in B, i < j
      PROVE  OperandOf(i) < OperandOf(j)
  <2>1. i \in 1..n /\ j \in 1..n /\ i + 1 <= j
    BY <1>4, <1>5
  <2>2. Start(i + 1) <= Start(j)
    <3>1. CASE j = i + 1
      BY <3>1, <2>1, <1>2
    <3>2. CASE j # i + 1
      <4>1. i + 1 \in 1..n /\ j \in ((i + 1) + 1)..(n + 1)
        BY <2>1, <3>2
      <4>2. Start(i + 1) + LeastSize(i + 1) <= Start(j)
        BY <4>1, <1>3
      <4> QED
        BY <4>1, <4>2, <2>1, <1>2 DEF LeastSize
    <3> QED
      BY <3>1, <3>2
  <2> QED
    BY <2>1, <2>2, <1>2, <1>4
<1>6. ASSUME NEW i \in B, NEW j \in B, OperandOf(i) = OperandOf(j)
      PROVE  i = j
  BY <1>4, <1>5, <1>6
<1> QED
  BY <1>4, <1>6 DEF OperandsApart

\* The pending jump that the emission of the current instruction adds, if any.
AddsFor(added, size) ==
  IF ir[Current].op = "plain" THEN added = <<>>
  ELSE \E jump \in PendingJump :
         /\ added = <<jump>>
         /\ jump.byte_index = pc + size - (IF ir[Current].op = "if_false" THEN 1 ELSE 2)
         /\ jump.base_jump_pc = pc + size
         /\ jump.ir_offset = ir[Current].offset
         /\ jump.absolute = (ir[Current].op = "jump")

\* One instruction of the segment is emitted.
Emission(size, added) ==
  /\ emission = "emitting" /\ Current <= Len(ir)
  /\ size \in Nat /\ LeastSize(Current) <= size
  /\ AddsFor(added, size)
  /\ Step(size, added)

\* The instructions emitted before stay where they are.
LEMMA EmissionFacts ==
  ASSUME ReadableIr, TextTypeOK, LaidOut,
         NEW n \in Nat, n = Len(starts),
         NEW size, NEW added, Emission(size, added)
  PROVE  /\ Current = n + 1 /\ n + 1 \in DOMAIN ir
         /\ DOMAIN starts = 1..n
         /\ DOMAIN starts' = 1..(n + 1) /\ Len(starts') = n + 1
         /\ starts' \in Seq(Nat) /\ pc' \in Nat /\ pc' = pc + size
         /\ \A i \in 1..(n + 1) : Start(i) \in Nat /\ Start(i)' = Start(i)
         /\ Start(n + 2)' = pc' /\ Start(n + 1) = pc
         /\ \A i \in 1..n : OperandOf(i)' = OperandOf(i)
         /\ \A i : i \in EmittedBranches' <=>
                     \/ i \in EmittedBranches
                     \/ i = n + 1 /\ ir[i].op # "plain"
         /\ \A i \in 1..(n + 1) : /\ Target(i)' = Target(i)
                                  /\ Target(i) \in Nat
                                  /\ Reached(i) <=> Target(i) <= n + 1
                                  /\ Reached(i)' <=> Target(i) <= n + 2
         /\ ir' = ir /\ base' = base /\ emission' = emission
         /\ ReadableIr' /\ LaidOut'
<1>1. n = Len(starts) /\ DOMAIN starts = 1..n
  BY DEF TextTypeOK
<1>2. /\ Current = n + 1 /\ n + 1 \in DOMAIN ir /\ size \in Nat
      /\ pc' = pc + size /\ starts' = Append(starts, pc)
      /\ ir' = ir /\ base' = base /\ emission' = emission
  BY <1>1 DEF Emission, Step, Current, ReadableIr
<1>3. pc \in Nat /\ starts \in Seq(Nat)
  BY DEF TextTypeOK
<1>4. /\ starts' \in Seq(Nat) /\ Len(starts') = n + 1 /\ DOMAIN starts' = 1..(n + 1)
      /\ starts'[n + 1] = pc /\ \A i \in 1..n : starts'[i] = starts[i]
  BY <1>1, <1>2, <1>3
<1>5. pc' \in Nat
  BY <1>2, <1>3
<1>6. ASSUME NEW i \in 1..(n + 1)
      PROVE  Start(i) \in Nat /\ Start(i)' = Start(i)
  <2>1. CASE i = n + 1
    BY <2>1, <1>1, <1>3, <1>4 DEF Start
  <2>2. CASE i \in 1..n
    BY <2>2, <1>1, <1>3, <1>4 DEF Start
  <2> QED
    BY <2>1, <2>2, <1>1
<1>7. Start(n + 2)' = pc' /\ Start(n + 1) = pc
  BY <1>1, <1>4 DEF Start
<1>8. \A i \in 1..n : OperandOf(i)' = OperandOf(i)
  BY <1>2, <1>6 DEF OperandOf
<1>9. ASSUME NEW i
      PROVE  i \in EmittedBranches' <=> i \in EmittedBranches \/ (i = n + 1 /\ ir[i].op # "plain")
  <2>1. 1..(n + 1) = 1..n \cup {n + 1}
    BY <1>1
  <2>2. ir[n + 1].op # "plain" <=> ir[n + 1].op \in {"if_false", "jump"}
    BY <1>2 DEF ReadableIr
  <2> QED
    BY <2>1, <2>2, <1>1, <1>2, <1>4 DEF EmittedBranches, EmittedOf
<1>10. ASSUME NEW i \in 1..(n + 1)
       PROVE  /\ Target(i)' = Target(i) /\ Target(i) \in Nat
              /\ Reached(i) <=> Target(i) <= n + 1
              /\ Reached(i)' <=> Target(i) <= n + 2
  <2>1. i \in DOMAIN ir /\ ir[i].offset \in Nat
    BY <1>2 DEF ReadableIr
  <2> QED
    BY <2>1, <1>1, <1>2, <1>4 DEF Target, Reached
<1>11. ReadableIr'
  BY <1>2 DEF ReadableIr
<1>12. LaidOut'
  <2>1. ASSUME NEW i \in 1..(n + 1), NEW j \in (i + 1)..(n + 2)
        PROVE  (Start(i) + LeastSize(i) <= Start(j))'
    <3>1. LeastSize(i)' = LeastSize(i) /\ LeastSize(i) \in Nat
      BY <1>2 DEF LeastSize
    <3>2. CASE j \in (i + 1)..(n + 1)
      <4>1. i \in 1..n /\ j \in 1..(n + 1)
        BY <3>2
      <4>2. Start(i) + LeastSize(i) <= Start(j)
        BY <4>1, <3>2, <1>1 DEF LaidOut
      <4> QED
        BY <4>1, <4>2, <3>1, <1>6
    <3>3. CASE j = n + 2
      <4>1. Start(i) + LeastSize(i) <= pc + size
        <5>1. CASE i = n + 1
          BY <5>1, <3>1, <1>7, <1>2, <1>3 DEF Emission
        <5>2. CASE i \in 1..n
          <6>1. Start(i) + LeastSize(i) <= Start(n + 1)
            BY <5>2, <1>1 DEF LaidOut
          <6> QED
            BY <6>1, <1>7, <1>2, <1>3, <1>6, <3>1
        <5> QED
          BY <5>1, <5>2
      <4> QED
        BY <4>1, <3>1, <3>3, <1>2, <1>6, <1>7
    <3> QED
      BY <3>2, <3>3
  <2>2. \A i \in DOMAIN starts' : \A j \in (i + 1)..(Len(starts') + 1) :
          (Start(i) + LeastSize(i) <= Start(j))'
    <3>1. DOMAIN starts' = 1..(n + 1) /\ Len(starts') + 1 = n + 2
      BY <1>4
    <3> QED
      BY <2>1, <3>1
  <2>3. Len(starts') <= Len(ir')
    BY <1>2, <1>4 DEF ReadableIr
  <2> QED
    BY <2>2, <2>3 DEF LaidOut
<1> QED
  BY <1>1, <1>2, <1>4, <1>5, <1>6, <1>7, <1>8, <1>9, <1>10, <1>11, <1>12
-----------------------------------------------------------------------------
(* The walk that follows the emission of an instruction.                   *)

\* The pending jump of instruction i before the walk.
WaitsFor(jump, i) ==
  /\ jump.byte_index = OperandOf(i)'
  /\ jump.absolute = (ir[i].op = "jump")
  /\ jump.ir_offset = (IF Target(i) <= Current THEN 0 ELSE Target(i) - Current)
  /\ jump.base_jump_pc =
       (IF ir[i].op = "jump" /\ Target(i) <= Current THEN pc ELSE Start(i + 1)')

\* Before the walk, the list holds the branches that waited and the new one.
LinedUp(jumps, order) ==
  /\ jumps \in Seq(PendingJump)
  /\ order \in [DOMAIN jumps -> EmittedBranches']
  /\ \A i \in EmittedBranches' :
       (\E k \in DOMAIN jumps : order[k] = i) <=> ir[i].op = "jump" \/ Target(i) > Current
  /\ \A k, l \in DOMAIN jumps : k < l => order[k] < order[l]
  /\ \A k \in DOMAIN jumps : WaitsFor(jumps[k], order[k])

\* The walk starts on the list that was exact, with the new branch at its end.
LEMMA WalkStarts ==
  ASSUME TextIInv, NEW size, NEW added, Emission(size, added)
  PROVE  \E order : LinedUp(pending \o added, order)
<1>1. PICK n \in Nat : n = Len(starts)
  BY DEF TextIInv, TextTypeOK
<1>2. ReadableIr /\ TextTypeOK /\ LaidOut
  BY DEF TextIInv
<1>3. /\ Current = n + 1 /\ n + 1 \in DOMAIN ir /\ DOMAIN starts = 1..n
      /\ pc' = pc + size
      /\ \A i \in 1..(n + 1) : Start(i)' = Start(i)
      /\ Start(n + 2)' = pc'
      /\ \A i \in 1..n : OperandOf(i)' = OperandOf(i)
      /\ \A i : i \in EmittedBranches' <=>
                  i \in EmittedBranches \/ (i = n + 1 /\ ir[i].op # "plain")
      /\ \A i \in 1..(n + 1) : /\ Target(i) \in Nat
                               /\ Reached(i) <=> Target(i) <= n + 1
      /\ ir' = ir
  BY <1>1, <1>2, EmissionFacts
<1>4. emission # "placed" /\ pending \in Seq(PendingJump) /\ size \in Nat /\ pc \in Nat
  BY <1>2 DEF Emission, TextTypeOK
<1>5. PICK old : Matches(old)
  BY <1>4 DEF TextIInv, PendingMatches
<1>6. \A i : i \in Awaiting <=>
             i \in EmittedBranches /\ (ir[i].op = "jump" \/ Target(i) > n + 1)
  <2>1. ASSUME NEW i \in EmittedBranches
        PROVE  /\ i \in 1..n /\ ir[i].op \in {"if_false", "jump"}
               /\ Target(i) > n + 1 <=> ~Reached(i)
    <3>1. i \in 1..n /\ ir[i].op \in {"if_false", "jump"}
      BY <1>3 DEF EmittedBranches, EmittedOf
    <3> QED
      BY <3>1, <1>3
  <2>2. \A i \in Awaiting : i \in EmittedBranches
    BY DEF Awaiting, EmittedBranches, EmittedOf
  <2>3. \A i \in EmittedBranches :
          i \in Awaiting <=> ir[i].op = "jump" \/ ~Reached(i)
    BY <2>1 DEF Awaiting, EmittedBranches, EmittedOf
  <2> QED
    BY <2>1, <2>2, <2>3
<1>7. \A i \in EmittedBranches : i \in 1..n
  BY <1>3 DEF EmittedBranches, EmittedOf
<1>8. ASSUME NEW k \in DOMAIN pending
      PROVE  WaitsFor(pending[k], old[k])
  <2>1. old[k] \in Awaiting /\ PendingFor(pending[k], old[k])
    BY <1>5 DEF Matches
  <2>2. old[k] \in 1..n /\ old[k] + 1 \in 1..(n + 1)
    BY <2>1, <1>6, <1>7
  <2> QED
    BY <2>1, <2>2, <1>1, <1>3 DEF WaitsFor, PendingFor, Left, BaseOf
<1>9. /\ old \in [DOMAIN pending -> EmittedBranches]
      /\ \A k, l \in DOMAIN pending : k < l => old[k] < old[l]
      /\ \A i \in EmittedBranches :
           (\E k \in DOMAIN pending : old[k] = i) <=> ir[i].op = "jump" \/ Target(i) > n + 1
  <2>1. /\ old \in [DOMAIN pending -> Awaiting]
        /\ \A k, l \in DOMAIN pending : k < l => old[k] < old[l]
        /\ \A i \in Awaiting : \E k \in DOMAIN pending : old[k] = i
    BY <1>5 DEF Matches
  <2> QED
    BY <2>1, <1>6
<1>10. CASE ir[n + 1].op = "plain"
  <2>1. pending \o added = pending
    BY <1>10, <1>3, <1>4 DEF Emission, AddsFor
  <2>2. EmittedBranches' = EmittedBranches
    BY <1>10, <1>3
  <2>3. LinedUp(pending, old)
    BY <2>2, <1>3, <1>4, <1>8, <1>9 DEF LinedUp
  <2> QED
    BY <2>1, <2>3
<1>11. CASE ir[n + 1].op # "plain"
  <2>1. PICK jump \in PendingJump :
          /\ added = <<jump>>
          /\ jump.byte_index = pc + size - (IF ir[n + 1].op = "if_false" THEN 1 ELSE 2)
          /\ jump.base_jump_pc = pc + size
          /\ jump.ir_offset = ir[n + 1].offset
          /\ jump.absolute = (ir[n + 1].op = "jump")
    BY <1>11, <1>3 DEF Emission, AddsFor
  <2> DEFINE jumps == pending \o added
  <2>2. PICK c \in Nat : c = Len(pending)
    BY <1>4
  <2>3. /\ jumps \in Seq(PendingJump)
        /\ DOMAIN jumps = 1..(c + 1) /\ DOMAIN pending = 1..c
        /\ jumps[c + 1] = jump
        /\ \A k \in 1..c : jumps[k] = pending[k]
    <3>1. jumps = Append(pending, jump)
      BY <2>1, <1>4
    <3> HIDE DEF jumps
    <3> QED
      BY <3>1, <2>2, <1>4
  <2> DEFINE order == [k \in 1..(c + 1) |-> IF k = c + 1 THEN n + 1 ELSE old[k]]
  <2>4. /\ order[c + 1] = n + 1
        /\ \A k \in 1..c : order[k] = old[k] /\ k \in 1..(c + 1)
        /\ \A k \in 1..(c + 1) : k \in 1..c \/ k = c + 1
        /\ DOMAIN order = 1..(c + 1)
    BY <2>2
  <2>5. order \in [DOMAIN jumps -> EmittedBranches']
    <3>1. \A k \in 1..c : old[k] \in EmittedBranches'
      BY <1>9, <1>3, <2>3
    <3>2. n + 1 \in EmittedBranches'
      BY <1>3, <1>11
    <3> QED
      BY <3>1, <3>2, <2>3
  <2> HIDE DEF order, jumps
  <2>6. ASSUME NEW k \in DOMAIN jumps
        PROVE  WaitsFor(jumps[k], order[k])
    <3>1. CASE k \in 1..c
      BY <3>1, <2>3, <2>4, <1>8
    <3>2. CASE k = c + 1
      <4>1. Target(n + 1) > n + 1 /\ Target(n + 1) = n + 1 + jump.ir_offset
        BY <1>2, <1>3, <1>11, <2>1 DEF ReadableIr, Target
      <4>2. OperandOf(n + 1)' = jump.byte_index
        <5>1. (n + 1) + 1 = n + 2
          OBVIOUS
        <5>2. OperandOf(n + 1)' = Start(n + 2)' - (IF ir[n + 1].op = "if_false" THEN 1 ELSE 2)
          BY <5>1, <1>3 DEF OperandOf
        <5>3. Start(n + 2)' = pc + size
          BY <1>3
        <5> QED
          BY <5>2, <5>3, <2>1, <1>4
      <4>3. Start((n + 1) + 1)' = jump.base_jump_pc
        <5>1. (n + 1) + 1 = n + 2
          OBVIOUS
        <5> QED
          BY <5>1, <1>3, <2>1
      <4>4. ~(Target(n + 1) <= n + 1) /\ Target(n + 1) - (n + 1) = jump.ir_offset
        <5>1. jump.ir_offset \in Nat
          BY <2>1 DEF PendingJump
        <5> QED
          BY <4>1, <5>1
      <4>5. WaitsFor(jump, n + 1)
        BY <4>2, <4>3, <4>4, <2>1, <1>3 DEF WaitsFor
      <4> QED
        BY <4>5, <3>2, <2>3, <2>4
    <3> QED
      BY <3>1, <3>2, <2>3, <2>4
  <2>7. ASSUME NEW k \in DOMAIN jumps, NEW l \in DOMAIN jumps, k < l
        PROVE  order[k] < order[l]
    <3>1. k \in 1..c
      BY <2>7, <2>3
    <3>2. order[k] \in 1..n /\ order[k] = old[k]
      BY <3>1, <2>3, <2>4, <1>9, <1>7
    <3>3. CASE l = c + 1
      BY <3>2, <3>3, <2>4
    <3>4. CASE l \in 1..c
      BY <3>1, <3>2, <3>4, <2>3, <2>4, <2>7, <1>9
    <3> QED
      BY <3>3, <3>4, <2>3, <2>4
  <2>8. ASSUME NEW i \in EmittedBranches'
        PROVE  (\E k \in DOMAIN jumps : order[k] = i) <=> ir[i].op = "jump" \/ Target(i) > n + 1
    <3>1. CASE i = n + 1
      <4>1. Target(n + 1) > n + 1
        BY <1>2, <1>3, <1>11 DEF ReadableIr, Target
      <4>2. c + 1 \in DOMAIN jumps
        BY <2>3
      <4> QED
        BY <3>1, <4>1, <4>2, <2>4
    <3>2. CASE i \in EmittedBranches
      <4>1. i # n + 1
        BY <3>2, <1>7
      <4>2. (\E k \in DOMAIN jumps : order[k] = i) <=> (\E k \in DOMAIN pending : old[k] = i)
        BY <4>1, <2>3, <2>4
      <4> QED
        BY <4>2, <3>2, <1>9
    <3> QED
      BY <3>1, <3>2, <1>3
  <2>9. LinedUp(jumps, order)
    BY <2>3, <2>5, <2>6, <2>7, <2>8, <1>3 DEF LinedUp
  <2> QED
    BY <2>9 DEF jumps
<1> QED
  BY <1>10, <1>11

\* After the walk the list holds exactly the branches that still wait.
LEMMA WalkKeepsThePending ==
  ASSUME TextIInv, NEW size, NEW added, Emission(size, added)
  PROVE  pending' \in Seq(PendingJump) /\ PendingMatches'
<1>1. PICK n \in Nat : n = Len(starts)
  BY DEF TextIInv, TextTypeOK
<1>2. ReadableIr /\ TextTypeOK /\ LaidOut
  BY DEF TextIInv
<1>3. /\ Current = n + 1
      /\ DOMAIN starts' = 1..(n + 1) /\ Len(starts') = n + 1
      /\ pc' \in Nat /\ pc' = pc + size
      /\ \A i \in 1..(n + 1) : /\ Target(i)' = Target(i) /\ Target(i) \in Nat
                               /\ Reached(i)' <=> Target(i) <= n + 2
      /\ ir' = ir
  BY <1>1, <1>2, EmissionFacts
<1> DEFINE jumps == pending \o added
<1>4. PICK order : LinedUp(jumps, order)
  BY WalkStarts
<1>5. pending' = Kept(jumps, pc')
  BY <1>3 DEF Emission, Step
<1> HIDE DEF jumps
<1>6. jumps \in Seq(PendingJump)
  BY <1>4 DEF LinedUp
<1>7. PICK from : KeptFrom(jumps, pc', from)
  BY <1>3, <1>6, KeptInOrder
<1>8. /\ pending' \in Seq(PendingJump)
      /\ from \in [DOMAIN pending' -> DOMAIN jumps]
      /\ \A k, l \in DOMAIN pending' : k < l => from[k] < from[l]
      /\ \A m \in DOMAIN jumps : ~Leaves(jumps[m]) => \E k \in DOMAIN pending' : from[k] = m
      /\ \A k \in DOMAIN pending' : /\ ~Leaves(jumps[from[k]])
                                    /\ pending'[k] = CountedDown(jumps[from[k]], pc')
  BY <1>5, <1>7 DEF KeptFrom
<1>9. ASSUME NEW m \in DOMAIN jumps
      PROVE  /\ jumps[m] \in PendingJump
             /\ order[m] \in EmittedBranches' /\ order[m] \in 1..(n + 1)
             /\ ir[order[m]].op \in {"if_false", "jump"}
             /\ WaitsFor(jumps[m], order[m])
             /\ Due(jumps[m]) <=> Target(order[m]) <= n + 2
             /\ Leaves(jumps[m]) <=> order[m] \notin Awaiting'
  <2>1. jumps[m] \in PendingJump
    BY <1>6
  <2>2. order[m] \in EmittedBranches' /\ WaitsFor(jumps[m], order[m])
    BY <1>4 DEF LinedUp
  <2>3. order[m] \in 1..(n + 1) /\ ir[order[m]].op \in {"if_false", "jump"}
    BY <2>2, <1>3 DEF EmittedBranches, EmittedOf
  <2>4. Due(jumps[m]) <=> jumps[m].ir_offset <= 1
    BY <2>1, <1>3, CountedDownFacts
  <2>5. Due(jumps[m]) <=> Target(order[m]) <= n + 2
    BY <2>2, <2>3, <2>4, <1>3 DEF WaitsFor
  <2>6. order[m] \in Awaiting' <=> ir[order[m]].op = "jump" \/ ~Reached(order[m])'
    BY <2>2, <2>3, <1>3 DEF EmittedBranches, Awaiting, EmittedOf
  <2>7. Leaves(jumps[m]) <=> ir[order[m]].op # "jump" /\ Due(jumps[m])
    BY <2>2 DEF Leaves, WaitsFor
  <2>8. Reached(order[m])' <=> Target(order[m]) <= n + 2
    BY <2>3, <1>3
  <2> QED
    BY <2>1, <2>2, <2>3, <2>5, <2>6, <2>7, <2>8
<1> PICK left : left = [k \in DOMAIN pending' |-> order[from[k]]]
  OBVIOUS
<1>10. \A k \in DOMAIN pending' : from[k] \in DOMAIN jumps /\ left[k] = order[from[k]]
  BY <1>8
<1>11. left \in [DOMAIN pending' -> Awaiting']
  BY <1>8, <1>9, <1>10
<1>12. ASSUME NEW k \in DOMAIN pending'
       PROVE  PendingFor(pending[k], left[k])'
  <2>1. PICK m \in DOMAIN jumps : m = from[k]
    BY <1>10
  <2> PICK i : i = order[m] /\ left[k] = i
    BY <2>1, <1>10
  <2>2. pending'[k] = CountedDown(jumps[m], pc')
    BY <2>1, <1>8
  <2>3. /\ jumps[m] \in PendingJump /\ WaitsFor(jumps[m], i)
        /\ i \in 1..(n + 1) /\ ir[i].op \in {"if_false", "jump"}
        /\ Due(jumps[m]) <=> Target(i) <= n + 2
    BY <2>1, <1>9
  <2>4. /\ pending'[k].byte_index = jumps[m].byte_index
        /\ pending'[k].absolute = jumps[m].absolute
        /\ pending'[k].ir_offset =
             IF jumps[m].ir_offset > 0 THEN jumps[m].ir_offset - 1 ELSE 0
        /\ pending'[k].base_jump_pc =
             IF Due(jumps[m]) THEN pc' ELSE jumps[m].base_jump_pc
    BY <2>2, <2>3, <1>3, CountedDownFacts
  <2>5. /\ Target(i)' = Target(i) /\ Target(i) \in Nat
        /\ Reached(i)' <=> Target(i) <= n + 2
    BY <2>3, <1>3
  <2>6. pending'[k].byte_index = OperandOf(i)' /\ pending'[k].absolute = (ir'[i].op = "jump")
    BY <2>3, <2>4, <1>3 DEF WaitsFor
  <2>7. pending'[k].ir_offset = Left(i)'
    BY <2>3, <2>4, <2>5, <1>3 DEF WaitsFor, Left
  <2>8. pending'[k].base_jump_pc = BaseOf(i)'
    <3>1. ~Leaves(jumps[m])
      BY <2>1, <1>8
    <3>2. CASE Due(jumps[m])
      <4>1. ir[i].op = "jump"
        BY <3>1, <3>2, <2>3 DEF Leaves, WaitsFor
      <4> QED
        BY <4>1, <3>2, <2>3, <2>4, <2>5, <1>3 DEF BaseOf
    <3>3. CASE ~Due(jumps[m])
      <4>1. ~(Target(i) <= n + 1)
        BY <3>3, <2>3, <2>5
      <4> QED
        BY <4>1, <3>3, <2>3, <2>4, <2>5, <1>3 DEF BaseOf, WaitsFor
    <3> QED
      BY <3>2, <3>3
  <2>9. PendingFor(pending[k], i)'
    BY <2>6, <2>7, <2>8 DEF PendingFor
  <2> QED
    BY <2>9
<1>13. ASSUME NEW i \in Awaiting'
       PROVE  \E k \in DOMAIN pending' : left[k] = i
  <2>1. i \in EmittedBranches' /\ (ir[i].op = "jump" \/ ~Reached(i)') /\ i \in 1..(n + 1)
    BY <1>3 DEF Awaiting, EmittedBranches, EmittedOf
  <2>2. ir[i].op = "jump" \/ Target(i) > Current
    BY <2>1, <1>3
  <2>3. PICK m \in DOMAIN jumps : order[m] = i
    BY <2>1, <2>2, <1>4 DEF LinedUp
  <2>4. ~Leaves(jumps[m])
    BY <2>3, <1>9
  <2>5. PICK k \in DOMAIN pending' : from[k] = m
    BY <2>4, <1>8
  <2> QED
    BY <2>3, <2>5, <1>10
<1>14. ASSUME NEW k \in DOMAIN pending', NEW l \in DOMAIN pending', k < l
       PROVE  left[k] < left[l]
  <2>1. from[k] < from[l] /\ from[k] \in DOMAIN jumps /\ from[l] \in DOMAIN jumps
    BY <1>14, <1>8
  <2> QED
    BY <2>1, <1>4, <1>10 DEF LinedUp
<1>15. Matches(left)'
  BY <1>11, <1>12, <1>13, <1>14 DEF Matches
<1> QED
  BY <1>8, <1>11, <1>15 DEF PendingMatches

\* The remainder of a division by the range of an operand is a natural number.
LEMMA OperandRange ==
  ASSUME NEW x \in Int
  PROVE  x % RelRange \in Nat /\ x % AbsRange \in Nat
BY SizesAssumption

\* The walk gives the branches whose target it reaches their operands, and
\* leaves the other operands alone.
LEMMA WalkResolves ==
  ASSUME TextIInv, NEW size, NEW added, Emission(size, added)
  PROVE  /\ DOMAIN operands' \subseteq Nat
         /\ \A b \in DOMAIN operands' : operands'[b] \in Nat
         /\ Slots' /\ BeqOperands'
<1>1. PICK n \in Nat : n = Len(starts)
  BY DEF TextIInv, TextTypeOK
<1>2. ReadableIr /\ TextTypeOK /\ LaidOut
  BY DEF TextIInv
<1>3. /\ Current = n + 1 /\ n + 1 \in DOMAIN ir
      /\ DOMAIN starts = 1..n
      /\ DOMAIN starts' = 1..(n + 1) /\ Len(starts') = n + 1
      /\ starts' \in Seq(Nat) /\ pc' \in Nat /\ pc' = pc + size
      /\ \A i \in 1..(n + 1) : Start(i) \in Nat /\ Start(i)' = Start(i)
      /\ Start(n + 2)' = pc' /\ Start(n + 1) = pc
      /\ \A i \in 1..n : OperandOf(i)' = OperandOf(i)
      /\ \A i : i \in EmittedBranches' <=>
                  i \in EmittedBranches \/ (i = n + 1 /\ ir[i].op # "plain")
      /\ \A i \in 1..(n + 1) : /\ Target(i)' = Target(i) /\ Target(i) \in Nat
                               /\ Reached(i) <=> Target(i) <= n + 1
                               /\ Reached(i)' <=> Target(i) <= n + 2
      /\ ir' = ir
      /\ ReadableIr' /\ LaidOut'
  BY <1>1, <1>2, EmissionFacts
<1>4. OperandsApart'
  <2>1. ReadableIr' /\ Offsets' /\ LaidOut'
    BY <1>3 DEF Offsets
  <2> QED
    BY <2>1, LaidOutApart, PTL
<1>5. pending \in Seq(PendingJump) /\ size \in Nat /\ pc \in Nat /\ DOMAIN operands \subseteq Nat
  BY <1>2 DEF Emission, TextTypeOK
<1> DEFINE jumps == pending \o added
           due == {j \in ToSet(jumps) : Leaves(j)}
           ops == [b \in DOMAIN operands \cup {j.byte_index : j \in ToSet(added)} |->
                     IF b \in DOMAIN operands THEN operands[b] ELSE 0]
           Gets(b) == \E j \in due : j.byte_index = b
           value(b) == Distance(CHOOSE j \in due : j.byte_index = b, pc')
<1>6. PICK order : LinedUp(jumps, order)
  BY WalkStarts
<1>7. operands' = [b \in DOMAIN ops |-> IF Gets(b) THEN value(b) ELSE ops[b]]
  BY <1>3 DEF Emission, Step, Resolved
<1>8. DOMAIN ops = {OperandOf(i) : i \in EmittedBranches}'
  <2>1. DOMAIN ops = DOMAIN operands \cup {j.byte_index : j \in ToSet(added)}
    OBVIOUS
  <2>2. DOMAIN operands = {OperandOf(i) : i \in EmittedBranches}
    BY DEF TextIInv, Slots
  <2>3. \A i \in EmittedBranches : i \in 1..n
    BY <1>3 DEF EmittedBranches, EmittedOf
  <2> HIDE DEF ops
  <2>4. CASE ir[n + 1].op = "plain"
    <3>1. added = <<>>
      BY <2>4, <1>3 DEF Emission, AddsFor
    <3>2. {j.byte_index : j \in ToSet(added)} = {}
      BY <3>1 DEF ToSet
    <3>3. EmittedBranches' = EmittedBranches
      BY <2>4, <1>3
    <3>4. \A i \in EmittedBranches : OperandOf(i)' = OperandOf(i)
      BY <2>3, <1>3
    <3> QED
      BY <2>1, <2>2, <3>2, <3>3, <3>4
  <2>5. CASE ir[n + 1].op # "plain"
    <3>1. PICK jump \in PendingJump :
            /\ added = <<jump>>
            /\ jump.byte_index = pc + size - (IF ir[n + 1].op = "if_false" THEN 1 ELSE 2)
      BY <2>5, <1>3 DEF Emission, AddsFor
    <3>2. ToSet(added) = {jump}
      BY <3>1 DEF ToSet
    <3>3. OperandOf(n + 1)' = jump.byte_index
      <4>1. (n + 1) + 1 = n + 2
        OBVIOUS
      <4>2. OperandOf(n + 1)' = Start(n + 2)' - (IF ir[n + 1].op = "if_false" THEN 1 ELSE 2)
        BY <4>1, <1>3 DEF OperandOf
      <4>3. Start(n + 2)' = pc + size
        BY <1>3
      <4> QED
        BY <4>2, <4>3, <3>1, <1>5
    <3>4. EmittedBranches' = EmittedBranches \cup {n + 1}
      BY <2>5, <1>3
    <3>5. \A i \in EmittedBranches : OperandOf(i)' = OperandOf(i)
      BY <2>3, <1>3
    <3>6. {j.byte_index : j \in ToSet(added)} = {jump.byte_index}
      BY <3>2
    <3> QED
      BY <2>1, <2>2, <3>3, <3>4, <3>5, <3>6
  <2> QED
    BY <2>4, <2>5
<1>9. \A b \in DOMAIN ops : ops[b] = IF b \in DOMAIN operands THEN operands[b] ELSE 0
  OBVIOUS
<1>10. ASSUME NEW j \in due
       PROVE  \E k \in DOMAIN jumps : /\ j = jumps[k] /\ j \in PendingJump
                                      /\ order[k] \in EmittedBranches'
                                      /\ WaitsFor(j, order[k])
                                      /\ ir[order[k]].op = "if_false"
                                      /\ Target(order[k]) = n + 2
  <2>1. PICK k \in DOMAIN jumps : j = jumps[k]
    BY DEF ToSet
  <2>2. Leaves(j) /\ jumps \in Seq(PendingJump)
    BY <1>6 DEF LinedUp
  <2> HIDE DEF jumps, due
  <2>3. j \in PendingJump
    BY <2>1, <2>2
  <2>4. order[k] \in EmittedBranches' /\ WaitsFor(j, order[k])
    BY <2>1, <1>6 DEF LinedUp
  <2>5. order[k] \in 1..(n + 1) /\ ir[order[k]].op \in {"if_false", "jump"}
    BY <2>4, <1>3 DEF EmittedBranches, EmittedOf
  <2>6. ir[order[k]].op = "if_false" /\ j.ir_offset <= 1
    BY <2>2, <2>3, <2>4, <2>5, <1>3, CountedDownFacts DEF Leaves, WaitsFor
  <2>7. Target(order[k]) > n + 1
    BY <2>1, <2>4, <2>6, <1>3, <1>6 DEF LinedUp
  <2>8. Target(order[k]) = n + 2
    BY <2>4, <2>5, <2>6, <2>7, <1>3 DEF WaitsFor
  <2> QED
    BY <2>1, <2>3, <2>4, <2>6, <2>8
<1> HIDE DEF ops, due
\* An instruction gets its operand when the walk reaches its target, and only then.
<1>11. ASSUME NEW i \in EmittedBranches', Gets(OperandOf(i)')
       PROVE  /\ ir[i].op = "if_false" /\ Target(i) = n + 2
              /\ value(OperandOf(i)') = (pc' - Start(i + 1)') % RelRange
  <2> DEFINE j == CHOOSE j \in due : j.byte_index = OperandOf(i)'
  <2>1. j \in due /\ j.byte_index = OperandOf(i)'
    BY <1>11
  <2>2. value(OperandOf(i)') = (pc' - j.base_jump_pc) % RelRange
    BY DEF Distance
  <2> HIDE DEF j
  <2>3. PICK k \in DOMAIN jumps : /\ order[k] \in EmittedBranches'
                                  /\ WaitsFor(j, order[k])
                                  /\ ir[order[k]].op = "if_false"
                                  /\ Target(order[k]) = n + 2
    BY <2>1, <1>10
  <2>4. OperandOf(order[k])' = OperandOf(i)'
    BY <2>1, <2>3 DEF WaitsFor
  <2>5. order[k] = i
    BY <2>3, <2>4, <1>4 DEF OperandsApart
  <2>6. j.base_jump_pc = Start(i + 1)'
    BY <2>3, <2>5 DEF WaitsFor
  <2> QED
    BY <2>2, <2>3, <2>5, <2>6
<1>12. ASSUME NEW i \in EmittedBranches', ir[i].op = "if_false", Target(i) = n + 2
       PROVE  Gets(OperandOf(i)')
  <2> HIDE DEF jumps
  <2>1. PICK k \in DOMAIN jumps : order[k] = i
    <3>1. Target(i) > Current
      BY <1>3, <1>12
    <3> QED
      BY <3>1, <1>6 DEF LinedUp
  <2>2. WaitsFor(jumps[k], i) /\ jumps \in Seq(PendingJump)
    BY <2>1, <1>6 DEF LinedUp
  <2>3. jumps[k] \in PendingJump
    BY <2>2
  <2>4. Leaves(jumps[k])
    <3>1. jumps[k].ir_offset = 1
      BY <2>2, <1>3, <1>12 DEF WaitsFor
    <3>2. Due(jumps[k])
      <4>1. pc' \in Nat
        BY <1>3
      <4>2. Due(jumps[k]) <=> jumps[k].ir_offset <= 1
        BY <4>1, <2>3, CountedDownFacts
      <4> QED
        BY <4>2, <3>1
    <3> QED
      BY <3>2, <2>2, <1>12 DEF Leaves, WaitsFor
  <2>5. jumps[k] \in due
    BY <2>4, <2>1 DEF due, ToSet, jumps
  <2> QED
    BY <2>2, <2>5 DEF WaitsFor
<1>13. DOMAIN operands' = DOMAIN ops
  BY <1>7
<1>14. \A b \in DOMAIN ops : operands'[b] = IF Gets(b) THEN value(b) ELSE ops[b]
  BY <1>7
<1> HIDE DEF Gets, value
<1>15. \A i \in EmittedBranches' : OperandOf(i)' \in Nat /\ OperandOf(i)' \in DOMAIN ops
  BY <1>4, <1>8 DEF OperandsApart
<1>16. \A b \in DOMAIN ops : \E i \in EmittedBranches' : b = OperandOf(i)'
  BY <1>8
<1>17. \A i \in EmittedBranches' : i \in 1..(n + 1) /\ i + 1 \in 1..(n + 2)
  BY <1>3 DEF EmittedBranches, EmittedOf
<1>18. \A i \in 1..(n + 2) : Start(i)' \in Nat
  <2>1. \A i \in 1..(n + 2) : i \in 1..(n + 1) \/ i = n + 2
    OBVIOUS
  <2> QED
    BY <2>1, <1>3
<1>19. ASSUME NEW b \in DOMAIN ops
       PROVE  operands'[b] \in Nat
  <2>1. PICK i \in EmittedBranches' : b = OperandOf(i)'
    BY <1>16
  <2>2. CASE Gets(b)
    <3>1. operands'[b] = (pc' - Start(i + 1)') % RelRange
      BY <2>1, <2>2, <1>11, <1>14
    <3>2. pc' - Start(i + 1)' \in Int
      BY <1>3, <1>17, <1>18
    <3> QED
      BY <3>1, <3>2, OperandRange
  <2>3. CASE ~Gets(b)
    BY <2>3, <1>2, <1>9, <1>14 DEF TextTypeOK
  <2> QED
    BY <2>2, <2>3
<1>20. Slots'
  BY <1>8, <1>13 DEF Slots
<1>21. ASSUME NEW i \in EmittedBranches', ir[i].op = "if_false"
       PROVE  operands'[OperandOf(i)'] =
                IF Reached(i)' THEN (Start(Target(i))' - Start(i + 1)') % RelRange ELSE 0
  <2>1. i \in 1..(n + 1) /\ Target(i) \in Nat
    BY <1>3, <1>17
  <2>2. Reached(i)' <=> Target(i) <= n + 2
    BY <2>1, <1>3
  <2>3. CASE Target(i) = n + 2
    <3>1. operands'[OperandOf(i)'] = (pc' - Start(i + 1)') % RelRange
      BY <2>3, <1>11, <1>12, <1>14, <1>15, <1>21
    <3>2. Start(Target(i))' = pc'
      <4>1. Target(i)' = n + 2
        BY <2>1, <2>3, <1>3
      <4> QED
        BY <4>1, <1>3
    <3> QED
      BY <3>1, <3>2, <2>2, <2>3
  <2>4. CASE Target(i) # n + 2
    <3>1. operands'[OperandOf(i)'] = ops[OperandOf(i)']
      BY <2>4, <1>11, <1>14, <1>15
    <3>2. CASE i = n + 1
      <4>1. Target(i) > n + 1
        BY <3>2, <1>2, <1>3, <1>21 DEF ReadableIr, Target
      <4>2. OperandOf(i)' \notin DOMAIN operands
        <5>1. ASSUME NEW k \in EmittedBranches, OperandOf(k) = OperandOf(i)'
              PROVE  FALSE
          <6>1. k \in 1..n /\ k \in EmittedBranches'
            BY <1>3 DEF EmittedBranches, EmittedOf
          <6>2. OperandOf(k)' = OperandOf(i)'
            BY <6>1, <5>1, <1>3
          <6>3. k = i
            BY <6>1, <6>2, <1>4 DEF OperandsApart
          <6> QED
            BY <6>1, <6>3, <3>2
        <5> QED
          BY <5>1 DEF TextIInv, Slots
      <4>3. operands'[OperandOf(i)'] = 0
        BY <3>1, <4>2, <1>9, <1>15
      <4> QED
        BY <4>1, <4>3, <2>1, <2>2, <2>4
    <3>3. CASE i # n + 1
      <4>1. i \in EmittedOf("if_false") /\ i \in 1..n
        BY <3>3, <1>3, <1>17, <1>21 DEF EmittedBranches, EmittedOf
      <4>2. /\ OperandOf(i) \in DOMAIN operands
            /\ operands[OperandOf(i)] =
                 IF Reached(i) THEN (Start(Target(i)) - Start(i + 1)) % RelRange ELSE 0
        BY <4>1 DEF TextIInv, BeqOperands
      <4>3. operands'[OperandOf(i)'] = operands[OperandOf(i)]
        BY <3>1, <4>1, <4>2, <1>3, <1>9, <1>15
      <4>4. i + 1 \in 1..(n + 1) /\ (Reached(i) <=> Target(i) <= n + 1)
        BY <4>1, <2>1, <1>3
      <4>5. CASE Target(i) <= n + 1
        <5>1. Target(i) \in 1..(n + 1)
          <6>1. n + 1 \in 1..Len(ir) /\ Len(ir) \in Nat
            BY <1>2, <1>3 DEF ReadableIr
          <6>2. i \in DOMAIN ir
            BY <6>1, <4>1, <1>2 DEF ReadableIr
          <6>3. ir[i].offset \in Nat
            BY <6>2, <1>2 DEF ReadableIr
          <6>4. Target(i) >= i
            BY <6>3, <4>1 DEF Target
          <6> QED
            BY <6>4, <4>1, <4>5, <2>1
        <5>2. Start(Target(i))' = Start(Target(i))
          <6>1. Target(i)' = Target(i)
            BY <2>1, <1>3
          <6> QED
            BY <5>1, <6>1, <1>3
        <5> QED
          BY <4>2, <4>3, <4>4, <4>5, <5>2, <2>1, <2>2, <1>3
      <4>6. CASE ~(Target(i) <= n + 1)
        BY <4>2, <4>3, <4>4, <4>6, <2>1, <2>2, <2>4
      <4> QED
        BY <4>5, <4>6
    <3> QED
      BY <3>2, <3>3
  <2> QED
    BY <2>3, <2>4
<1>22. BeqOperands'
  <2>1. ASSUME NEW i \in EmittedOf("if_false")'
        PROVE  i \in EmittedBranches' /\ ir[i].op = "if_false"
    BY <1>3 DEF EmittedBranches, EmittedOf
  <2>2. ASSUME NEW i \in EmittedOf("if_false")'
        PROVE  (/\ OperandOf(i) \in DOMAIN operands
                /\ operands[OperandOf(i)] =
                     IF Reached(i) THEN (Start(Target(i)) - Start(i + 1)) % RelRange ELSE 0)'
    BY <2>1, <1>13, <1>15, <1>21
  <2> QED
    BY <2>2 DEF BeqOperands
<1>23. DOMAIN operands' \subseteq Nat
  BY <1>13, <1>15, <1>16
<1> QED
  BY <1>13, <1>19, <1>20, <1>22, <1>23
-----------------------------------------------------------------------------
(* Every step keeps the invariant.                                         *)

\* An empty segment has no branch yet.
LEMMA TextInvInit ==
  ASSUME ReadableIr, TextInit
  PROVE  TextIInv
<1>1. /\ pc = 0 /\ starts = <<>> /\ pending = <<>> /\ base = 0
      /\ operands = [b \in {} |-> 0] /\ emission = "emitting"
  BY DEF TextInit
<1>2. /\ Len(starts) = 0 /\ DOMAIN starts = {} /\ DOMAIN pending = {} /\ DOMAIN operands = {}
      /\ starts \in Seq(Nat)
  BY <1>1
<1>3. pending \in Seq(PendingJump)
  BY <1>1
<1>4. \A op : EmittedOf(op) = {}
  BY <1>2 DEF EmittedOf
<1>5. EmittedBranches = {} /\ Awaiting = {}
  BY <1>4 DEF EmittedBranches, Awaiting
<1>6. TextTypeOK
  BY <1>1, <1>2, <1>3 DEF TextTypeOK
<1>7. LaidOut
  BY <1>2 DEF LaidOut, ReadableIr
<1>8. Slots
  BY <1>2, <1>5 DEF Slots
<1>9. BeqOperands /\ JmpsPlaced
  BY <1>1, <1>4 DEF BeqOperands, JmpsPlaced
<1>10. PendingMatches
  <2> DEFINE order == [k \in {} |-> 0]
  <2>1. order \in [DOMAIN pending -> Awaiting]
    BY <1>2
  <2> HIDE DEF order
  <2>2. Matches(order)
    BY <2>1, <1>2, <1>5 DEF Matches
  <2> QED
    BY <2>1, <2>2 DEF PendingMatches
<1> QED
  BY <1>6, <1>7, <1>8, <1>9, <1>10 DEF TextIInv

\* The emission of an instruction keeps the invariant.
LEMMA EmissionKeeps ==
  ASSUME TextIInv, NEW size, NEW added, Emission(size, added)
  PROVE  TextIInv'
<1>1. PICK n \in Nat : n = Len(starts)
  BY DEF TextIInv, TextTypeOK
<1>2. ReadableIr /\ TextTypeOK /\ LaidOut
  BY DEF TextIInv
<1>3. /\ starts' \in Seq(Nat) /\ pc' \in Nat
      /\ base' = base /\ emission' = emission
      /\ ReadableIr' /\ LaidOut'
  BY <1>1, <1>2, EmissionFacts
<1>4. pending' \in Seq(PendingJump) /\ PendingMatches'
  BY WalkKeepsThePending
<1>5. /\ DOMAIN operands' \subseteq Nat
      /\ \A b \in DOMAIN operands' : operands'[b] \in Nat
      /\ Slots' /\ BeqOperands'
  BY WalkResolves
<1>6. TextTypeOK'
  BY <1>2, <1>3, <1>4, <1>5 DEF TextTypeOK
<1>7. JmpsPlaced'
  BY <1>3 DEF JmpsPlaced, Emission
<1> QED
  BY <1>3, <1>4, <1>5, <1>6, <1>7 DEF TextIInv

\* The three actions that emit code are emissions.
LEMMA EmitsAnInstruction ==
  ASSUME TextIInv, EmitAlloc \/ EmitIfFalse \/ EmitJump
  PROVE  \E size, added : Emission(size, added)
<1>1. pc \in Nat /\ starts \in Seq(Nat) /\ ReadableIr
  BY DEF TextIInv, TextTypeOK
<1>2. CASE EmitAlloc
  <2>1. PICK size \in PlainSizes : Step(size, <<>>)
    BY <1>2 DEF EmitAlloc
  <2>2. Emission(size, <<>>)
    BY <1>2, <2>1, SizesAssumption DEF EmitAlloc, Emits, Emission, AddsFor, LeastSize
  <2> QED
    BY <2>2
<1>3. CASE EmitIfFalse
  <2> DEFINE jump(load) == [base_jump_pc |-> pc + load + 2, byte_index |-> pc + load + 1,
                            ir_offset |-> ir[Current].offset, absolute |-> FALSE]
  <2>1. PICK load \in LoadSizes : Step(load + 2, <<jump(load)>>)
    BY <1>3 DEF EmitIfFalse
  <2>2. /\ emission = "emitting" /\ Current <= Len(ir) /\ ir[Current].op = "if_false"
        /\ load \in Nat
    BY <1>3, SizesAssumption DEF EmitIfFalse, Emits
  <2>3. ir[Current].offset \in Nat
    BY <1>1, <2>2 DEF ReadableIr, Current
  <2>4. jump(load) \in PendingJump
    BY <1>1, <2>2, <2>3 DEF PendingJump
  <2>5. /\ jump(load).byte_index = pc + (load + 2) - 1
        /\ jump(load).base_jump_pc = pc + (load + 2)
        /\ jump(load).ir_offset = ir[Current].offset
        /\ jump(load).absolute = FALSE
    BY <1>1, <2>2
  <2> HIDE DEF jump
  <2>6. AddsFor(<<jump(load)>>, load + 2)
    BY <2>2, <2>4, <2>5 DEF AddsFor
  <2>7. Emission(load + 2, <<jump(load)>>)
    BY <2>1, <2>2, <2>6 DEF Emission, LeastSize
  <2> QED
    BY <2>7
<1>4. CASE EmitJump
  <2> DEFINE jump == [base_jump_pc |-> pc + 3, byte_index |-> pc + 1,
                      ir_offset |-> ir[Current].offset, absolute |-> TRUE]
  <2>1. /\ emission = "emitting" /\ Current <= Len(ir) /\ ir[Current].op = "jump"
        /\ Step(3, <<jump>>)
    BY <1>4 DEF EmitJump, Emits
  <2>2. ir[Current].offset \in Nat
    BY <1>1, <2>1 DEF ReadableIr, Current
  <2>3. jump \in PendingJump
    BY <1>1, <2>2 DEF PendingJump
  <2>4. /\ jump.byte_index = pc + 3 - 2
        /\ jump.base_jump_pc = pc + 3
        /\ jump.ir_offset = ir[Current].offset
        /\ jump.absolute = TRUE
    BY <1>1
  <2> HIDE DEF jump
  <2>5. AddsFor(<<jump>>, 3)
    BY <2>1, <2>3, <2>4 DEF AddsFor
  <2>6. Emission(3, <<jump>>)
    BY <2>1, <2>5 DEF Emission, LeastSize
  <2> QED
    BY <2>6
<1> QED
  BY <1>2, <1>3, <1>4

\* Placing the segment gives every JMP its operand and leaves the BEQs alone.
LEMMA PlaceSegmentKeeps ==
  ASSUME TextIInv, PlaceSegment
  PROVE  TextIInv'
<1>1. /\ ReadableIr /\ TextTypeOK /\ LaidOut /\ Slots /\ BeqOperands
      /\ PendingMatches
  BY DEF TextIInv
<1>2. /\ emission = "emitted" /\ emission' = "placed" /\ base' \in Nat
      /\ pending' = <<>> /\ ir' = ir /\ pc' = pc /\ starts' = starts
  BY SizesAssumption DEF PlaceSegment
<1> DEFINE jumps == {j \in ToSet(pending) : j.absolute}
           Gets(b) == \E j \in jumps : j.byte_index = b
           value(b) == ((CHOOSE j \in jumps : j.byte_index = b).base_jump_pc + base') % AbsRange
<1>3. operands' = [b \in DOMAIN operands |-> IF Gets(b) THEN value(b) ELSE operands[b]]
  BY DEF PlaceSegment
<1>4. PICK order : Matches(order)
  BY <1>1, <1>2 DEF PendingMatches
<1>5. OperandsApart
  <2>1. Offsets
    BY <1>1 DEF Offsets, TextTypeOK
  <2> QED
    BY <2>1, <1>1, LaidOutApart
<1>6. \A op : EmittedOf(op)' = EmittedOf(op)
  BY <1>2 DEF EmittedOf
<1>7. EmittedBranches' = EmittedBranches
  BY <1>6 DEF EmittedBranches
<1>8. \A i : /\ Start(i)' = Start(i) /\ OperandOf(i)' = OperandOf(i)
             /\ Target(i)' = Target(i) /\ (Reached(i)' <=> Reached(i))
             /\ BaseOf(i)' = BaseOf(i)
  BY <1>2 DEF Start, OperandOf, Target, Reached, BaseOf
<1>9. ASSUME NEW j \in jumps, NEW i \in EmittedBranches, j.byte_index = OperandOf(i)
      PROVE  j \in PendingJump /\ ir[i].op = "jump" /\ j.base_jump_pc = BaseOf(i)
  <2>1. PICK k \in DOMAIN pending : pending[k] = j
    BY DEF ToSet
  <2>2. j.absolute
    OBVIOUS
  <2>3. order[k] \in Awaiting /\ PendingFor(j, order[k])
    BY <2>1, <1>4 DEF Matches
  <2>4. order[k] \in EmittedBranches
    BY <2>3 DEF Awaiting, EmittedBranches, EmittedOf
  <2>5. order[k] = i
    BY <2>3, <2>4, <1>5, <1>9 DEF PendingFor, OperandsApart
  <2>6. j \in PendingJump
    BY <2>1, <1>1 DEF TextTypeOK
  <2> QED
    BY <2>2, <2>3, <2>5, <2>6 DEF PendingFor
<1>10. ASSUME NEW i \in EmittedOf("jump")
       PROVE  /\ i \in EmittedBranches
              /\ Gets(OperandOf(i))
              /\ value(OperandOf(i)) = (BaseOf(i) + base') % AbsRange
              /\ BaseOf(i) \in Nat
  <2>1. i \in EmittedBranches /\ i \in Awaiting /\ ir[i].op = "jump"
    BY DEF EmittedBranches, Awaiting, EmittedOf
  <2>2. PICK k \in DOMAIN pending : order[k] = i
    BY <2>1, <1>4 DEF Matches
  <2>3. PendingFor(pending[k], i)
    BY <2>2, <1>4 DEF Matches
  <2>4. pending[k] \in jumps /\ pending[k].byte_index = OperandOf(i)
    BY <2>1, <2>3 DEF PendingFor, ToSet
  <2> DEFINE j == CHOOSE j \in jumps : j.byte_index = OperandOf(i)
  <2>5. j \in jumps /\ j.byte_index = OperandOf(i)
    BY <2>4
  <2>6. value(OperandOf(i)) = (j.base_jump_pc + base') % AbsRange
    OBVIOUS
  <2> HIDE DEF j
  <2>7. j \in PendingJump /\ j.base_jump_pc = BaseOf(i)
    BY <2>1, <2>5, <1>9
  <2>8. BaseOf(i) \in Nat
    BY <2>7 DEF PendingJump
  <2> QED
    BY <2>1, <2>4, <2>6, <2>7, <2>8
<1>11. ASSUME NEW i \in EmittedOf("if_false")
       PROVE  i \in EmittedBranches /\ ~Gets(OperandOf(i))
  <2>1. i \in EmittedBranches /\ ir[i].op # "jump"
    BY DEF EmittedBranches, EmittedOf
  <2> QED
    BY <2>1, <1>9
<1> HIDE DEF Gets, value, jumps
<1>12. /\ DOMAIN operands' = DOMAIN operands
       /\ \A b \in DOMAIN operands : operands'[b] = IF Gets(b) THEN value(b) ELSE operands[b]
  BY <1>3
<1>13. \A i \in EmittedBranches : OperandOf(i) \in DOMAIN operands
  BY <1>1 DEF Slots
<1>14. ASSUME NEW b \in DOMAIN operands
       PROVE  operands'[b] \in Nat
  <2>1. PICK i \in EmittedBranches : b = OperandOf(i)
    BY <1>1 DEF Slots
  <2>2. i \in EmittedOf("jump") \/ i \in EmittedOf("if_false")
    BY DEF EmittedBranches
  <2>3. CASE i \in EmittedOf("jump")
    <3>1. BaseOf(i) + base' \in Int
      BY <2>3, <1>2, <1>10
    <3>2. operands'[b] = (BaseOf(i) + base') % AbsRange
      BY <2>1, <2>3, <1>10, <1>12
    <3> QED
      BY <3>1, <3>2, OperandRange
  <2>4. CASE i \in EmittedOf("if_false")
    BY <2>1, <2>4, <1>1, <1>11, <1>12 DEF TextTypeOK
  <2> QED
    BY <2>2, <2>3, <2>4
<1>15. TextTypeOK'
  <2>1. pending' \in Seq(PendingJump)
    BY <1>2
  <2> QED
    BY <2>1, <1>1, <1>2, <1>12, <1>14 DEF TextTypeOK
<1>16. ReadableIr'
  BY <1>1, <1>2 DEF ReadableIr
<1>17. LaidOut'
  <2>1. \A i : LeastSize(i)' = LeastSize(i)
    BY <1>2 DEF LeastSize
  <2> QED
    BY <2>1, <1>1, <1>2, <1>8 DEF LaidOut
<1>18. Slots'
  BY <1>1, <1>7, <1>8, <1>12 DEF Slots
<1>19. ASSUME NEW i \in EmittedOf("if_false")
       PROVE  (/\ OperandOf(i) \in DOMAIN operands
               /\ operands[OperandOf(i)] =
                    IF Reached(i) THEN (Start(Target(i)) - Start(i + 1)) % RelRange ELSE 0)'
  <2>1. operands'[OperandOf(i)] = operands[OperandOf(i)] /\ OperandOf(i) \in DOMAIN operands
    BY <1>11, <1>12, <1>13
  <2>2. Start(Target(i))' = Start(Target(i)) /\ Start(i + 1)' = Start(i + 1)
    BY <1>8
  <2> QED
    BY <2>1, <2>2, <1>1, <1>8, <1>12 DEF BeqOperands
<1>20. BeqOperands'
  BY <1>6, <1>19 DEF BeqOperands
<1>21. JmpsPlaced'
  BY <1>6, <1>8, <1>10, <1>12, <1>13 DEF JmpsPlaced
<1>22. PendingMatches'
  BY <1>2 DEF PendingMatches
<1> QED
  BY <1>15, <1>16, <1>17, <1>18, <1>20, <1>21, <1>22 DEF TextIInv

\* The end of the emission, whole or not, and a stuttering step change nothing
\* that the invariant is about.
LEMMA EmissionEnds ==
  ASSUME TextIInv, \/ StopEmission \/ EndOfSegment \/ UNCHANGED textVars
  PROVE  TextIInv'
<1>1. /\ ir' = ir /\ pc' = pc /\ starts' = starts /\ pending' = pending
      /\ operands' = operands /\ base' = base
      /\ emission' \in {"emitting", "emitted", "placed"}
      /\ emission' # "placed" \/ emission' = emission
      /\ emission # "placed" \/ emission' = emission
  BY DEF TextIInv, TextTypeOK, StopEmission, EndOfSegment, Emits, textVars
<1>2. /\ \A i : /\ Start(i)' = Start(i) /\ OperandOf(i)' = OperandOf(i)
                /\ Target(i)' = Target(i) /\ (Reached(i)' <=> Reached(i))
                /\ LeastSize(i)' = LeastSize(i)
      /\ \A op : EmittedOf(op)' = EmittedOf(op)
  BY <1>1 DEF Start, OperandOf, Target, Reached, LeastSize, EmittedOf
<1>3. /\ \A i : BaseOf(i)' = BaseOf(i) /\ Left(i)' = Left(i)
      /\ EmittedBranches' = EmittedBranches /\ Awaiting' = Awaiting
  BY <1>1, <1>2 DEF BaseOf, Left, EmittedBranches, Awaiting, Start, Target, Reached
<1>4. ReadableIr' /\ TextTypeOK' /\ LaidOut' /\ Slots'
  BY <1>1, <1>2, <1>3 DEF TextIInv, ReadableIr, TextTypeOK, LaidOut, Slots
<1>5. BeqOperands'
  <2>1. ASSUME NEW i \in EmittedOf("if_false")
        PROVE  (/\ OperandOf(i) \in DOMAIN operands
                /\ operands[OperandOf(i)] =
                     IF Reached(i) THEN (Start(Target(i)) - Start(i + 1)) % RelRange ELSE 0)'
    <3>1. Start(Target(i))' = Start(Target(i)) /\ Start(i + 1)' = Start(i + 1)
      BY <1>2
    <3> QED
      BY <3>1, <1>1, <1>2 DEF TextIInv, BeqOperands
  <2> QED
    BY <2>1, <1>2 DEF BeqOperands
<1>6. PendingMatches'
  <2>1. SUFFICES ASSUME emission' # "placed"
                 PROVE  PendingMatches'
    BY DEF PendingMatches
  <2>2. emission # "placed"
    BY <2>1, <1>1
  <2>3. PICK order \in [DOMAIN pending -> Awaiting] : Matches(order)
    BY <2>2 DEF TextIInv, PendingMatches
  <2>4. Matches(order)'
    BY <2>3, <1>1, <1>2, <1>3 DEF Matches, PendingFor
  <2> QED
    BY <2>3, <2>4, <1>1, <1>3 DEF PendingMatches
<1>7. JmpsPlaced'
  BY <1>1, <1>2, <1>3 DEF TextIInv, JmpsPlaced
<1> QED
  BY <1>4, <1>5, <1>6, <1>7 DEF TextIInv

\* Every step of the emitter keeps the invariant.
LEMMA TextInvStep ==
  ASSUME TextIInv, [TextNext]_textVars
  PROVE  TextIInv'
<1>1. CASE EmitAlloc \/ EmitIfFalse \/ EmitJump
  BY <1>1, EmitsAnInstruction, EmissionKeeps
<1>2. CASE PlaceSegment
  BY <1>2, PlaceSegmentKeeps
<1>3. CASE StopEmission \/ EndOfSegment \/ UNCHANGED textVars
  BY <1>3, EmissionEnds
<1> QED
  BY <1>1, <1>2, <1>3 DEF TextNext
-----------------------------------------------------------------------------
(* The theorems.                                                           *)

\* The segments to emit are readable.
LEMMA ProgramsReadable ==
  ASSUME ir \in Programs
  PROVE  ReadableIr
<1>1. ir \in Seq(IrInstr) /\ \A i \in DOMAIN ir : ir[i].op # "plain" => ir[i].offset > 0
  BY ProgramsAssumption
<1>2. \A i \in DOMAIN ir : ir[i] \in IrInstr
  BY <1>1
<1> QED
  BY <1>1, <1>2 DEF ReadableIr, IrInstr

\* The invariant holds in every state of every emission.
THEOREM TextInvariance == TextSpec => []TextIInv
<1>1. SegmentInit => TextIInv
  BY ProgramsReadable, TextInvInit DEF SegmentInit
<1>2. TextIInv /\ [TextNext]_textVars => TextIInv'
  BY TextInvStep
<1> QED
  BY <1>1, <1>2, PTL DEF TextSpec

\* The variables of the emitter keep their types: no counter of a pending jump
\* falls below zero and every operand is a natural number.
THEOREM TextTypeCorrect == TextSpec => []TextTypeOK
<1>1. TextIInv => TextTypeOK
  BY DEF TextIInv
<1> QED
  BY <1>1, TextInvariance, PTL

\* The operand of a BEQ is 0 until its target has been reached, and from then
\* on the distance from the byte after it to the target.
THEOREM BeqOperandsRight == TextSpec => []BeqOperands
<1>1. TextIInv => BeqOperands
  BY DEF TextIInv
<1> QED
  BY <1>1, TextInvariance, PTL

\* The pending list is always exactly the branches that still wait, in order,
\* however the walks over it interleave with the branches that are added.
THEOREM PendingListExact == TextSpec => []PendingIsExact
<1>1. TextIInv => PendingIsExact
  <2>1. SUFFICES ASSUME TextIInv, emission # "placed"
                 PROVE  PendingIsExact
    BY DEF PendingIsExact
  <2>2. PICK order \in [DOMAIN pending -> Awaiting] : Matches(order)
    BY <2>1 DEF TextIInv, PendingMatches
  <2> QED
    BY <2>2 DEF PendingIsExact, Matches, PendingFor, Left
<1> QED
  BY <1>1, TextInvariance, PTL

\* In a segment emitted in full, a JMP to its end lands there.
THEOREM FinalJmpsRight == TextSpec => []FinalJmpsLand
<1>1. TextIInv => FinalJmpsLand
  <2>1. SUFFICES ASSUME TextIInv, emission = "placed", Len(starts) = Len(ir),
                        NEW i \in EmittedOf("jump"), Target(i) = Len(ir) + 1
                 PROVE  operands[OperandOf(i)] = (Start(Target(i)) + base) % AbsRange
    BY DEF FinalJmpsLand
  <2>2. operands[OperandOf(i)] = (BaseOf(i) + base) % AbsRange
    BY <2>1 DEF TextIInv, JmpsPlaced
  <2>3. PICK n \in Nat : n = Len(starts) /\ DOMAIN starts = 1..n
    BY <2>1 DEF TextIInv, TextTypeOK
  <2>4. Target(i) = n + 1 /\ Reached(i) /\ ir[i].op = "jump"
    BY <2>1, <2>3 DEF Reached, EmittedOf
  <2>5. Start(Target(i)) = pc
    BY <2>3, <2>4 DEF Start
  <2> QED
    BY <2>2, <2>4, <2>5 DEF BaseOf
<1> QED
  BY <1>1, TextInvariance, PTL
=============================================================================

------------------------ MODULE BranchLoweringProofs ------------------------
(***************************************************************************)
(* Proof that the machine code of if statements does what their source     *)
(* says: the generator's theorem about the flat code and the emitter's     *)
(* invariant about the operands, put together.                             *)
(***************************************************************************)
EXTENDS BranchLowering, ZirBranchesProofs

Txt == INSTANCE Rp2a03TextProofs WITH ir <- code, Programs <- {}

-----------------------------------------------------------------------------
(* Runs.                                                                   *)

\* Code whose flow only goes forward runs some set that is closed under it.
LEMMA ClosedRunExists ==
  ASSUME NEW instrs, code \in Seq(instrs), NEW succ, GoesForward(succ)
  PROVE  \E S : ClosedRun(S, succ)
<1> DEFINE Onward(C) == /\ \A i \in DOMAIN code : i = 1 => i \in C
                        /\ \A i, j \in DOMAIN code : j \in C /\ succ[j] = i => i \in C
           S == {k \in DOMAIN code : \A C \in SUBSET DOMAIN code : Onward(C) => k \in C}
<1>1. ASSUME NEW i \in DOMAIN code, i = 1 \/ \E j \in S : succ[j] = i
      PROVE  i \in S
  BY <1>1
<1>2. ASSUME NEW i \in S, i # 1, \A j \in S : succ[j] # i
      PROVE  FALSE
  <2> DEFINE C == S \ {i}
  <2>1. C \in SUBSET DOMAIN code
    OBVIOUS
  <2>2. ASSUME NEW k \in DOMAIN code, k = 1
        PROVE  k \in C
    BY <1>1, <1>2, <2>2
  <2>3. ASSUME NEW k \in DOMAIN code, NEW j \in DOMAIN code, j \in C, succ[j] = k
        PROVE  k \in C
    <3>1. k \in S
      BY <1>1, <2>3
    <3> QED
      BY <3>1, <1>2, <2>3
  <2>4. Onward(C)
    BY <2>2, <2>3
  <2>5. i \notin C
    OBVIOUS
  <2> QED
    BY <2>1, <2>4, <2>5
<1>3. S \subseteq DOMAIN code
  OBVIOUS
<1> HIDE DEF S
<1>4. ClosedRun(S, succ)
  BY <1>1, <1>2, <1>3 DEF ClosedRun
<1> QED
  BY <1>4

-----------------------------------------------------------------------------
(* The invariant of the two stages.                                        *)

\* The emitter waits until the generator has handed its code on.
Staged == IF HandedOn THEN Txt!TextIInv ELSE Cpu!TextInit

LoweringIInv == ZirIInv /\ Staged

\* Code that is handed on is readable for the emitter.
LEMMA HandedOnReadable ==
  ASSUME ZirIInv, HandedOn
  PROVE  Txt!ReadableIr
<1>1. ZirTypeOK /\ BranchesOK /\ open = <<>>
  BY DEF ZirIInv, HandedOn
<1>2. PICK n \in Nat : n = Len(code) /\ DOMAIN code = 1..n
  BY <1>1, Parts
<1>3. \A i \in DOMAIN code : code[i].op # "plain" => code[i].offset > 0
  BY <1>1, <1>2, Parts DEF BranchesOK, PatchedOK, Waiting
<1>4. \A i \in DOMAIN code : code[i] \in ZirInstr
  BY <1>1 DEF ZirTypeOK
<1> QED
  BY <1>2, <1>3, <1>4 DEF Txt!ReadableIr, ZirInstr

\* The proofs about the emitter speak of the same emitter.
LEMMA SameEmitter ==
  /\ Cpu!TextNext => Txt!TextNext
  /\ Cpu!TextInit => Txt!TextInit
<1>1. \A jump : Cpu!Leaves(jump) <=> Txt!Leaves(jump)
  BY DEF Cpu!Leaves, Txt!Leaves, Cpu!Due, Txt!Due, Cpu!CountDown, Txt!CountDown
<1>2. \A jumps, here : Cpu!Kept(jumps, here) = Txt!Kept(jumps, here)
  BY DEF Cpu!Kept, Txt!Kept, Cpu!Leaves, Txt!Leaves, Cpu!CountedDown, Txt!CountedDown,
         Cpu!Due, Txt!Due, Cpu!CountDown, Txt!CountDown
<1>3. \A jumps, ops, here : Cpu!Resolved(jumps, ops, here) = Txt!Resolved(jumps, ops, here)
  BY DEF Cpu!Resolved, Txt!Resolved, Cpu!ToSet, Txt!ToSet, Cpu!Leaves, Txt!Leaves,
         Cpu!Due, Txt!Due, Cpu!CountDown, Txt!CountDown, Cpu!Distance, Txt!Distance
<1>4. ASSUME NEW size, NEW added, Cpu!Step(size, added)
      PROVE  Txt!Step(size, added)
  <2> DEFINE ops == [b \in DOMAIN operands \cup {j.byte_index : j \in Cpu!ToSet(added)} |->
                       IF b \in DOMAIN operands THEN operands[b] ELSE 0]
  <2>1. ops = [b \in DOMAIN operands \cup {j.byte_index : j \in Txt!ToSet(added)} |->
                 IF b \in DOMAIN operands THEN operands[b] ELSE 0]
    BY DEF Cpu!ToSet, Txt!ToSet
  <2>2. /\ pc' = pc + size /\ starts' = Append(starts, pc)
        /\ pending' = Cpu!Kept(pending \o added, pc + size)
        /\ operands' = Cpu!Resolved(pending \o added, ops, pc + size)
        /\ UNCHANGED <<code, base, emission>>
    BY <1>4 DEF Cpu!Step
  <2> HIDE DEF ops
  <2> QED
    BY <2>1, <2>2, <1>2, <1>3 DEF Txt!Step
<1>5. \A op : Cpu!Emits(op) <=> Txt!Emits(op)
  BY DEF Cpu!Emits, Txt!Emits, Cpu!Current, Txt!Current
<1>6. Cpu!EmitAlloc => Txt!EmitAlloc
  BY <1>4, <1>5 DEF Cpu!EmitAlloc, Txt!EmitAlloc
<1>7. Cpu!EmitIfFalse => Txt!EmitIfFalse
  BY <1>4, <1>5 DEF Cpu!EmitIfFalse, Txt!EmitIfFalse, Cpu!Current, Txt!Current
<1>8. Cpu!EmitJump => Txt!EmitJump
  BY <1>4, <1>5 DEF Cpu!EmitJump, Txt!EmitJump, Cpu!Current, Txt!Current
<1>9. /\ Cpu!StopEmission => Txt!StopEmission
      /\ Cpu!EndOfSegment => Txt!EndOfSegment
  BY <1>5 DEF Cpu!StopEmission, Txt!StopEmission, Cpu!EndOfSegment, Txt!EndOfSegment,
              Cpu!Current, Txt!Current
<1>10. Cpu!PlaceSegment => Txt!PlaceSegment
  BY DEF Cpu!PlaceSegment, Txt!PlaceSegment, Cpu!ToSet, Txt!ToSet
<1>11. Cpu!TextInit => Txt!TextInit
  BY DEF Cpu!TextInit, Txt!TextInit
<1> QED
  BY <1>6, <1>7, <1>8, <1>9, <1>10, <1>11 DEF Cpu!TextNext, Txt!TextNext

\* The assumptions that the proofs about the emitter rest on.
LEMMA EmitterAssumptions == Txt!SizesAssumption /\ Txt!ProgramsAssumption
BY CpuAssumption DEF Txt!SizesAssumption, Txt!ProgramsAssumption

\* The emitter starts in its invariant.
LEMMA EmissionStarts ==
  ASSUME Txt!ReadableIr, Cpu!TextInit
  PROVE  Txt!TextIInv
BY SameEmitter, EmitterAssumptions, Txt!TextInvInit

\* Every step of the two stages keeps the invariant.
LEMMA LoweringStep ==
  ASSUME ZirIInv, ZirIInv', Staged, [Next]_vars
  PROVE  Staged'
<1>1. CASE GenerateZir
  <2>1. ~HandedOn
    BY <1>1 DEF GenerateZir, HandedOn, ZirNext, EmitPlain, EnterIf, LeaveThen, EnterElse,
                LeaveElse, Generate, Visiting
  <2>2. Cpu!TextInit'
    BY <1>1, <2>1 DEF GenerateZir, cpuVars, Staged, Cpu!TextInit
  <2>3. CASE HandedOn'
    <3>1. Txt!ReadableIr'
      BY <2>3, HandedOnReadable, PTL
    <3>2. Txt!TextIInv'
      BY <2>2, <3>1, EmissionStarts, PTL
    <3> QED
      BY <2>3, <3>2 DEF Staged
  <2>4. CASE ~HandedOn'
    BY <2>2, <2>4 DEF Staged
  <2> QED
    BY <2>3, <2>4
<1>2. CASE EmitText
  <2>1. HandedOn /\ Txt!TextIInv
    BY <1>2 DEF EmitText, Staged
  <2>2. [Txt!TextNext]_(Txt!textVars)
    BY <1>2, SameEmitter DEF EmitText
  <2>3. Txt!TextIInv'
    BY <2>1, <2>2, EmitterAssumptions, Txt!TextInvStep
  <2> QED
    BY <1>2, <2>1, <2>3 DEF Staged, HandedOn, EmitText
<1>3. CASE UNCHANGED vars
  <2>1. /\ HandedOn' = HandedOn
        /\ [Txt!TextNext]_(Txt!textVars)
    BY <1>3 DEF vars, HandedOn, Txt!textVars
  <2>2. CASE HandedOn
    <3>1. Txt!TextIInv'
      BY <2>1, <2>2, EmitterAssumptions, Txt!TextInvStep DEF Staged
    <3> QED
      BY <2>1, <2>2, <3>1 DEF Staged
  <2>3. CASE ~HandedOn
    <3>1. Cpu!TextInit'
      BY <1>3, <2>3 DEF vars, Staged, Cpu!TextInit
    <3> QED
      BY <2>1, <2>3, <3>1 DEF Staged
  <2> QED
    BY <2>2, <2>3
<1> QED
  BY <1>1, <1>2, <1>3 DEF Next

\* The invariant holds in every state of the two stages.
THEOREM LoweringInvariance == Spec => []LoweringIInv
<1>1. Init => ZirInit
  BY DEF Init
<1>2. [Next]_vars => [ZirNext]_zirVars
  BY DEF Next, GenerateZir, EmitText, vars, zirVars, Cpu!TextNext, Cpu!EmitAlloc,
         Cpu!EmitIfFalse, Cpu!EmitJump, Cpu!StopEmission, Cpu!EndOfSegment,
         Cpu!PlaceSegment, Cpu!Step
<1>3. Spec => ZirSpec
  BY <1>1, <1>2, PTL DEF Spec, ZirSpec
<1>4. Init => Staged
  <2>1. SUFFICES ASSUME Init
                 PROVE  ~HandedOn /\ Cpu!TextInit
    BY DEF Staged
  <2> QED
    BY <2>1 DEF Init, ZirInit, HandedOn
<1>5. ZirIInv /\ ZirIInv' /\ Staged /\ [Next]_vars => Staged'
  BY LoweringStep
<1> QED
  BY <1>3, <1>4, <1>5, ZirInvariance, PTL DEF Spec, LoweringIInv

-----------------------------------------------------------------------------
(* Operands.                                                               *)

\* A distance that fits its operand is stored as it is.
LEMMA SmallRemainder ==
  ASSUME NEW m \in Nat \ {0}, NEW d \in Nat, d < m
  PROVE  d % m = d
OBVIOUS

\* What was added before a division is taken from its remainder again.
LEMMA RemainderUndone ==
  ASSUME NEW m \in Nat \ {0}, NEW a \in Nat, NEW b \in Nat, a < m
  PROVE  (((a + b) % m) - b) % m = a
<1>1. PICK q \in Int, r \in Int : q = (a + b) \div m /\ r = (a + b) % m
  OBVIOUS
<1>2. a + b = (m * q) + r
  BY <1>1
<1>3. r - b = (m * (0 - q)) + a
  <2>1. m * q \in Int /\ m * (0 - q) = 0 - (m * q)
    OBVIOUS
  <2> QED
    BY <2>1, <1>2
<1>4. ((m * (0 - q)) + a) % m = a
  <2>1. PICK p \in Int : p = 0 - q
    OBVIOUS
  <2>2. ((m * p) + a) % m = a
    OBVIOUS
  <2> QED
    BY <2>1, <2>2
<1> QED
  BY <1>1, <1>3, <1>4

-----------------------------------------------------------------------------
(* The layout of a compiled program.                                       *)

\* What the proof about the machine code uses of the emitter: where the code of
\* each instruction starts, and where its branches go.
Layout(n) ==
  /\ Len(code) = n /\ DOMAIN code = 1..n
  /\ \A i \in 1..(n + 1) : Cpu!Start(i) \in Nat
  /\ \A i \in 1..n, j \in 1..(n + 1) : i < j => Cpu!Start(i) <= Cpu!Start(j)
  /\ \A i \in BranchesAt : /\ Cpu!Start(i) < Cpu!Start(i + 1)
                           /\ i + code[i].offset \in (i + 1)..(n + 1)
                           /\ Landing(i) = Cpu!Start(i + code[i].offset)

\* A compiled program whose branches are expressible is laid out that way.
LEMMA CompiledLayout ==
  ASSUME LoweringIInv, Compiled, Expressible
  PROVE  \E n \in Nat : Layout(n)
<1>1. HandedOn /\ Txt!TextIInv /\ emission = "placed" /\ Len(starts) = Len(code)
  BY DEF LoweringIInv, Staged, Compiled
<1>2. ZirTypeOK /\ BranchesOK /\ open = <<>>
  BY <1>1 DEF LoweringIInv, ZirIInv, HandedOn
<1>3. Forward
  BY <1>2, Parts DEF BranchesOK, PatchedOK, Waiting, Forward
<1>4. PICK n \in Nat : n = Len(code) /\ DOMAIN code = 1..n
  BY <1>2, Parts
<1>5. /\ Txt!TextTypeOK /\ Txt!LaidOut /\ Txt!BeqOperands /\ Txt!JmpsPlaced
      /\ pc \in Nat /\ starts \in Seq(Nat) /\ base \in Nat
  BY <1>1 DEF Txt!TextIInv, Txt!TextTypeOK
<1>6. DOMAIN starts = 1..n /\ End = n + 1
  BY <1>1, <1>4, <1>5 DEF End
<1>7. \A i : /\ Cpu!Start(i) = Txt!Start(i) /\ Cpu!Target(i) = Txt!Target(i)
             /\ Cpu!OperandOf(i) = Txt!OperandOf(i)
  BY DEF Cpu!Start, Txt!Start, Cpu!Target, Txt!Target, Cpu!OperandOf, Txt!OperandOf
<1>8. \A i \in 1..(n + 1) : Cpu!Start(i) \in Nat
  BY <1>5, <1>6 DEF Cpu!Start
<1>9. \A i \in 1..n : \A j \in (i + 1)..(n + 1) :
        Cpu!Start(i) + Txt!LeastSize(i) <= Cpu!Start(j)
  BY <1>1, <1>4, <1>5, <1>6, <1>7 DEF Txt!LaidOut
<1>10. ASSUME NEW i \in 1..n, NEW j \in 1..(n + 1), i < j
       PROVE  Cpu!Start(i) <= Cpu!Start(j)
  <2>1. j \in (i + 1)..(n + 1) /\ i \in 1..(n + 1)
    BY <1>10
  <2> QED
    BY <2>1, <1>8, <1>9 DEF Txt!LeastSize
<1>11. ASSUME NEW i \in BranchesAt
       PROVE  /\ i \in 1..n /\ i + 1 \in 1..(n + 1)
              /\ code[i].op \in {"if_false", "jump"}
              /\ i + code[i].offset \in (i + 1)..(n + 1)
              /\ Txt!Target(i) = i + code[i].offset
              /\ Txt!Reached(i)
  <2>1. i \in 1..n /\ code[i] \in ZirInstr /\ code[i].op # "plain"
    BY <1>2, <1>4 DEF BranchesAt, ZirTypeOK
  <2>2. code[i].op \in {"if_false", "jump"} /\ code[i].offset \in Nat
    BY <2>1 DEF ZirInstr
  <2>3. i + code[i].offset \in (i + 1)..(n + 1)
    BY <2>1, <2>2, <1>3, <1>4 DEF Forward
  <2> QED
    BY <2>1, <2>2, <2>3, <1>1, <1>4 DEF Txt!Target, Txt!Reached
<1>12. ASSUME NEW i \in BranchesAt
       PROVE  Cpu!Start(i) < Cpu!Start(i + 1)
  <2>1. i + 1 \in (i + 1)..(n + 1) /\ i \in 1..(n + 1) /\ i \in 1..n
    BY <1>11
  <2> QED
    BY <2>1, <1>8, <1>9, <1>11 DEF Txt!LeastSize
<1>13. ASSUME NEW i \in BranchesAt
       PROVE  Landing(i) = Cpu!Start(i + code[i].offset)
  <2> DEFINE t == i + code[i].offset
             operand == operands[Cpu!OperandOf(i)]
  <2>1. t \in 1..(n + 1) /\ i + 1 \in 1..(n + 1) /\ Cpu!Target(i) = t
    BY <1>11, <1>7
  <2>2. CASE code[i].op = "jump"
    <3>1. t = n + 1 /\ Cpu!Start(n + 1) < AbsRange
      BY <2>1, <2>2, <1>6 DEF Expressible
    <3>2. operand = (pc + base) % AbsRange
      <4>1. i \in Txt!EmittedOf("jump")
        BY <2>2, <1>6, <1>11 DEF Txt!EmittedOf
      <4> QED
        BY <4>1, <2>2, <1>1, <1>5, <1>7, <1>11 DEF Txt!JmpsPlaced, Txt!BaseOf
    <3>3. Cpu!Start(n + 1) = pc
      BY <1>6 DEF Cpu!Start
    <3>4. (operand - base) % AbsRange = pc
      BY <3>1, <3>2, <3>3, <1>5, CpuAssumption, RemainderUndone
    <3> QED
      BY <3>1, <3>3, <3>4, <2>2 DEF Landing
  <2>3. CASE code[i].op = "if_false"
    <3>1. Cpu!Start(t) - Cpu!Start(i + 1) < RelRange \div 2
      BY <2>1, <2>3 DEF Expressible
    <3>2. operand = (Cpu!Start(t) - Cpu!Start(i + 1)) % RelRange
      <4>1. i \in Txt!EmittedOf("if_false")
        BY <2>3, <1>6, <1>11 DEF Txt!EmittedOf
      <4>2. operands[Txt!OperandOf(i)] =
              (Txt!Start(Txt!Target(i)) - Txt!Start(i + 1)) % RelRange
        BY <4>1, <1>5, <1>11 DEF Txt!BeqOperands
      <4> QED
        BY <4>2, <1>7, <1>11
    <3>3. Cpu!Start(t) - Cpu!Start(i + 1) \in Nat
      <4>1. CASE t = i + 1
        BY <4>1, <2>1, <1>8
      <4>2. CASE t # i + 1
        <5>1. i + 1 \in 1..n /\ i + 1 < t
          BY <4>2, <2>1, <1>11
        <5> QED
          BY <5>1, <2>1, <1>8, <1>10
      <4> QED
        BY <4>1, <4>2
    <3>4. Signed(operand) = Cpu!Start(t) - Cpu!Start(i + 1)
      <4>1. PICK d \in Nat : d = Cpu!Start(t) - Cpu!Start(i + 1)
        BY <3>3
      <4>2. d < RelRange
        BY <4>1, <3>1, CpuAssumption
      <4>3. operand = d
        BY <4>1, <4>2, <3>2, CpuAssumption, SmallRemainder
      <4> HIDE DEF operand
      <4> QED
        BY <4>1, <4>3, <3>1 DEF Signed
    <3>5. Cpu!Start(t) \in Nat /\ Cpu!Start(i + 1) \in Nat
      BY <2>1, <1>8
    <3> QED
      BY <3>4, <3>5, <2>3 DEF Landing
  <2> QED
    BY <2>2, <2>3, <1>11
<1> QED
  BY <1>4, <1>8, <1>10, <1>11, <1>12, <1>13 DEF Layout

\* The empty instructions before the instruction at an address end there: the
\* processor that branches to instruction t goes on at k.
LEMMA InstructionFacts ==
  ASSUME NEW n \in Nat, Layout(n), NEW t \in 1..(n + 1)
  PROVE  LET k == InstructionAt(Cpu!Start(t)) IN
         /\ k \in t..(n + 1)
         /\ Cpu!Start(k) = Cpu!Start(t)
         /\ \A j \in (k + 1)..(n + 1) : Cpu!Start(j) # Cpu!Start(t)
         /\ \A i \in t..(k - 1) : Cpu!Start(i + 1) = Cpu!Start(i) /\ i \notin BranchesAt
<1>1. /\ \A i \in 1..(n + 1) : Cpu!Start(i) \in Nat
      /\ \A i \in 1..n, j \in 1..(n + 1) : i < j => Cpu!Start(i) <= Cpu!Start(j)
      /\ \A i \in BranchesAt : Cpu!Start(i) < Cpu!Start(i + 1)
      /\ End = n + 1
  BY DEF Layout, End
<1> DEFINE a == Cpu!Start(t)
           Last(i) == Cpu!Start(i) = a /\ \A j \in (i + 1)..(n + 1) : Cpu!Start(j) # a
<1>2. \E i \in 1..(n + 1) : Last(i)
  <2> DEFINE Missing == {d \in 0..n : Cpu!Start(n + 1 - d) = a}
  <2>1. n + 1 - t \in Missing
    <3>1. n + 1 - (n + 1 - t) = t
      OBVIOUS
    <3> QED
      BY <3>1
  <2>2. Missing \subseteq Nat
    OBVIOUS
  <2>3. PICK d \in Missing : \A e \in Missing : d <= e
    BY <2>1, <2>2, LeastElement
  <2>4. n + 1 - d \in 1..(n + 1) /\ Cpu!Start(n + 1 - d) = a
    BY <2>3
  <2>5. ASSUME NEW j \in (n + 1 - d + 1)..(n + 1), Cpu!Start(j) = a
        PROVE  FALSE
    <3>1. n + 1 - j \in 0..n /\ n + 1 - (n + 1 - j) = j /\ n + 1 - j < d
      BY <2>4
    <3>2. n + 1 - j \in Missing
      BY <3>1, <2>5
    <3> QED
      BY <3>1, <3>2, <2>3
  <2> QED
    BY <2>4, <2>5
<1> DEFINE k == InstructionAt(a)
<1>3. k \in 1..(n + 1) /\ Last(k)
  <2>1. k = CHOOSE i \in 1..(n + 1) : Last(i)
    BY <1>1 DEF InstructionAt
  <2> HIDE DEF k, Last
  <2> QED
    BY <2>1, <1>2
<1> HIDE DEF k
<1>4. k >= t
  <2>1. CASE k < t
    <3>1. t \in (k + 1)..(n + 1)
      BY <2>1, <1>3
    <3> QED
      BY <3>1, <1>3
  <2> QED
    BY <2>1, <1>3
<1>5. ASSUME NEW i \in t..(k - 1)
      PROVE  Cpu!Start(i + 1) = Cpu!Start(i) /\ i \notin BranchesAt
  <2>1. i \in 1..n /\ i + 1 \in 1..(n + 1) /\ i < i + 1 /\ i < k
    BY <1>3
  <2>2. a <= Cpu!Start(i)
    <3>1. CASE i = t
      BY <3>1, <1>1
    <3>2. CASE i # t
      BY <3>2, <2>1, <1>1
    <3> QED
      BY <3>1, <3>2
  <2>3. Cpu!Start(i + 1) <= a
    <3>1. CASE i + 1 = k
      BY <3>1, <2>1, <1>1, <1>3
    <3>2. CASE i + 1 # k
      <4>1. i + 1 \in 1..n /\ i + 1 < k
        BY <3>2, <2>1, <1>3
      <4> QED
        BY <4>1, <1>1, <1>3
    <3> QED
      BY <3>1, <3>2
  <2>4. Cpu!Start(i) <= Cpu!Start(i + 1)
    BY <2>1, <1>1
  <2> HIDE DEF a
  <2>5. Cpu!Start(i) \in Nat /\ Cpu!Start(i + 1) \in Nat /\ a \in Nat
    BY <2>1, <1>1 DEF a
  <2>6. Cpu!Start(i + 1) = Cpu!Start(i)
    BY <2>2, <2>3, <2>4, <2>5
  <2> QED
    BY <2>5, <2>6, <1>1
<1> QED
  BY <1>3, <1>4, <1>5 DEF k

-----------------------------------------------------------------------------
(* What the processor runs.                                                *)

\* Where the processor goes from each instruction.
MachineFlow(truth) ==
  [i \in DOMAIN code |-> IF BranchesAway(truth, i) THEN InstructionAt(Landing(i)) ELSE i + 1]

\* The processor leaves the flat code's flow only over empty instructions, so
\* that it runs the same code.
LEMMA MachineRunsTheFlow ==
  ASSUME NEW n \in Nat, Layout(n), NEW instrs, code \in Seq(instrs), NEW truth, NEW S,
         GoesForward(ZirFlow(truth)), ClosedRun(S, ZirFlow(truth))
  PROVE  MachineRuns(truth) \cap Visible = S \cap Visible
<1> DEFINE zir == ZirFlow(truth)
           cpu == MachineFlow(truth)
           At(t) == InstructionAt(Cpu!Start(t))
<1>1. Len(code) = n /\ DOMAIN code = 1..n
  BY DEF Layout
<1>2. \A i \in 1..n : zir[i] = IF BranchesAway(truth, i) THEN i + code[i].offset ELSE i + 1
  BY <1>1 DEF ZirFlow
<1>3. \A i \in 1..n : cpu[i] = IF BranchesAway(truth, i) THEN InstructionAt(Landing(i)) ELSE i + 1
  BY <1>1 DEF MachineFlow
<1>4. DOMAIN cpu = 1..n /\ cpu = [i \in 1..n |-> cpu[i]]
  BY <1>1 DEF MachineFlow
<1>5. \A i \in 1..n : BranchesAway(truth, i) => i \in BranchesAt
  BY <1>1 DEF BranchesAway, BranchesAt
<1>6. \A i \in 1..n : zir[i] \in 1..(n + 1) /\ zir[i] > i
  BY <1>1 DEF GoesForward
<1> HIDE DEF zir, cpu
<1>7. \A t \in 1..(n + 1) :
        /\ At(t) \in t..(n + 1)
        /\ Cpu!Start(At(t)) = Cpu!Start(t)
        /\ \A j \in (At(t) + 1)..(n + 1) : Cpu!Start(j) # Cpu!Start(t)
        /\ \A i \in t..(At(t) - 1) : Cpu!Start(i + 1) = Cpu!Start(i) /\ i \notin BranchesAt
  BY InstructionFacts
<1>8. \A i \in 1..n : cpu[i] = IF BranchesAway(truth, i) THEN At(zir[i]) ELSE zir[i]
  BY <1>1, <1>2, <1>3, <1>5 DEF Layout
<1> HIDE DEF At
<1>9. \A i \in 1..n : cpu[i] \in 1..(n + 1) /\ cpu[i] > i
  <2> TAKE i \in 1..n
  <2>1. zir[i] \in 1..(n + 1) /\ zir[i] > i /\ At(zir[i]) \in zir[i]..(n + 1)
    BY <1>6, <1>7
  <2> QED
    BY <2>1, <1>8
<1>10. GoesForward(cpu)
  <2>1. cpu \in [1..n -> 1..(n + 1)]
    BY <1>4, <1>9
  <2> QED
    BY <2>1, <1>1, <1>9 DEF GoesForward
<1>11. PICK M : ClosedRun(M, cpu)
  BY <1>10, ClosedRunExists
<1>12. MachineRuns(truth) = M
  BY <1>10, <1>11, ExecutedIsClosed DEF MachineRuns, cpu, MachineFlow
<1>13. /\ M \subseteq 1..n /\ S \subseteq 1..n
       /\ \A i \in 1..n : i \in M <=> i = 1 \/ \E j \in M : cpu[j] = i
       /\ \A i \in 1..n : i \in S <=> i = 1 \/ \E j \in S : zir[j] = i
  BY <1>1, <1>11 DEF ClosedRun, zir
\* The source runs the empty instructions that the processor skips.
<1>14. ASSUME NEW t \in 1..n, t \in S, NEW k \in t..n, k <= At(t)
       PROVE  k \in S
  <2>1. ASSUME NEW i \in t..k, \A m \in t..(i - 1) : m \in S
        PROVE  i \in S
    <3>1. CASE i = t
      BY <3>1, <1>14
    <3>2. CASE i # t
      <4>1. i - 1 \in t..(i - 1) /\ i - 1 \in 1..n /\ i \in 1..n /\ (i - 1) + 1 = i
        BY <3>2
      <4>2. i - 1 \in t..(At(t) - 1)
        BY <4>1, <1>7, <1>14
      <4>3. i - 1 \notin BranchesAt
        BY <4>2, <1>7
      <4>4. zir[i - 1] = i
        BY <4>1, <4>3, <1>2, <1>5
      <4> QED
        BY <4>1, <4>4, <2>1, <1>13
    <3> QED
      BY <3>1, <3>2
  <2>2. t \in Nat /\ k \in Nat
    OBVIOUS
  <2>3. t..k \subseteq S
    BY <2>1, <2>2, UpwardInduction
  <2> QED
    BY <2>3
<1>15. M \subseteq S
  <2> DEFINE T == {i \in 1..n : i \in M => i \in S}
  <2>1. ASSUME NEW i \in 1..n, \A m \in 1..(i - 1) : m \in T
        PROVE  i \in T
    <3>1. SUFFICES ASSUME i \in M, i # 1
                   PROVE  i \in S
      BY <1>13
    <3>2. PICK j \in M : cpu[j] = i
      BY <3>1, <1>13
    <3>3. j \in 1..n /\ j < i
      BY <3>2, <1>9, <1>13
    <3>4. j \in S
      <4>1. j \in 1..(i - 1)
        BY <3>3
      <4> QED
        BY <4>1, <3>2, <2>1
    <3>5. zir[j] \in 1..(n + 1) /\ At(zir[j]) \in zir[j]..(n + 1)
      BY <3>3, <1>6, <1>7
    <3>6. zir[j] <= i /\ i <= At(zir[j])
      BY <3>2, <3>3, <3>5, <1>8
    <3>7. zir[j] \in 1..n
      BY <3>5, <3>6
    <3>8. zir[j] \in S
      BY <3>4, <3>7, <1>13
    <3> QED
      BY <3>6, <3>7, <3>8, <1>14
  <2>2. 1 \in Nat
    OBVIOUS
  <2> HIDE DEF T
  <2>3. 1..n \subseteq T
    BY <2>1, <2>2, UpwardInduction
  <2> QED
    BY <2>3, <1>13 DEF T
\* What the processor does not run of it are empty instructions on the way to
\* one that it runs, or to the end.
<1> DEFINE Skips(i) == At(i) > i /\ (At(i) \in M \/ At(i) = n + 1)
<1>16. ASSUME NEW i \in S
       PROVE  i \in M \/ Skips(i)
  <2> DEFINE T == {k \in 1..n : k \in S => k \in M \/ Skips(k)}
  <2>1. ASSUME NEW k \in 1..n, \A m \in 1..(k - 1) : m \in T
        PROVE  k \in T
    <3>1. SUFFICES ASSUME k \in S, k # 1
                   PROVE  k \in M \/ Skips(k)
      BY <1>13
    <3>2. PICK j \in S : zir[j] = k
      BY <3>1, <1>13
    <3>3. j \in 1..n /\ j < k
      BY <3>2, <1>6, <1>13
    <3>4. j \in M \/ Skips(j)
      <4>1. j \in 1..(k - 1)
        BY <3>3
      <4> QED
        BY <4>1, <3>2, <2>1
    <3>5. At(k) \in k..(n + 1)
      BY <1>7
    <3>6. CASE j \in M /\ ~BranchesAway(truth, j)
      BY <3>2, <3>3, <3>6, <1>8, <1>13
    <3>7. CASE j \in M /\ BranchesAway(truth, j)
      <4>1. cpu[j] = At(k)
        BY <3>2, <3>3, <3>7, <1>8
      <4>2. At(k) \in M \/ At(k) = n + 1
        <5>1. At(k) = n + 1 \/ At(k) \in 1..n
          BY <3>5
        <5> QED
          BY <5>1, <4>1, <3>7, <1>13
      <4>3. At(k) = k \/ At(k) > k
        BY <3>5
      <4> QED
        BY <4>2, <4>3, <3>1, <1>13
    <3>8. CASE Skips(j)
      <4>1. At(j) \in j..(n + 1) /\ At(j) > j
        BY <3>3, <3>8, <1>7
      <4>2. j \in j..(At(j) - 1)
        BY <4>1, <3>3
      <4>3. Cpu!Start(j + 1) = Cpu!Start(j) /\ j \notin BranchesAt
        BY <4>2, <3>3, <1>7
      <4>4. k = j + 1 /\ Cpu!Start(k) = Cpu!Start(j)
        BY <4>3, <3>2, <3>3, <1>2, <1>5
      <4>5. At(k) = At(j)
        BY <4>4 DEF At
      <4> QED
        BY <4>5, <3>5, <3>8, <3>1, <1>13
    <3> QED
      BY <3>4, <3>6, <3>7, <3>8
  <2>2. 1 \in Nat
    OBVIOUS
  <2> HIDE DEF T
  <2>3. 1..n \subseteq T
    BY <2>1, <2>2, UpwardInduction
  <2> QED
    BY <2>3, <1>13 DEF T
<1>17. ASSUME NEW i \in S, i \in Visible
       PROVE  i \in M
  <2>1. SUFFICES ASSUME At(i) > i
                 PROVE  FALSE
    BY <1>16
  <2>2. i \in 1..n /\ At(i) \in i..(n + 1)
    BY <1>7, <1>13
  <2>3. i \in i..(At(i) - 1) /\ i \in 1..(n + 1)
    BY <2>1, <2>2
  <2>4. Cpu!Start(i + 1) = Cpu!Start(i)
    BY <2>3, <1>7
  <2>5. Cpu!Start(i) \in Nat /\ Cpu!Start(i) < Cpu!Start(i + 1)
    BY <2>3, <1>17 DEF Layout, Visible
  <2> QED
    BY <2>4, <2>5
<1> QED
  BY <1>12, <1>15, <1>17

\* The machine code of a compiled program, with branches that fit their
\* operands, runs what the nested ifs of the source select.
THEOREM MachineCodeFollowsSource == Spec => []MachineFollowsSource
<1>1. ASSUME LoweringIInv
      PROVE  MachineFollowsSource
  <2>1. SUFFICES ASSUME Compiled, Expressible
                 PROVE  /\ \A i \in BranchesAt : LandsAhead(i)
                        /\ \A truth \in [Tests -> BOOLEAN] :
                             MachineRuns(truth) \cap Visible = SourceRuns(truth) \cap Visible
    BY DEF MachineFollowsSource
  <2>2. PICK n \in Nat : Layout(n)
    BY <1>1, <2>1, CompiledLayout
  <2>3. ZirTypeOK /\ BranchesOK /\ open = <<>>
    BY <1>1, <2>1 DEF LoweringIInv, ZirIInv, Compiled, HandedOn
  <2>4. \A i \in BranchesAt : LandsAhead(i)
    BY <2>2 DEF Layout, LandsAhead, End
  <2>5. ASSUME NEW truth \in [Tests -> BOOLEAN]
        PROVE  MachineRuns(truth) \cap Visible = SourceRuns(truth) \cap Visible
    <3>1. /\ GoesForward(ZirFlow(truth))
          /\ ClosedRun(SourceRuns(truth), ZirFlow(truth))
      BY <2>3, SelectedIsClosed
    <3>2. code \in Seq(ZirInstr)
      BY <2>3 DEF ZirTypeOK
    <3> QED
      BY <2>2, <3>1, <3>2, MachineRunsTheFlow
  <2> QED
    BY <2>4, <2>5
<1> QED
  BY <1>1, LoweringInvariance, PTL
=============================================================================

------------------------- MODULE ZirBranchesProofs -------------------------
(***************************************************************************)
(* Proofs about ZirBranches, for every nesting of if statements, every     *)
(* length of the code and every width of the offsets.                      *)
(***************************************************************************)
EXTENDS ZirBranches, LeastNumber, SequenceTheorems

-----------------------------------------------------------------------------
(* What runs, as a set that is closed under the flow of control.           *)

\* The instructions in S are the first one and those that one of S goes to.
ClosedRun(S, succ) ==
  /\ S \subseteq DOMAIN code
  /\ \A i \in DOMAIN code : i \in S <=> i = 1 \/ \E j \in S : succ[j] = i

\* Every instruction goes forward, at most to the end.
GoesForward(succ) ==
  /\ succ \in [DOMAIN code -> 1..(Len(code) + 1)]
  /\ \A i \in DOMAIN code : succ[i] > i

\* Code whose flow only goes forward runs the set that is closed under that flow.
LEMMA ExecutedIsClosed ==
  ASSUME NEW instrs, code \in Seq(instrs), NEW succ, GoesForward(succ),
         NEW S, ClosedRun(S, succ)
  PROVE  Executed(succ) = S
<1> DEFINE end == Len(code) + 1
           Flow(f, i) == IF i > Len(code) THEN {} ELSE {i} \cup f[succ[i]]
           from[i \in 1..end] == Flow(from, i)
<1>1. Executed(succ) = from[1]
  BY DEF Executed
<1>2. Len(code) \in Nat /\ DOMAIN code = 1..Len(code)
  OBVIOUS
<1>3. \A i \in 1..end : from[i] = Flow(from, i)
  <2> DEFINE Onward(C) == \A j \in C : j \in DOMAIN code => succ[j] \in C
             Reach(i) == {k \in 1..end : \A C \in SUBSET (1..end) :
                            i \in C /\ Onward(C) => k \in C}
             runs == [i \in 1..end |-> Reach(i) \ {end}]
  <2>1. ASSUME NEW i \in DOMAIN code
        PROVE  Reach(i) = {i} \cup Reach(succ[i])
    <3>1. succ[i] \in 1..end /\ i \in 1..end
      BY <1>2 DEF GoesForward
    <3>2. Reach(succ[i]) \subseteq Reach(i) /\ i \in Reach(i)
      BY <3>1
    <3>3. ASSUME NEW k \in Reach(i)
          PROVE  k \in {i} \cup Reach(succ[i])
      <4> DEFINE C == {i} \cup Reach(succ[i])
      <4>1. succ[i] \in Reach(succ[i])
        BY <3>1
      <4>2. Onward(Reach(succ[i]))
        BY <1>2 DEF GoesForward
      <4>3. C \in SUBSET (1..end) /\ i \in C /\ Onward(C)
        BY <3>1, <4>1, <4>2
      <4> HIDE DEF C
      <4>4. k \in C
        BY <3>3, <4>3
      <4> QED
        BY <4>4 DEF C
    <3> QED
      BY <3>2, <3>3
  <2>2. Reach(end) = {end}
    <3>1. {end} \in SUBSET (1..end) /\ Onward({end})
      BY <1>2
    <3> QED
      BY <3>1, <1>2
  <2> HIDE DEF Reach
  <2>3. ASSUME NEW i \in 1..end
        PROVE  runs[i] = Flow(runs, i)
    <3>1. CASE i = end
      BY <3>1, <2>2, <1>2
    <3>2. CASE i \in DOMAIN code
      <4>1. i # end /\ succ[i] \in 1..end /\ ~(i > Len(code))
        BY <3>2, <1>2 DEF GoesForward
      <4>2. runs[i] = ({i} \cup Reach(succ[i])) \ {end}
        BY <2>1, <3>2
      <4>3. runs[succ[i]] = Reach(succ[i]) \ {end}
        BY <4>1
      <4> QED
        BY <4>1, <4>2, <4>3
    <3> QED
      BY <3>1, <3>2, <1>2
  <2> HIDE DEF runs
  <2>4. DOMAIN runs = 1..end
    BY DEF runs
  <2>5. [i \in 1..end |-> Flow(runs, i)] = runs
    BY <2>3, <2>4 DEF runs
  <2>6. \E f : f = [i \in 1..end |-> Flow(f, i)]
    BY <2>5
  <2>7. from = [i \in 1..end |-> Flow(from, i)]
    BY <2>6
  <2> QED
    BY <2>7
<1> HIDE DEF from
<1>4. from[end] = {}
  <2>1. end \in 1..end /\ end > Len(code)
    BY <1>2
  <2> QED
    BY <1>3, <2>1
<1>5. ASSUME NEW i \in DOMAIN code
      PROVE  /\ from[i] = {i} \cup from[succ[i]]
             /\ succ[i] \in 1..end /\ succ[i] > i
  <2>1. i \in 1..end /\ ~(i > Len(code))
    BY <1>2
  <2> QED
    BY <1>3, <2>1 DEF GoesForward
<1> HIDE DEF Flow
\* Nothing outside S runs: what runs from an element of S on is in S.
<1>6. ASSUME 1 \in DOMAIN code
      PROVE  from[1] \subseteq S
  <2> DEFINE Inside == {i \in 1..end : (i \in S \/ i = end) => from[i] \subseteq S}
  <2>1. ASSUME NEW i \in 1..end, \A k \in (i + 1)..end : k \in Inside
        PROVE  i \in Inside
    <3>1. CASE i = end
      BY <3>1, <1>4
    <3>2. CASE i \in S
      <4>1. i \in DOMAIN code
        BY <3>2 DEF ClosedRun
      <4>2. succ[i] \in (i + 1)..end /\ (succ[i] \in S \/ succ[i] = end)
        BY <4>1, <3>2, <1>2, <1>5 DEF ClosedRun
      <4>3. from[succ[i]] \subseteq S
        BY <2>1, <4>2
      <4> QED
        BY <4>1, <4>3, <3>2, <1>5
    <3> QED
      BY <3>1, <3>2
  <2>2. 1 \in Nat /\ end \in Nat
    BY <1>2
  <2> HIDE DEF Inside
  <2>3. 1..end \subseteq Inside
    BY <2>1, <2>2, DownwardInduction
  <2>4. 1 \in S /\ 1 \in 1..end
    BY <1>2, <1>6 DEF ClosedRun
  <2> QED
    BY <2>3, <2>4 DEF Inside
\* All of S runs: an element of S, and what runs from it on, runs.
<1>7. S \subseteq from[1]
  <2> DEFINE Runs == {i \in 1..Len(code) : i \in S => i \in from[1] /\ from[i] \subseteq from[1]}
  <2>1. ASSUME NEW i \in 1..Len(code), \A k \in 1..(i - 1) : k \in Runs
        PROVE  i \in Runs
    <3>1. CASE i = 1
      BY <3>1, <1>5, <1>2
    <3>2. CASE i \in S /\ i # 1
      <4>1. PICK j \in S : succ[j] = i
        BY <3>2, <1>2 DEF ClosedRun
      <4>2. j \in DOMAIN code /\ j \in 1..(i - 1)
        BY <4>1, <1>2, <1>5 DEF ClosedRun
      <4>3. from[j] \subseteq from[1] /\ from[j] = {j} \cup from[i]
        BY <2>1, <4>1, <4>2, <1>5
      <4>4. i \in from[i]
        BY <1>2, <1>5
      <4> QED
        BY <4>3, <4>4
    <3> QED
      BY <3>1, <3>2
  <2>2. 1 \in Nat /\ Len(code) \in Nat
    BY <1>2
  <2> HIDE DEF Runs
  <2>3. 1..Len(code) \subseteq Runs
    BY <2>1, <2>2, UpwardInduction
  <2> QED
    BY <2>3, <1>2 DEF Runs, ClosedRun
<1>8. CASE 1 \in DOMAIN code
  BY <1>1, <1>6, <1>7, <1>8
<1>9. CASE 1 \notin DOMAIN code
  <2>1. end = 1 /\ S = {}
    BY <1>9, <1>2 DEF ClosedRun
  <2> QED
    BY <2>1, <1>1, <1>4
<1> QED
  BY <1>8, <1>9
-----------------------------------------------------------------------------
(* The inductive invariant.  It describes the code while it is generated,  *)
(* as long as no jump was unaddressable.  T is a set of instructions: the  *)
(* tests among them are taken to come out true, the others false.          *)

\* Does the source run what is enclosed by the branches `under`?
Holds(T, under) ==
  \A k \in DOMAIN under : under[k].test \in T <=> under[k].branch = "then"

\* The branches that enclose instruction i in the source; those of the next one
\* are the ones being visited.
Under(i) == IF i \in DOMAIN code THEN code[i].under ELSE Enclosing

\* Does the source run instruction i?
Alive(T, i) == Holds(T, Under(i))

\* Where the flat code goes from instruction i.
Follows(T, i) ==
  IF code[i].op = "jump" \/ (code[i].op = "if_false" /\ i \notin T)
  THEN i + code[i].offset ELSE i + 1

\* Does the flat code get to instruction i?
Reaches(T, i) == i = 1 \/ \E j \in 1..(i - 1) : Alive(T, j) /\ Follows(T, j) = i

\* `under` begins with what encloses the k-th open if.
Outside(k, under) ==
  \A m \in 1..(k - 1) : under[m].test = open[m].test /\ under[m].branch = open[m].branch

\* The if_false of an open if lies in the branches that enclose the if, the jump
\* out of its then branch lies in that branch, and the one of the two that is to
\* be patched has no offset.
OpenIfOK(k) ==
  LET test == open[k].test
      exit == open[k].exit
  IN  /\ test \in Tests /\ Outside(k, code[test].under) /\ Len(code[test].under) = k - 1
      /\ open[k].branch = "then" => code[test].offset = 0
      /\ open[k].branch = "else" =>
           /\ exit \in DOMAIN code /\ code[exit].op = "jump" /\ code[exit].offset = 0
           /\ Outside(k, code[exit].under) /\ Len(code[exit].under) = k
           /\ code[exit].under[k].test = test /\ code[exit].under[k].branch = "then"

OpenOK == \A k \in DOMAIN open : OpenIfOK(k)

\* Every other branch leads forward.
PatchedOK ==
  \A i \in DOMAIN code :
    code[i].op # "plain" /\ ~Waiting(i) => code[i].offset > 0 /\ i + code[i].offset <= Len(code) + 1

\* What encloses an instruction is named by an if_false.
UnderOK == \A i \in DOMAIN code : \A k \in DOMAIN code[i].under : code[i].under[k].test \in Tests

\* The source runs an instruction if and only if the code so far gets there.
FlowOK ==
  \A T \in SUBSET Nat : \A i \in 1..(Len(code) + 1) : Alive(T, i) <=> Reaches(T, i)

BranchesOK == OpenOK /\ PatchedOK /\ UnderOK /\ FlowOK

ZirIInv ==
  /\ ZirTypeOK
  /\ generated => open = <<>>
  /\ errors = 0 => BranchesOK
-----------------------------------------------------------------------------
(* Facts about what the actions compute.                                   *)

\* An offset is a number, and one that fits its width is the distance itself.
LEMMA OffsetFacts ==
  ASSUME NEW branch \in Nat, NEW ip \in Nat
  PROVE  /\ OffsetFrom(branch, ip) \in Nat
         /\ branch <= ip /\ ip + 1 <= IpMax => OffsetFrom(branch, ip) = ip + 1 - branch
<1> DEFINE d == ip + 1 - branch
<1>1. IpMax + 1 \in Nat \ {0}
  BY BoundsAssumption
<1>2. d \in Int
  OBVIOUS
<1> HIDE DEF d
<1>3. d % (IpMax + 1) \in Nat
  BY <1>1, <1>2
<1>4. d \in Nat /\ d < IpMax + 1 => d % (IpMax + 1) = d
  BY <1>1, <1>2
<1>5. branch <= ip /\ ip + 1 <= IpMax => d \in Nat /\ d < IpMax + 1
  BY BoundsAssumption DEF d
<1> QED
  BY <1>3, <1>4, <1>5 DEF OffsetFrom, d

\* The branches that enclose the next instruction.
LEMMA EnclosingFacts ==
  ASSUME ZirTypeOK
  PROVE  /\ Enclosing \in Seq([test : Nat, branch : Branches])
         /\ Len(Enclosing) = Len(open)
         /\ \A k \in DOMAIN open : /\ Enclosing[k].test = open[k].test
                                  /\ Enclosing[k].branch = open[k].branch
<1> DEFINE entry(i) == [test |-> open[i].test, branch |-> open[i].branch]
           S == [test : Nat, branch : Branches]
<1>1. Len(open) \in Nat /\ DOMAIN open = 1..Len(open)
  BY DEF ZirTypeOK
<1>2. ASSUME NEW i \in DOMAIN open
      PROVE  entry(i) \in S /\ entry(i).test = open[i].test /\ entry(i).branch = open[i].branch
  <2>1. open[i] \in OpenIf
    BY DEF ZirTypeOK
  <2> QED
    BY <2>1 DEF OpenIf
<1>3. Enclosing = [i \in 1..Len(open) |-> entry(i)]
  BY <1>1 DEF Enclosing
<1> HIDE DEF entry, S
<1>4. Enclosing \in Seq(S) /\ Len(Enclosing) = Len(open)
  BY <1>1, <1>2, <1>3
<1> QED
  BY <1>1, <1>2, <1>3, <1>4 DEF S

\* An emitted instruction is added at the end.
LEMMA EmittedFacts ==
  ASSUME ZirTypeOK, NEW op \in {"plain", "if_false", "jump"}
  PROVE  /\ Emitted(op) \in Seq(ZirInstr)
         /\ Len(Emitted(op)) = Len(code) + 1
         /\ \A i \in DOMAIN code : Emitted(op)[i] = code[i]
         /\ Emitted(op)[Len(code) + 1] = [op |-> op, offset |-> 0, under |-> Enclosing]
<1> DEFINE new == [op |-> op, offset |-> 0, under |-> Enclosing]
<1>1. new \in ZirInstr
  BY EnclosingFacts DEF ZirInstr
<1> HIDE DEF new
<1> QED
  BY <1>1 DEF Emitted, ZirTypeOK, new

\* A patch changes the offset of one instruction.
LEMMA PatchedFacts ==
  ASSUME NEW instrs \in Seq(ZirInstr), NEW branch \in Nat, NEW ip \in Nat
  PROVE  /\ Patched(instrs, branch, ip) \in Seq(ZirInstr)
         /\ Len(Patched(instrs, branch, ip)) = Len(instrs)
         /\ \A i \in DOMAIN instrs :
              /\ Patched(instrs, branch, ip)[i].op = instrs[i].op
              /\ Patched(instrs, branch, ip)[i].under = instrs[i].under
              /\ Patched(instrs, branch, ip)[i].offset =
                   IF i = branch THEN OffsetFrom(branch, ip) ELSE instrs[i].offset
<1> DEFINE offset == OffsetFrom(branch, ip)
           new == [instrs[branch] EXCEPT !.offset = offset]
<1>1. offset \in Nat
  BY OffsetFacts
<1> HIDE DEF offset
<1>2. CASE branch \in DOMAIN instrs
  <2>1. instrs[branch] \in ZirInstr
    BY <1>2
  <2>2. /\ new \in ZirInstr /\ new.offset = offset
        /\ new.op = instrs[branch].op /\ new.under = instrs[branch].under
    BY <1>1, <2>1 DEF ZirInstr
  <2>3. Patched(instrs, branch, ip) = [instrs EXCEPT ![branch] = new]
    BY DEF Patched, offset
  <2> HIDE DEF new
  <2>4. /\ Patched(instrs, branch, ip) \in Seq(ZirInstr)
        /\ Len(Patched(instrs, branch, ip)) = Len(instrs)
        /\ \A i \in DOMAIN instrs :
             Patched(instrs, branch, ip)[i] = IF i = branch THEN new ELSE instrs[i]
    BY <1>2, <2>2, <2>3
  <2> QED
    BY <2>2, <2>4 DEF offset
<1>3. CASE branch \notin DOMAIN instrs
  <2>1. Patched(instrs, branch, ip) = [i \in DOMAIN instrs |-> instrs[i]]
    BY <1>3 DEF Patched
  <2>2. Patched(instrs, branch, ip) = instrs
    BY <2>1
  <2> QED
    BY <1>3, <2>2
<1> QED
  BY <1>2, <1>3

\* The innermost if is added to the open ones and taken off them.
LEMMA OpenFacts ==
  ASSUME ZirTypeOK
  PROVE  /\ \A o \in OpenIf : /\ Append(open, o) \in Seq(OpenIf)
                             /\ Len(Append(open, o)) = Len(open) + 1
                             /\ \A k \in DOMAIN open : Append(open, o)[k] = open[k]
                             /\ Append(open, o)[Len(open) + 1] = o
         /\ open # <<>> => /\ Top \in OpenIf /\ Len(open) \in DOMAIN open
                           /\ Popped \in Seq(OpenIf) /\ Len(Popped) = Len(open) - 1
                           /\ \A k \in DOMAIN Popped : Popped[k] = open[k]
                           /\ \A o \in OpenIf :
                                /\ Append(Popped, o) \in Seq(OpenIf)
                                /\ Len(Append(Popped, o)) = Len(open)
                                /\ \A k \in 1..(Len(open) - 1) : Append(Popped, o)[k] = open[k]
                                /\ Append(Popped, o)[Len(open)] = o
<1>1. open \in Seq(OpenIf)
  BY DEF ZirTypeOK
<1>2. ASSUME open # <<>>
      PROVE  /\ Top \in OpenIf /\ Len(open) \in DOMAIN open
             /\ Popped \in Seq(OpenIf) /\ Len(Popped) = Len(open) - 1
             /\ \A k \in DOMAIN Popped : Popped[k] = open[k]
  <2>1. Len(open) \in 1..Len(open) /\ DOMAIN open = 1..Len(open)
    BY <1>1, <1>2
  <2>2. open[Len(open)] \in OpenIf
    BY <1>1, <2>1, ElementOfSeq
  <2>3. /\ Popped \in Seq(OpenIf) /\ Len(Popped) = Len(open) - 1
        /\ \A k \in 1..(Len(open) - 1) : Popped[k] = open[k]
    BY <1>1, <2>1 DEF Popped
  <2> QED
    BY <2>1, <2>2, <2>3 DEF Top
<1> HIDE DEF Top, Popped
<1>3. \A o \in OpenIf : /\ Append(open, o) \in Seq(OpenIf)
                       /\ Len(Append(open, o)) = Len(open) + 1
                       /\ \A k \in DOMAIN open : Append(open, o)[k] = open[k]
                       /\ Append(open, o)[Len(open) + 1] = o
  BY <1>1
<1>4. ASSUME open # <<>>, NEW o \in OpenIf
      PROVE  /\ Append(Popped, o) \in Seq(OpenIf)
             /\ Len(Append(Popped, o)) = Len(open)
             /\ \A k \in 1..(Len(open) - 1) : Append(Popped, o)[k] = open[k]
             /\ Append(Popped, o)[Len(open)] = o
  <2>1. Len(open) \in Nat
    BY <1>1
  <2>2. Popped \in Seq(OpenIf) /\ Len(Popped) + 1 = Len(open)
    BY <1>2, <1>4, <2>1
  <2>3. \A k \in 1..(Len(open) - 1) : k \in DOMAIN Popped /\ Popped[k] = open[k]
    BY <1>2, <1>4, <2>1, <2>2
  <2> QED
    BY <2>1, <2>2, <2>3
<1> QED
  BY <1>2, <1>3, <1>4

\* An open if whose then branch is left for an else branch.
LEMMA ElseFacts ==
  ASSUME NEW o \in OpenIf, NEW exit \in Nat
  PROVE  LET left == [o EXCEPT !.exit = exit, !.branch = "else"] IN
         /\ left \in OpenIf
         /\ left.test = o.test /\ left.exit = exit /\ left.branch = "else"
  BY DEF OpenIf, Branches
-----------------------------------------------------------------------------
(* Types.                                                                  *)

\* Every step keeps the code and the open ifs well formed.
LEMMA TypeStep ==
  ASSUME ZirTypeOK, [ZirNext]_zirVars
  PROVE  ZirTypeOK'
<1>1. Len(code) \in Nat /\ errors \in Nat /\ errors + 1 \in Nat /\ code \in Seq(ZirInstr)
  BY DEF ZirTypeOK
<1>2. CASE EmitPlain
  BY <1>1, <1>2, EmittedFacts DEF EmitPlain, ZirTypeOK
<1>3. CASE EnterIf
  <2>1. [test |-> Ip + 1, exit |-> NoBranch, branch |-> "then"] \in OpenIf
    BY <1>1 DEF OpenIf, NoBranch, Branches, Ip
  <2> QED
    BY <1>1, <1>3, <2>1, EmittedFacts, OpenFacts DEF EnterIf, ZirTypeOK
<1>4. CASE LeaveThen
  <2>1. Top.test \in Nat
    BY <1>4, OpenFacts DEF LeaveThen, OpenIf
  <2> QED
    BY <1>1, <1>4, <2>1, PatchedFacts, OpenFacts DEF LeaveThen, ZirTypeOK, Ip
<1>5. CASE EnterElse
  <2>1. /\ Top.test \in Nat
        /\ [Top EXCEPT !.exit = Ip + 1, !.branch = "else"] \in OpenIf
    <3>1. Top \in OpenIf /\ Ip + 1 \in Nat
      BY <1>1, <1>5, OpenFacts DEF EnterElse, Ip
    <3> HIDE DEF Top
    <3> QED
      BY <3>1, ElseFacts DEF OpenIf
  <2>2. Patched(Emitted("jump"), Top.test, Ip + 1) \in Seq(ZirInstr) /\ Emitted("jump") \in Seq(ZirInstr)
    <3>1. Emitted("jump") \in Seq(ZirInstr) /\ Ip + 1 \in Nat
      BY <1>1, EmittedFacts DEF Ip
    <3> QED
      BY <2>1, <3>1, PatchedFacts
  <2> QED
    BY <1>1, <1>5, <2>1, <2>2, OpenFacts DEF EnterElse, ZirTypeOK
<1>6. CASE LeaveElse
  <2>1. Top.exit \in Nat
    BY <1>6, OpenFacts DEF LeaveElse, OpenIf
  <2> QED
    BY <1>1, <1>6, <2>1, PatchedFacts, OpenFacts DEF LeaveElse, ZirTypeOK, Ip
<1>7. CASE Generate
  BY <1>7 DEF Generate, ZirTypeOK
<1>8. CASE UNCHANGED zirVars
  BY <1>8 DEF zirVars, ZirTypeOK
<1> QED
  BY <1>2, <1>3, <1>4, <1>5, <1>6, <1>7, <1>8 DEF ZirNext

\* The block, the stack of open if statements and the count of errors keep
\* their shape; an offset is never negative, whatever it wraps around.
THEOREM ZirTypeCorrect == ZirSpec => []ZirTypeOK
<1>1. ZirInit => ZirTypeOK
  <2>1. <<>> \in Seq(ZirInstr) /\ <<>> \in Seq(OpenIf)
    BY EmptySeq
  <2> SUFFICES ASSUME ZirInit
               PROVE  ZirTypeOK
    OBVIOUS
  <2>2. code \in Seq(ZirInstr) /\ open \in Seq(OpenIf)
    BY <2>1 DEF ZirInit
  <2>3. errors \in Nat /\ generated \in BOOLEAN
    BY DEF ZirInit
  <2> QED
    BY <2>2, <2>3 DEF ZirTypeOK
<1>2. ZirTypeOK /\ [ZirNext]_zirVars => ZirTypeOK'
  BY TypeStep
<1> QED
  BY <1>1, <1>2, PTL DEF ZirSpec
-----------------------------------------------------------------------------
(* Facts about the invariant.                                              *)

\* The parts of a well-typed state.
LEMMA Parts ==
  ASSUME ZirTypeOK
  PROVE  /\ Len(code) \in Nat /\ DOMAIN code = 1..Len(code)
         /\ Len(open) \in Nat /\ DOMAIN open = 1..Len(open)
         /\ errors \in Nat
         /\ \A i \in DOMAIN code :
              /\ code[i].op \in {"plain", "if_false", "jump"} /\ code[i].offset \in Nat
              /\ Len(code[i].under) \in Nat /\ DOMAIN code[i].under = 1..Len(code[i].under)
              /\ \A k \in DOMAIN code[i].under : code[i].under[k].test \in Nat
         /\ \A k \in DOMAIN open :
              open[k].test \in Nat /\ open[k].exit \in Nat /\ open[k].branch \in {"then", "else"}
<1>1. /\ code \in Seq(ZirInstr) /\ open \in Seq(OpenIf) /\ errors \in Nat
  BY DEF ZirTypeOK
<1>2. ASSUME NEW i \in DOMAIN code
      PROVE  /\ code[i].op \in {"plain", "if_false", "jump"} /\ code[i].offset \in Nat
             /\ Len(code[i].under) \in Nat /\ DOMAIN code[i].under = 1..Len(code[i].under)
             /\ \A k \in DOMAIN code[i].under : code[i].under[k].test \in Nat
  <2>1. code[i] \in ZirInstr
    BY <1>1
  <2>2. code[i].under \in Seq([test : Nat, branch : Branches])
    BY <2>1 DEF ZirInstr
  <2>3. code[i].op \in {"plain", "if_false", "jump"} /\ code[i].offset \in Nat
    BY <2>1 DEF ZirInstr
  <2> DEFINE under == code[i].under
             S == [test : Nat, branch : Branches]
  <2>4. under \in Seq(S)
    BY <2>2
  <2> HIDE DEF under, S
  <2>5. Len(under) \in Nat /\ DOMAIN under = 1..Len(under)
    BY <2>4
  <2>6. ASSUME NEW k \in DOMAIN under
        PROVE  under[k].test \in Nat
    <3>1. under[k] \in S
      BY <2>4, <2>5, ElementOfSeq
    <3> QED
      BY <3>1 DEF S
  <2> QED
    BY <2>3, <2>5, <2>6 DEF under
<1>3. ASSUME NEW k \in DOMAIN open
      PROVE  open[k].test \in Nat /\ open[k].exit \in Nat /\ open[k].branch \in {"then", "else"}
  <2>1. open[k] \in OpenIf
    BY <1>1
  <2> QED
    BY <2>1 DEF OpenIf, Branches
<1> QED
  BY <1>1, <1>2, <1>3

\* The code so far goes no further than to the next instruction.
LEMMA FollowsBound ==
  ASSUME ZirTypeOK, OpenOK, PatchedOK, NEW T \in SUBSET Nat, NEW j \in DOMAIN code
  PROVE  /\ Follows(T, j) \in Nat /\ Follows(T, j) <= Len(code) + 1
         /\ Waiting(j) => code[j].offset = 0
<1>1. Waiting(j) => code[j].offset = 0
  BY Parts DEF Waiting, Awaits, OpenOK, OpenIfOK
<1> QED
  BY <1>1, Parts DEF PatchedOK, Follows

\* Instructions keep their place in the flow when what encloses them stays and
\* the branches that change do not go to any of them.
LEMMA FlowKept ==
  ASSUME FlowOK, NEW T \in SUBSET Nat, NEW m \in 0..(Len(code) + 1), Len(code) \in Nat,
         \A i \in 1..m : Alive(T, i)' <=> Alive(T, i),
         \A i \in 1..m : \A j \in 1..(i - 1) : Follows(T, j)' = i <=> Follows(T, j) = i
  PROVE  \A i \in 1..m : Alive(T, i)' <=> Reaches(T, i)'
<1> SUFFICES ASSUME NEW i \in 1..m
             PROVE  Alive(T, i)' <=> Reaches(T, i)'
  OBVIOUS
<1>1. Alive(T, i) <=> Reaches(T, i)
  BY DEF FlowOK
<1>2. \A j \in 1..(i - 1) : j \in 1..m
  OBVIOUS
<1>3. Reaches(T, i)' <=> Reaches(T, i)
  BY <1>2 DEF Reaches
<1> QED
  BY <1>1, <1>3
-----------------------------------------------------------------------------
(* Each action keeps the invariant.                                        *)

\* An instruction was added at the end: what the others are, where they lie.
LEMMA AddedFacts ==
  ASSUME ZirTypeOK, NEW op \in {"plain", "if_false", "jump"}, code' = Emitted(op)
  PROVE  /\ Len(code') = Len(code) + 1 /\ DOMAIN code' = 1..(Len(code) + 1)
         /\ \A i \in DOMAIN code : code'[i] = code[i]
         /\ LET new == code'[Len(code) + 1] IN
            /\ new.op = op /\ new.offset = 0 /\ new.under = Enclosing
         /\ \A i \in 1..(Len(code) + 1) : Under(i)' = Under(i)
<1>1. /\ Len(code') = Len(code) + 1
      /\ \A i \in DOMAIN code : code'[i] = code[i]
      /\ code'[Len(code) + 1] = [op |-> op, offset |-> 0, under |-> Enclosing]
      /\ code' \in Seq(ZirInstr)
  BY EmittedFacts
<1>2. DOMAIN code' = 1..(Len(code) + 1)
  BY <1>1, Parts
<1>3. Len(code) + 1 \notin DOMAIN code
  BY Parts
<1>4. \A i \in 1..(Len(code) + 1) : Under(i)' = Under(i)
  BY <1>1, <1>2, <1>3, Parts DEF Under
<1> QED
  BY <1>1, <1>2, <1>4

\* The branches that enclose the next instruction are named by if_falses.
LEMMA EnclosingTests ==
  ASSUME ZirTypeOK, OpenOK
  PROVE  \A k \in DOMAIN Enclosing : Enclosing[k].test \in Tests
<1> SUFFICES ASSUME NEW k \in DOMAIN Enclosing
             PROVE  Enclosing[k].test \in Tests
  OBVIOUS
<1>1. k \in DOMAIN open
  BY DEF Enclosing
<1>2. Enclosing[k].test = open[k].test
  BY <1>1, EnclosingFacts
<1>3. OpenIfOK(k)
  BY <1>1 DEF OpenOK
<1> QED
  BY <1>2, <1>3 DEF OpenIfOK

\* An open if is not affected by a step that leaves its instructions alone.
LEMMA OpenIfKept ==
  ASSUME NEW k \in DOMAIN open, OpenIfOK(k),
         DOMAIN code \subseteq DOMAIN code',
         \A i \in DOMAIN code : code'[i].op = code[i].op /\ code'[i].under = code[i].under,
         k \in Nat \ {0}, \A m \in 1..k : open'[m] = open[m],
         code'[open[k].test].offset = code[open[k].test].offset,
         open[k].branch = "else" => code'[open[k].exit].offset = code[open[k].exit].offset
  PROVE  OpenIfOK(k)'
<1> DEFINE test == open[k].test
           exit == open[k].exit
<1>1. /\ test \in Tests /\ Outside(k, code[test].under) /\ Len(code[test].under) = k - 1
      /\ open[k].branch = "then" => code[test].offset = 0
      /\ open[k].branch = "else" =>
           /\ exit \in DOMAIN code /\ code[exit].op = "jump" /\ code[exit].offset = 0
           /\ Outside(k, code[exit].under) /\ Len(code[exit].under) = k
           /\ code[exit].under[k].test = test /\ code[exit].under[k].branch = "then"
  BY DEF OpenIfOK
<1>2. open'[k] = open[k]
  OBVIOUS
<1>3. \A under : Outside(k, under) => Outside(k, under)'
  BY DEF Outside
<1>4. test \in DOMAIN code /\ test \in Tests'
  BY <1>1 DEF Tests
<1> QED
  BY <1>1, <1>2, <1>3, <1>4 DEF OpenIfOK

\* A declaration or a cast keeps the invariant.
LEMMA EmitPlainKeeps ==
  ASSUME ZirTypeOK, BranchesOK, EmitPlain
  PROVE  BranchesOK'
<1> PICK n \in Nat : n = Len(code)
  BY Parts
<1>1. /\ code' = Emitted("plain") /\ open' = open
      /\ n \in Nat /\ DOMAIN code = 1..n
  BY Parts DEF EmitPlain
<1>2. /\ Len(code') = n + 1 /\ DOMAIN code' = 1..(n + 1)
      /\ \A i \in DOMAIN code : code'[i] = code[i]
      /\ code'[n + 1].op = "plain" /\ code'[n + 1].under = Enclosing
      /\ \A i \in 1..(n + 1) : Under(i)' = Under(i)
  BY <1>1, AddedFacts
<1>3. Tests \subseteq Tests'
  BY <1>1, <1>2 DEF Tests
<1>4. OpenOK'
  <2> SUFFICES ASSUME NEW k \in DOMAIN open
               PROVE  OpenIfOK(k)'
    BY <1>1 DEF OpenOK
  <2>1. OpenIfOK(k)
    BY DEF BranchesOK, OpenOK
  <2> QED
    <3>1. k \in Nat \ {0} /\ \A m \in 1..k : open'[m] = open[m]
      BY <1>1, Parts
    <3>2. /\ DOMAIN code \subseteq DOMAIN code' /\ open[k].test \in DOMAIN code
          /\ open[k].branch = "else" => open[k].exit \in DOMAIN code
      BY <1>1, <1>2, <2>1 DEF OpenIfOK, Tests
    <3> QED
      BY <2>1, <3>1, <3>2, <1>2, OpenIfKept
<1>5. PatchedOK'
  BY <1>1, <1>2, Parts DEF BranchesOK, PatchedOK, Waiting
<1>6. UnderOK'
  <2>1. \A k \in DOMAIN Enclosing : Enclosing[k].test \in Tests
    BY EnclosingTests DEF BranchesOK
  <2> QED
    BY <2>1, <1>1, <1>2, <1>3 DEF BranchesOK, UnderOK
<1>7. FlowOK'
  <2> SUFFICES ASSUME NEW T \in SUBSET Nat, NEW i \in 1..(n + 2)
               PROVE  Alive(T, i)' <=> Reaches(T, i)'
    BY <1>1, <1>2 DEF FlowOK
  <2>1. \A j \in 1..(n + 1) : Alive(T, j)' <=> Alive(T, j)
    BY <1>2 DEF Alive
  <2>2. \A j \in 1..n : Follows(T, j)' = Follows(T, j) /\ Follows(T, j) < n + 2
    BY <1>1, <1>2, FollowsBound DEF Follows, BranchesOK
  <2>3. Follows(T, n + 1)' = n + 2
    BY <1>1, <1>2 DEF Follows
  <2>4. CASE i \in 1..(n + 1)
    <3>1. \A j \in 1..(n + 1) : \A h \in 1..(j - 1) : Follows(T, h)' = j <=> Follows(T, h) = j
      BY <1>1, <2>2
    <3> QED
      BY <1>1, <2>1, <2>4, <3>1, FlowKept DEF BranchesOK
  <2>5. CASE i = n + 2
    <3>1. Alive(T, n + 2)' <=> Alive(T, n + 1)
      <4>1. n + 2 \notin DOMAIN code' /\ n + 1 \notin DOMAIN code
        BY <1>1, <1>2
      <4>2. Under(n + 2)' = Enclosing /\ Under(n + 1) = Enclosing
        BY <1>1, <4>1 DEF Under, Enclosing
      <4> QED
        BY <4>2 DEF Alive
    <3>2. Reaches(T, n + 2)' <=> Alive(T, n + 1)'
      BY <1>1, <2>2, <2>3 DEF Reaches
    <3> QED
      BY <1>1, <2>1, <2>5, <3>1, <3>2
  <2> QED
    BY <1>1, <2>4, <2>5
<1> QED
  BY <1>4, <1>5, <1>6, <1>7 DEF BranchesOK

\* An if_false that is reached by the offsets keeps the invariant.
LEMMA EnterIfKeeps ==
  ASSUME ZirTypeOK, BranchesOK, EnterIf, errors' = errors
  PROVE  BranchesOK'
<1> PICK n \in Nat : n = Len(code)
  BY Parts
<1> PICK d \in Nat : d = Len(open)
  BY Parts
<1>1. /\ code' = Emitted("if_false") /\ DOMAIN code = 1..n /\ DOMAIN open = 1..d
      /\ open' = Append(open, [test |-> n + 1, exit |-> NoBranch, branch |-> "then"])
  BY Parts DEF EnterIf, Ip
<1>2. /\ Len(code') = n + 1 /\ DOMAIN code' = 1..(n + 1)
      /\ \A i \in DOMAIN code : code'[i] = code[i]
      /\ code'[n + 1].op = "if_false" /\ code'[n + 1].under = Enclosing /\ code'[n + 1].offset = 0
      /\ \A i \in 1..(n + 1) : Under(i)' = Under(i)
  BY <1>1, AddedFacts
<1>3. /\ Len(open') = d + 1 /\ DOMAIN open' = 1..(d + 1)
      /\ \A k \in 1..d : open'[k] = open[k]
      /\ open'[d + 1].test = n + 1 /\ open'[d + 1].branch = "then"
  <2>1. [test |-> n + 1, exit |-> NoBranch, branch |-> "then"] \in OpenIf
    BY DEF OpenIf, NoBranch, Branches
  <2>2. /\ open' \in Seq(OpenIf) /\ Len(open') = d + 1
        /\ \A k \in 1..d : open'[k] = open[k]
        /\ open'[d + 1] = [test |-> n + 1, exit |-> NoBranch, branch |-> "then"]
    BY <1>1, <2>1, OpenFacts
  <2> QED
    BY <2>2
<1>4. /\ DOMAIN Enclosing = 1..d /\ Len(Enclosing) = d
      /\ \A k \in 1..d : /\ Enclosing[k].test = open[k].test
                         /\ Enclosing[k].branch = open[k].branch
  BY <1>1, EnclosingFacts DEF Enclosing
<1>5. Tests \subseteq Tests' /\ n + 1 \in Tests'
  BY <1>1, <1>2 DEF Tests
<1>6. OpenOK'
  <2>1. ASSUME NEW k \in 1..d
        PROVE  OpenIfOK(k)'
    <3>1. OpenIfOK(k)
      BY <1>1 DEF BranchesOK, OpenOK
    <3>2. k \in Nat \ {0} /\ \A m \in 1..k : open'[m] = open[m]
      BY <1>3
    <3>3. /\ DOMAIN code \subseteq DOMAIN code' /\ open[k].test \in DOMAIN code
          /\ open[k].branch = "else" => open[k].exit \in DOMAIN code
      BY <1>1, <1>2, <3>1 DEF OpenIfOK, Tests
    <3> QED
      BY <1>1, <1>2, <3>1, <3>2, <3>3, OpenIfKept
  <2>2. OpenIfOK(d + 1)'
    <3>1. \A m \in 1..d : /\ Enclosing[m].test = open'[m].test
                          /\ Enclosing[m].branch = open'[m].branch
      BY <1>3, <1>4
    <3>2. d + 1 - 1 = d
      OBVIOUS
    <3> QED
      BY <1>2, <1>3, <1>4, <1>5, <3>1, <3>2 DEF OpenIfOK, Outside
  <2> QED
    BY <1>3, <2>1, <2>2 DEF OpenOK
<1>7. PatchedOK'
  <2>1. \A i \in DOMAIN code : Waiting(i) => Waiting(i)'
    BY <1>1, <1>3 DEF Waiting, Awaits
  <2>2. Waiting(n + 1)'
    BY <1>3 DEF Waiting, Awaits
  <2> QED
    BY <1>1, <1>2, <2>1, <2>2, Parts DEF BranchesOK, PatchedOK
<1>8. UnderOK'
  <2>1. \A k \in DOMAIN Enclosing : Enclosing[k].test \in Tests
    BY EnclosingTests DEF BranchesOK
  <2> QED
    BY <2>1, <1>1, <1>2, <1>5 DEF BranchesOK, UnderOK
<1>9. FlowOK'
  <2> SUFFICES ASSUME NEW T \in SUBSET Nat, NEW i \in 1..(n + 2)
               PROVE  Alive(T, i)' <=> Reaches(T, i)'
    BY <1>1, <1>2 DEF FlowOK
  <2>1. \A j \in 1..(n + 1) : Alive(T, j)' <=> Alive(T, j)
    BY <1>2 DEF Alive
  <2>2. \A j \in 1..n : Follows(T, j)' = Follows(T, j) /\ Follows(T, j) < n + 2
    BY <1>1, <1>2, FollowsBound DEF Follows, BranchesOK
  <2>3. Follows(T, n + 1)' = IF n + 1 \in T THEN n + 2 ELSE n + 1
    BY <1>1, <1>2 DEF Follows
  <2>4. CASE i \in 1..(n + 1)
    <3>1. \A j \in 1..(n + 1) : \A h \in 1..(j - 1) : Follows(T, h)' = j <=> Follows(T, h) = j
      BY <1>1, <2>2
    <3> QED
      <4>1. n + 1 \in 0..(Len(code) + 1) /\ FlowOK
        BY DEF BranchesOK
      <4> QED
        BY <2>1, <2>4, <3>1, <4>1, FlowKept
  <2>5. CASE i = n + 2
    <3>1. Alive(T, n + 2)' <=> Alive(T, n + 1) /\ n + 1 \in T
      <4>1. n + 2 \notin DOMAIN code' /\ n + 1 \notin DOMAIN code
        BY <1>1, <1>2
      <4>2. Under(n + 2)' = Enclosing' /\ Under(n + 1) = Enclosing
        BY <4>1 DEF Under
      <4>3. /\ DOMAIN Enclosing' = 1..(d + 1)
            /\ \A k \in 1..(d + 1) : /\ Enclosing'[k].test = open'[k].test
                                     /\ Enclosing'[k].branch = open'[k].branch
        BY <1>3 DEF Enclosing
      <4>4. Holds(T, Enclosing') <=> Holds(T, Enclosing) /\ n + 1 \in T
        <5> DEFINE inner == Enclosing'
                   outer == Enclosing
        <5>1. /\ DOMAIN outer = 1..d /\ DOMAIN inner = 1..(d + 1)
              /\ inner[d + 1].test = n + 1 /\ inner[d + 1].branch = "then"
          BY <1>3, <1>4, <4>3
        <5>2. ASSUME NEW k \in 1..d
              PROVE  inner[k].test = outer[k].test /\ inner[k].branch = outer[k].branch
          <6>1. inner[k].test = open[k].test /\ inner[k].branch = open[k].branch
            BY <1>3, <4>3
          <6> QED
            BY <1>4, <6>1
        <5>3. 1..(d + 1) = (1..d) \cup {d + 1}
          OBVIOUS
        <5> HIDE DEF inner, outer
        <5>4. Holds(T, inner) <=> Holds(T, outer) /\ n + 1 \in T
          BY <5>1, <5>2, <5>3 DEF Holds
        <5> QED
          BY <5>4 DEF inner, outer
      <4>5. Alive(T, n + 2)' <=> Holds(T, Enclosing')
        BY <4>2 DEF Alive
      <4> QED
        BY <4>2, <4>4, <4>5 DEF Alive
    <3>2. Reaches(T, n + 2)' <=> Alive(T, n + 1)' /\ n + 1 \in T
      BY <1>1, <2>2, <2>3 DEF Reaches
    <3> QED
      BY <1>1, <2>1, <2>5, <3>1, <3>2
  <2> QED
    BY <1>1, <2>4, <2>5
<1> QED
  BY <1>6, <1>7, <1>8, <1>9 DEF BranchesOK

\* The branch instruction that the innermost open if waits to patch: the others
\* that wait are different from it.
LEMMA AwaitedFacts ==
  ASSUME ZirTypeOK, OpenOK, open # <<>>, NEW b, Awaits(open[Len(open)], b)
  PROVE  /\ Len(open) \in DOMAIN open
         /\ b \in DOMAIN code /\ code[b].op # "plain" /\ code[b].offset = 0
         /\ \A k \in 1..(Len(open) - 1) :
              open[k].test # b /\ (open[k].branch = "else" => open[k].exit # b)
<1> PICK d \in Nat : d = Len(open)
  BY Parts
<1>1. d \in DOMAIN open /\ DOMAIN open = 1..d /\ d \in Nat \ {0}
  <2>1. open \in Seq(OpenIf)
    BY DEF ZirTypeOK
  <2> QED
    BY <2>1, EmptySeq
<1>2. \A k \in 1..d : OpenIfOK(k)
  BY <1>1 DEF OpenOK
<1>3. \A k \in 1..d : open[k].branch \in {"then", "else"}
  BY <1>1, Parts
<1>4. CASE open[d].branch = "then"
  <2>1. /\ b = open[d].test /\ b \in DOMAIN code /\ code[b].op = "if_false"
        /\ code[b].offset = 0 /\ Len(code[b].under) = d - 1
    BY <1>1, <1>2, <1>4 DEF OpenIfOK, Awaits, Tests
  <2>2. ASSUME NEW k \in 1..(d - 1)
        PROVE  open[k].test # b /\ (open[k].branch = "else" => open[k].exit # b)
    <3>1. OpenIfOK(k) /\ k # d
      BY <1>1, <1>2
    <3> QED
      BY <2>1, <3>1, <1>1 DEF OpenIfOK
  <2> QED
    BY <1>1, <2>1, <2>2
<1>5. CASE open[d].branch = "else"
  <2>1. /\ b = open[d].exit /\ b \in DOMAIN code /\ code[b].op = "jump"
        /\ code[b].offset = 0 /\ Len(code[b].under) = d
    BY <1>1, <1>2, <1>5 DEF OpenIfOK, Awaits
  <2>2. ASSUME NEW k \in 1..(d - 1)
        PROVE  open[k].test # b /\ (open[k].branch = "else" => open[k].exit # b)
    <3>1. OpenIfOK(k) /\ k # d
      BY <1>1, <1>2
    <3> QED
      BY <2>1, <3>1, <1>1 DEF OpenIfOK, Tests
  <2> QED
    BY <1>1, <2>1, <2>2
<1> QED
  BY <1>1, <1>3, <1>4, <1>5

\* Leaving the innermost if, from its then branch or from its else branch, with
\* an offset that fits keeps the invariant.
LEMMA LeaveKeeps ==
  ASSUME ZirTypeOK, BranchesOK, open # <<>>, NEW b, Awaits(open[Len(open)], b),
         code' = Patched(code, b, Len(code)), open' = Popped, Len(code) + 1 <= IpMax
  PROVE  BranchesOK'
<1> PICK n \in Nat : n = Len(code)
  BY Parts
<1> PICK d \in Nat : d = Len(open)
  BY Parts
<1>1. /\ DOMAIN code = 1..n /\ DOMAIN open = 1..d /\ d \in 1..d
      /\ b \in 1..n /\ code[b].op # "plain" /\ code[b].offset = 0
      /\ \A k \in 1..(d - 1) : open[k].test # b /\ (open[k].branch = "else" => open[k].exit # b)
  BY Parts, AwaitedFacts DEF BranchesOK
<1>2. /\ Len(code') = n /\ DOMAIN code' = 1..n
      /\ \A i \in 1..n : /\ code'[i].op = code[i].op /\ code'[i].under = code[i].under
                         /\ i # b => code'[i].offset = code[i].offset
      /\ code'[b].offset = n + 1 - b
  <2>1. code \in Seq(ZirInstr) /\ b \in Nat
    BY <1>1 DEF ZirTypeOK
  <2>2. /\ code' \in Seq(ZirInstr) /\ Len(code') = n
        /\ \A i \in DOMAIN code :
             /\ code'[i].op = code[i].op /\ code'[i].under = code[i].under
             /\ code'[i].offset = IF i = b THEN OffsetFrom(b, n) ELSE code[i].offset
    BY <2>1, PatchedFacts
  <2>3. OffsetFrom(b, n) = n + 1 - b
    <3>1. b <= n /\ n + 1 <= IpMax
      BY <1>1
    <3> QED
      BY <2>1, <3>1, OffsetFacts
  <2> QED
    BY <1>1, <2>2, <2>3
<1>3. /\ Len(open') = d - 1 /\ DOMAIN open' = 1..(d - 1)
      /\ \A k \in 1..(d - 1) : open'[k] = open[k]
  <2>1. /\ open' \in Seq(OpenIf) /\ Len(open') = d - 1
        /\ \A k \in DOMAIN open' : open'[k] = open[k]
    BY OpenFacts
  <2> QED
    BY <2>1
<1>4. Tests' = Tests
  BY <1>1, <1>2 DEF Tests
<1>5. OpenOK'
  <2> SUFFICES ASSUME NEW k \in 1..(d - 1)
               PROVE  OpenIfOK(k)'
    BY <1>3 DEF OpenOK
  <2>1. OpenIfOK(k) /\ k \in DOMAIN open
    BY <1>1 DEF BranchesOK, OpenOK
  <2>2. k \in Nat \ {0} /\ \A m \in 1..k : open'[m] = open[m]
    BY <1>3
  <2>3. /\ DOMAIN code \subseteq DOMAIN code' /\ open[k].test \in DOMAIN code
        /\ open[k].branch = "else" => open[k].exit \in DOMAIN code
    BY <1>1, <1>2, <2>1 DEF OpenIfOK, Tests
  <2> QED
    BY <1>1, <1>2, <2>1, <2>2, <2>3, OpenIfKept
<1>6. PatchedOK'
  <2> SUFFICES ASSUME NEW i \in 1..n, code'[i].op # "plain", ~Waiting(i)'
               PROVE  code'[i].offset > 0 /\ i + code'[i].offset <= n + 1
    BY <1>2 DEF PatchedOK
  <2>1. CASE i = b
    BY <1>1, <1>2, <2>1
  <2>2. CASE i # b
    <3>1. ~Waiting(i)
      <4> SUFFICES ASSUME NEW k \in 1..d, Awaits(open[k], i)
                   PROVE  FALSE
        BY <1>1 DEF Waiting
      <4>1. k # d
        BY <2>2 DEF Awaits
      <4>2. k \in DOMAIN open' /\ open'[k] = open[k]
        BY <1>3, <4>1
      <4> QED
        BY <4>2 DEF Waiting, Awaits
    <3> QED
      BY <1>1, <1>2, <2>2, <3>1 DEF BranchesOK, PatchedOK
  <2> QED
    BY <2>1, <2>2
<1>7. UnderOK'
  BY <1>1, <1>2, <1>4 DEF BranchesOK, UnderOK
<1>8. FlowOK'
  <2> SUFFICES ASSUME NEW T \in SUBSET Nat, NEW i \in 1..(n + 1)
               PROVE  Alive(T, i)' <=> Reaches(T, i)'
    BY <1>2 DEF FlowOK
  <2> DEFINE away == code[b].op = "jump" \/ b \notin T
  <2>1. \A j \in 1..n : Alive(T, j)' <=> Alive(T, j)
    <3>1. \A j \in 1..n : Under(j)' = Under(j)
      BY <1>1, <1>2 DEF Under
    <3> QED
      BY <3>1 DEF Alive
  <2>2. \A j \in 1..n : j # b => Follows(T, j)' = Follows(T, j)
    BY <1>1, <1>2 DEF Follows
  <2>3. /\ Follows(T, b)' = IF away THEN n + 1 ELSE b + 1
        /\ Follows(T, b) = IF away THEN b ELSE b + 1
    <3>1. code[b].op \in {"plain", "if_false", "jump"}
      BY <1>1, Parts
    <3> QED
      BY <1>1, <1>2, <3>1 DEF Follows
  <2> HIDE DEF away
  <2>4. CASE i \in 1..n
    <3>1. \A j \in 1..n : \A h \in 1..(j - 1) : Follows(T, h)' = j <=> Follows(T, h) = j
      BY <1>1, <2>2, <2>3
    <3>2. n \in 0..(Len(code) + 1) /\ FlowOK
      BY DEF BranchesOK
    <3> QED
      BY <2>1, <2>4, <3>1, <3>2, FlowKept
  <2>5. CASE i = n + 1
    <3>1. Alive(T, n + 1)' <=> Holds(T, Enclosing')
      <4>1. n + 1 \notin DOMAIN code'
        BY <1>2
      <4> QED
        BY <4>1 DEF Alive, Under
    <3>2. Alive(T, n + 1) <=> Holds(T, Enclosing)
      <4>1. n + 1 \notin DOMAIN code
        BY <1>1
      <4> QED
        BY <4>1 DEF Alive, Under
    <3>3. Alive(T, b) <=> Holds(T, code[b].under)
      BY <1>1 DEF Alive, Under
    <3>4. Reaches(T, n + 1)' <=> Reaches(T, n + 1) \/ (Alive(T, b) /\ away)
      <4>1. n + 1 # 1 /\ n + 1 - 1 = n
        BY <1>1
      <4>2. Reaches(T, n + 1)' <=> \E j \in 1..n : Alive(T, j) /\ Follows(T, j)' = n + 1
        BY <2>1, <4>1 DEF Reaches
      <4>3. Reaches(T, n + 1) <=> \E j \in 1..n : Alive(T, j) /\ Follows(T, j) = n + 1
        BY <4>1 DEF Reaches
      <4> QED
        BY <1>1, <2>2, <2>3, <4>2, <4>3
    <3>5. Reaches(T, n + 1) <=> Alive(T, n + 1)
      BY DEF BranchesOK, FlowOK
    <3> DEFINE test == open[d].test
    <3>6. /\ DOMAIN Enclosing = 1..d
          /\ \A k \in 1..d : Enclosing[k].test = open[k].test /\ Enclosing[k].branch = open[k].branch
      BY <1>1, EnclosingFacts DEF Enclosing
    <3>7. /\ DOMAIN Enclosing' = 1..(d - 1)
          /\ \A k \in 1..(d - 1) : /\ Enclosing'[k].test = open[k].test
                                   /\ Enclosing'[k].branch = open[k].branch
      BY <1>3 DEF Enclosing
    <3>8. Holds(T, Enclosing) <=> Holds(T, Enclosing') /\ (test \in T <=> open[d].branch = "then")
      <4>1. 1..d = (1..(d - 1)) \cup {d}
        BY <1>1
      <4> QED
        BY <3>6, <3>7, <4>1 DEF Holds
    <3>9. OpenIfOK(d) /\ open[d].branch \in {"then", "else"}
      BY <1>1, Parts DEF BranchesOK, OpenOK
    <3>10. DOMAIN code[b].under = 1..Len(code[b].under)
      BY <1>1, Parts
    <3>11. CASE open[d].branch = "then"
      <4>1. b = test /\ away <=> b = test /\ test \notin T
        BY <3>9, <3>11 DEF away, OpenIfOK, Tests
      <4>2. b = test /\ Len(code[b].under) = d - 1 /\ Outside(d, code[b].under)
        BY <3>9, <3>11 DEF OpenIfOK, Awaits
      <4>3. Holds(T, code[b].under) <=> Holds(T, Enclosing')
        <5> DEFINE under == code[b].under
        <5>1. DOMAIN under = 1..(d - 1)
          BY <3>10, <4>2
        <5>2. \A m \in 1..(d - 1) : /\ under[m].test = Enclosing'[m].test
                                    /\ under[m].branch = Enclosing'[m].branch
          BY <3>7, <4>2 DEF Outside
        <5> HIDE DEF under
        <5>3. Holds(T, under) <=> Holds(T, Enclosing')
          BY <3>7, <5>1, <5>2 DEF Holds
        <5> QED
          BY <5>3 DEF under
      <4> QED
        BY <2>5, <3>1, <3>2, <3>3, <3>4, <3>5, <3>8, <3>11, <4>1, <4>2, <4>3
    <3>12. CASE open[d].branch = "else"
      <4>1. /\ b = open[d].exit /\ away /\ Len(code[b].under) = d /\ Outside(d, code[b].under)
            /\ code[b].under[d].test = test /\ code[b].under[d].branch = "then"
        BY <3>9, <3>12 DEF OpenIfOK, Awaits, away
      <4>2. Holds(T, code[b].under) <=> Holds(T, Enclosing') /\ test \in T
        <5> DEFINE under == code[b].under
        <5>1. DOMAIN under = (1..(d - 1)) \cup {d}
          BY <1>1, <3>10, <4>1
        <5>2. \A m \in 1..(d - 1) : /\ under[m].test = Enclosing'[m].test
                                    /\ under[m].branch = Enclosing'[m].branch
          BY <3>7, <4>1 DEF Outside
        <5>3. under[d].test = test /\ under[d].branch = "then"
          BY <4>1
        <5> HIDE DEF under
        <5>4. Holds(T, under) <=> Holds(T, Enclosing') /\ test \in T
          BY <3>7, <5>1, <5>2, <5>3 DEF Holds
        <5> QED
          BY <5>4 DEF under
      <4> QED
        BY <2>5, <3>1, <3>2, <3>3, <3>4, <3>5, <3>8, <3>12, <4>1, <4>2
    <3> QED
      BY <3>9, <3>11, <3>12
  <2> QED
    BY <2>4, <2>5
<1> QED
  BY <1>5, <1>6, <1>7, <1>8 DEF BranchesOK

\* Going on to the else branch with an offset that fits keeps the invariant.
LEMMA EnterElseKeeps ==
  ASSUME ZirTypeOK, BranchesOK, EnterElse, errors' = errors
  PROVE  BranchesOK'
<1> PICK n \in Nat : n = Len(code)
  BY Parts
<1> PICK d \in Nat : d = Len(open)
  BY Parts
<1> PICK t : t = open[d].test
  OBVIOUS
<1>1. /\ open # <<>> /\ open[d].branch = "then"
      /\ code' = Patched(Emitted("jump"), t, n + 1) /\ n + 2 <= IpMax
      /\ open' = Append(Popped, [Top EXCEPT !.exit = n + 1, !.branch = "else"])
  <2>1. ~Unaddressable(n + 1)
    BY Parts DEF EnterElse, Ip
  <2>2. n + 1 + 1 <= IpMax
    BY <2>1, BoundsAssumption DEF Unaddressable
  <2>3. n + 2 <= IpMax
    BY <2>2
  <2> QED
    BY <2>1, <2>3 DEF EnterElse, Ip, Top
<1>2. /\ DOMAIN code = 1..n /\ DOMAIN open = 1..d /\ d \in 1..d
      /\ t \in 1..n /\ code[t].op # "plain" /\ code[t].offset = 0
      /\ \A k \in 1..(d - 1) : open[k].test # t /\ (open[k].branch = "else" => open[k].exit # t)
  BY <1>1, Parts, AwaitedFacts DEF BranchesOK, Awaits
<1>3. /\ OpenIfOK(d) /\ code[t].op = "if_false"
      /\ Len(code[t].under) = d - 1 /\ DOMAIN code[t].under = 1..(d - 1)
      /\ \A m \in 1..(d - 1) : /\ code[t].under[m].test = open[m].test
                               /\ code[t].under[m].branch = open[m].branch
  <2>1. OpenIfOK(d)
    BY <1>2 DEF BranchesOK, OpenOK
  <2> QED
    BY <1>2, <2>1, Parts DEF OpenIfOK, Outside, Tests
<1>4. /\ DOMAIN Enclosing = 1..d /\ Len(Enclosing) = d
      /\ \A k \in 1..d : /\ Enclosing[k].test = open[k].test
                         /\ Enclosing[k].branch = open[k].branch
  BY <1>2, EnclosingFacts DEF Enclosing
<1>5. /\ Len(code') = n + 1 /\ DOMAIN code' = 1..(n + 1)
      /\ \A i \in 1..n : /\ code'[i].op = code[i].op /\ code'[i].under = code[i].under
                         /\ i # t => code'[i].offset = code[i].offset
      /\ code'[t].offset = n + 2 - t
      /\ code'[n + 1].op = "jump" /\ code'[n + 1].offset = 0 /\ code'[n + 1].under = Enclosing
  <2> DEFINE emitted == Emitted("jump")
  <2>1. /\ emitted \in Seq(ZirInstr) /\ Len(emitted) = n + 1
        /\ \A i \in 1..n : emitted[i] = code[i]
        /\ emitted[n + 1] = [op |-> "jump", offset |-> 0, under |-> Enclosing]
    BY <1>2, EmittedFacts
  <2> HIDE DEF emitted
  <2>2. t \in Nat /\ n + 1 \in Nat /\ DOMAIN emitted = 1..(n + 1)
    BY <1>2, <2>1
  <2>3. /\ code' \in Seq(ZirInstr) /\ Len(code') = n + 1
        /\ \A i \in 1..(n + 1) :
             /\ code'[i].op = emitted[i].op /\ code'[i].under = emitted[i].under
             /\ code'[i].offset = IF i = t THEN OffsetFrom(t, n + 1) ELSE emitted[i].offset
    BY <1>1, <2>1, <2>2, PatchedFacts DEF emitted
  <2>4. OffsetFrom(t, n + 1) = n + 2 - t
    <3>1. t <= n + 1 /\ n + 1 + 1 <= IpMax
      BY <1>1, <1>2
    <3>2. OffsetFrom(t, n + 1) = n + 1 + 1 - t
      BY <2>2, <3>1, OffsetFacts
    <3> QED
      BY <2>2, <3>2
  <2>5. n + 1 # t /\ \A i \in 1..n : i \in 1..(n + 1)
    BY <1>2
  <2> QED
    BY <1>2, <2>1, <2>3, <2>4, <2>5
<1>6. /\ Len(open') = d /\ DOMAIN open' = 1..d
      /\ \A k \in 1..(d - 1) : open'[k] = open[k]
      /\ open'[d].test = t /\ open'[d].exit = n + 1 /\ open'[d].branch = "else"
  <2> DEFINE left == [Top EXCEPT !.exit = n + 1, !.branch = "else"]
  <2>1. left \in OpenIf /\ left.test = t /\ left.exit = n + 1 /\ left.branch = "else"
    <3>1. Top \in OpenIf /\ Top.test = t
      BY <1>1, OpenFacts DEF Top
    <3>2. left = [Top EXCEPT !.exit = n + 1, !.branch = "else"] /\ n + 1 \in Nat
      OBVIOUS
    <3> HIDE DEF left
    <3>3. left \in OpenIf /\ left.test = Top.test /\ left.exit = n + 1 /\ left.branch = "else"
      BY <3>1, <3>2, ElseFacts, Zenon
    <3> QED
      BY <3>1, <3>3
  <2>2. open' = Append(Popped, left)
    BY <1>1
  <2> HIDE DEF left
  <2>3. /\ open' \in Seq(OpenIf) /\ Len(open') = d
        /\ \A k \in 1..(d - 1) : open'[k] = open[k]
        /\ open'[d] = left
    BY <1>1, <2>1, <2>2, OpenFacts
  <2> QED
    BY <2>1, <2>3
<1>7. Tests \subseteq Tests'
  BY <1>2, <1>5 DEF Tests
<1>8. OpenOK'
  <2>1. ASSUME NEW k \in 1..(d - 1)
        PROVE  OpenIfOK(k)'
    <3>1. OpenIfOK(k) /\ k \in DOMAIN open
      BY <1>2 DEF BranchesOK, OpenOK
    <3>2. k \in Nat \ {0} /\ \A m \in 1..k : open'[m] = open[m]
      BY <1>6
    <3>3. /\ DOMAIN code \subseteq DOMAIN code' /\ open[k].test \in DOMAIN code
          /\ open[k].branch = "else" => open[k].exit \in DOMAIN code
      BY <1>2, <1>5, <3>1 DEF OpenIfOK, Tests
    <3>4. /\ code'[open[k].test].offset = code[open[k].test].offset
          /\ open[k].branch = "else" => code'[open[k].exit].offset = code[open[k].exit].offset
      BY <1>2, <1>5, <3>3
    <3>5. \A i \in DOMAIN code : code'[i].op = code[i].op /\ code'[i].under = code[i].under
      BY <1>2, <1>5
    <3> QED
      BY <3>1, <3>2, <3>3, <3>4, <3>5, OpenIfKept
  <2>2. OpenIfOK(d)'
    <3>1. t \in Tests' /\ n + 1 \in DOMAIN code'
      BY <1>2, <1>3, <1>5 DEF Tests
    <3>2. \A m \in 1..(d - 1) :
            /\ code'[t].under[m].test = open'[m].test /\ code'[t].under[m].branch = open'[m].branch
            /\ code'[n + 1].under[m].test = open'[m].test
            /\ code'[n + 1].under[m].branch = open'[m].branch
      <4>1. code'[t].under = code[t].under /\ code'[n + 1].under = Enclosing
        BY <1>2, <1>5
      <4>2. \A m \in 1..(d - 1) : m \in 1..d /\ open'[m] = open[m]
        BY <1>2, <1>6
      <4> QED
        BY <1>3, <1>4, <4>1, <4>2
    <3>3. code'[n + 1].under[d].test = t /\ code'[n + 1].under[d].branch = "then"
      BY <1>1, <1>2, <1>4, <1>5
    <3>4. Len(code'[t].under) = d - 1 /\ Len(code'[n + 1].under) = d
      BY <1>2, <1>3, <1>4, <1>5
    <3> QED
      BY <1>5, <1>6, <3>1, <3>2, <3>3, <3>4 DEF OpenIfOK, Outside
  <2> QED
    BY <1>6, <2>1, <2>2 DEF OpenOK
<1>9. PatchedOK'
  <2> SUFFICES ASSUME NEW i \in 1..(n + 1), code'[i].op # "plain", ~Waiting(i)'
               PROVE  code'[i].offset > 0 /\ i + code'[i].offset <= n + 2
    BY <1>5 DEF PatchedOK
  <2>1. CASE i = t
    BY <1>2, <1>5, <2>1
  <2>2. CASE i \in 1..n /\ i # t
    <3>1. ~Waiting(i)
      <4> SUFFICES ASSUME NEW k \in 1..d, Awaits(open[k], i)
                   PROVE  FALSE
        BY <1>2 DEF Waiting
      <4>1. k # d
        BY <1>1, <2>2 DEF Awaits
      <4>2. k \in DOMAIN open' /\ open'[k] = open[k]
        BY <1>6, <4>1
      <4> QED
        BY <4>2 DEF Waiting, Awaits
    <3> QED
      <4>1. code'[i].op = code[i].op /\ code'[i].offset = code[i].offset /\ code[i].offset \in Nat
        BY <1>2, <1>5, <2>2, Parts
      <4>2. code[i].offset > 0 /\ i + code[i].offset <= n + 1
        BY <1>2, <2>2, <3>1, <4>1 DEF BranchesOK, PatchedOK
      <4> QED
        BY <4>1, <4>2
  <2>3. CASE i = n + 1
    BY <1>2, <1>6, <2>3 DEF Waiting, Awaits
  <2> QED
    BY <2>1, <2>2, <2>3
<1>10. UnderOK'
  <2>1. \A k \in DOMAIN Enclosing : Enclosing[k].test \in Tests
    BY EnclosingTests DEF BranchesOK
  <2> QED
    BY <2>1, <1>2, <1>5, <1>7 DEF BranchesOK, UnderOK
<1>11. FlowOK'
  <2> SUFFICES ASSUME NEW T \in SUBSET Nat, NEW i \in 1..(n + 2)
               PROVE  Alive(T, i)' <=> Reaches(T, i)'
    BY <1>5 DEF FlowOK
  <2>1. \A j \in 1..(n + 1) : Alive(T, j)' <=> Alive(T, j)
    <3>1. \A j \in 1..(n + 1) : Under(j)' = Under(j)
      BY <1>2, <1>5 DEF Under
    <3> QED
      BY <3>1 DEF Alive
  <2>2. \A j \in 1..n : Follows(T, j) \in Nat /\ Follows(T, j) < n + 2
    <3>1. \A j \in 1..n : Follows(T, j) \in Nat /\ Follows(T, j) <= n + 1
      BY <1>2, FollowsBound DEF BranchesOK
    <3> QED
      BY <3>1
  <2>3. \A j \in 1..n : j # t => Follows(T, j)' = Follows(T, j)
    BY <1>2, <1>5 DEF Follows
  <2>4. /\ Follows(T, t)' = IF t \in T THEN t + 1 ELSE n + 2
        /\ Follows(T, t) = IF t \in T THEN t + 1 ELSE t
        /\ Follows(T, n + 1)' = n + 1
    <3>1. code'[t].op = "if_false" /\ code'[t].offset = n + 2 - t /\ t + (n + 2 - t) = n + 2
      <4>1. t \in Nat
        BY <1>2
      <4>2. t + (n + 2 - t) = n + 2
        BY <4>1
      <4>3. code'[t].op = code[t].op
        BY <1>2, <1>5
      <4> QED
        BY <1>3, <1>5, <4>2, <4>3
    <3>2. t + 0 = t /\ n + 1 + 0 = n + 1
      BY <1>2
    <3> QED
      BY <1>2, <1>3, <1>5, <3>1, <3>2 DEF Follows
  <2>5. CASE i \in 1..(n + 1)
    <3>1. \A j \in 1..(n + 1) : \A h \in 1..(j - 1) : Follows(T, h)' = j <=> Follows(T, h) = j
      BY <1>2, <2>3, <2>4
    <3>2. n + 1 \in 0..(Len(code) + 1) /\ FlowOK
      BY DEF BranchesOK
    <3> QED
      BY <2>1, <2>5, <3>1, <3>2, FlowKept
  <2>6. CASE i = n + 2
    <3>1. Alive(T, n + 2)' <=> Alive(T, t) /\ t \notin T
      <4>1. Under(n + 2)' = Enclosing' /\ Under(t) = code[t].under
        BY <1>2, <1>5 DEF Under
      <4>2. /\ DOMAIN Enclosing' = 1..d
            /\ \A k \in 1..d : /\ Enclosing'[k].test = open'[k].test
                               /\ Enclosing'[k].branch = open'[k].branch
        BY <1>6 DEF Enclosing
      <4> DEFINE inner == Enclosing'
                 outer == code[t].under
      <4>3. /\ DOMAIN inner = (1..(d - 1)) \cup {d} /\ DOMAIN outer = 1..(d - 1)
            /\ \A k \in 1..(d - 1) : /\ inner[k].test = outer[k].test
                                     /\ inner[k].branch = outer[k].branch
            /\ inner[d].test = t /\ inner[d].branch = "else"
        <5>1. \A k \in 1..(d - 1) : k \in 1..d /\ open'[k] = open[k]
          BY <1>2, <1>6
        <5>2. 1..d = (1..(d - 1)) \cup {d}
          BY <1>2
        <5>3. DOMAIN inner = (1..(d - 1)) \cup {d} /\ DOMAIN outer = 1..(d - 1)
          BY <1>3, <4>2, <5>2
        <5>4. \A k \in 1..(d - 1) : inner[k].test = outer[k].test /\ inner[k].branch = outer[k].branch
          <6> SUFFICES ASSUME NEW k \in 1..(d - 1)
                       PROVE  inner[k].test = outer[k].test /\ inner[k].branch = outer[k].branch
            OBVIOUS
          <6>1. inner[k].test = open[k].test /\ inner[k].branch = open[k].branch
            BY <4>2, <5>1
          <6> QED
            BY <1>3, <6>1
        <5>5. inner[d].test = t /\ inner[d].branch = "else"
          BY <1>2, <1>6, <4>2
        <5> QED
          BY <5>3, <5>4, <5>5
      <4>4. Alive(T, n + 2)' <=> Holds(T, inner)
        BY <4>1 DEF Alive
      <4>5. Alive(T, t) <=> Holds(T, outer)
        BY <4>1 DEF Alive
      <4> HIDE DEF inner, outer
      <4>6. Holds(T, inner) <=> Holds(T, outer) /\ t \notin T
        BY <4>3 DEF Holds
      <4> QED
        BY <4>4, <4>5, <4>6
    <3>2. Reaches(T, n + 2)' <=> Alive(T, t) /\ t \notin T
      <4>1. n + 2 # 1 /\ n + 2 - 1 = n + 1
        OBVIOUS
      <4>2. Reaches(T, n + 2)' <=> \E j \in 1..(n + 1) : Alive(T, j) /\ Follows(T, j)' = n + 2
        BY <2>1, <4>1 DEF Reaches
      <4>3. \A j \in 1..(n + 1) : Follows(T, j)' = n + 2 <=> j = t /\ t \notin T
        <5> SUFFICES ASSUME NEW j \in 1..(n + 1)
                     PROVE  Follows(T, j)' = n + 2 <=> j = t /\ t \notin T
          OBVIOUS
        <5>1. CASE j = t
          BY <1>2, <2>4, <5>1
        <5>2. CASE j = n + 1
          BY <1>2, <2>4, <5>2
        <5>3. CASE j # t /\ j \in 1..n
          BY <2>2, <2>3, <5>3
        <5> QED
          BY <5>1, <5>2, <5>3
      <4> QED
        BY <1>2, <4>2, <4>3
    <3> QED
      BY <2>6, <3>1, <3>2
  <2> QED
    BY <2>5, <2>6
<1> QED
  BY <1>8, <1>9, <1>10, <1>11 DEF BranchesOK
-----------------------------------------------------------------------------
(* The theorems.                                                           *)

\* The invariant holds of the empty block.
LEMMA InvInit ==
  ASSUME ZirInit
  PROVE  ZirIInv
<1>1. ZirTypeOK
  <2>1. <<>> \in Seq(ZirInstr) /\ <<>> \in Seq(OpenIf)
    BY EmptySeq
  <2>2. code \in Seq(ZirInstr) /\ open \in Seq(OpenIf)
    BY <2>1 DEF ZirInit
  <2>3. errors \in Nat /\ generated \in BOOLEAN
    BY DEF ZirInit
  <2> QED
    BY <2>2, <2>3 DEF ZirTypeOK
<1>2. /\ Len(code) = 0 /\ Len(open) = 0 /\ DOMAIN code = {} /\ DOMAIN open = {}
  BY Parts, <1>1 DEF ZirInit
<1>3. OpenOK /\ PatchedOK /\ UnderOK
  BY <1>2 DEF OpenOK, PatchedOK, UnderOK
<1>4. FlowOK
  <2>1. DOMAIN Enclosing = {}
    BY <1>2 DEF Enclosing
  <2>2. \A T : Alive(T, 1)
    BY <1>2, <2>1 DEF Alive, Under, Holds
  <2> QED
    BY <1>2, <2>2 DEF FlowOK, Reaches
<1> QED
  BY <1>1, <1>3, <1>4 DEF ZirIInv, ZirInit, BranchesOK

\* Every step keeps the invariant.
LEMMA InvStep ==
  ASSUME ZirIInv, [ZirNext]_zirVars
  PROVE  ZirIInv'
<1>1. ZirTypeOK'
  BY TypeStep DEF ZirIInv
<1>2. (generated => open = <<>>)'
  BY DEF ZirIInv, ZirNext, zirVars, EmitPlain, EnterIf, LeaveThen, EnterElse, LeaveElse,
         Generate, Visiting
<1>3. ASSUME errors' = 0
      PROVE  BranchesOK'
  <2>1. errors \in Nat /\ errors + 1 # 0 /\ ZirTypeOK
    BY Parts DEF ZirIInv
  <2>2. errors = 0 /\ errors' = errors
    BY <1>3, <2>1 DEF ZirNext, zirVars, EmitPlain, EnterIf, LeaveThen, EnterElse, LeaveElse, Generate
  <2>3. BranchesOK
    BY <2>2 DEF ZirIInv
  <2>4. CASE EmitPlain
    BY <2>1, <2>3, <2>4, EmitPlainKeeps
  <2>5. CASE EnterIf
    BY <2>1, <2>2, <2>3, <2>5, EnterIfKeeps
  <2>6. CASE LeaveThen
    <3>1. /\ open # <<>> /\ Awaits(open[Len(open)], Top.test) /\ open' = Popped
          /\ ~Unaddressable(Len(code)) /\ code' = Patched(code, Top.test, Len(code))
      BY <2>1, <2>2, <2>6 DEF LeaveThen, Awaits, Top, Ip
    <3>2. Len(code) + 1 <= IpMax
      BY <2>1, <3>1, Parts, BoundsAssumption DEF Unaddressable
    <3> QED
      BY <2>1, <2>3, <3>1, <3>2, LeaveKeeps
  <2>7. CASE EnterElse
    BY <2>1, <2>2, <2>3, <2>7, EnterElseKeeps
  <2>8. CASE LeaveElse
    <3>1. /\ open # <<>> /\ Awaits(open[Len(open)], Top.exit) /\ open' = Popped
          /\ ~Unaddressable(Len(code)) /\ code' = Patched(code, Top.exit, Len(code))
      BY <2>1, <2>2, <2>8 DEF LeaveElse, Awaits, Top, Ip
    <3>2. Len(code) + 1 <= IpMax
      BY <2>1, <3>1, Parts, BoundsAssumption DEF Unaddressable
    <3> QED
      BY <2>1, <2>3, <3>1, <3>2, LeaveKeeps
  <2>9. ASSUME UNCHANGED <<code, open>>
        PROVE  BranchesOK'
    <3>1. OpenOK'
      BY <2>3, <2>9 DEF BranchesOK, OpenOK, OpenIfOK, Outside, Tests
    <3>2. PatchedOK' /\ UnderOK'
      BY <2>3, <2>9 DEF BranchesOK, PatchedOK, UnderOK, Waiting, Tests
    <3>3. FlowOK'
      <4>1. Enclosing' = Enclosing
        BY <2>9 DEF Enclosing
      <4>2. \A T, i : Alive(T, i)' <=> Alive(T, i)
        BY <2>9, <4>1 DEF Alive, Under
      <4>3. \A T, i : Follows(T, i)' = Follows(T, i)
        BY <2>9 DEF Follows
      <4>4. \A T, i : Reaches(T, i)' <=> Reaches(T, i)
        BY <4>2, <4>3 DEF Reaches
      <4> QED
        BY <2>3, <2>9, <4>2, <4>4 DEF BranchesOK, FlowOK
    <3> QED
      BY <3>1, <3>2, <3>3 DEF BranchesOK
  <2>10. CASE Generate
    BY <2>9, <2>10 DEF Generate
  <2>11. CASE UNCHANGED zirVars
    BY <2>9, <2>11 DEF zirVars
  <2> QED
    BY <2>4, <2>5, <2>6, <2>7, <2>8, <2>10, <2>11 DEF ZirNext
<1> QED
  BY <1>1, <1>2, <1>3 DEF ZirIInv

\* The invariant of the generation of branches.
LEMMA ZirInvariance == ZirSpec => []ZirIInv
<1>1. ZirInit => ZirIInv
  BY InvInit
<1>2. ZirIInv /\ [ZirNext]_zirVars => ZirIInv'
  BY InvStep
<1> QED
  BY <1>1, <1>2, PTL DEF ZirSpec

\* The call of visit_if_node at depth k owns the branch that it is to patch: which
\* one that is, and that no other call in progress has it.
LEMMA OwnsItsBranch ==
  ASSUME ZirTypeOK, OpenOK, NEW k \in DOMAIN open, NEW i, Awaits(open[k], i)
  PROVE  /\ i \in DOMAIN code /\ code[i].offset = 0
         /\ open[k].branch = "then" => code[i].op = "if_false" /\ Len(code[i].under) = k - 1
         /\ open[k].branch # "then" => code[i].op = "jump" /\ Len(code[i].under) = k
<1>1. OpenIfOK(k)
  BY DEF OpenOK
<1>2. CASE open[k].branch = "then"
  <2>1. i = open[k].test
    BY <1>2 DEF Awaits
  <2> QED
    BY <1>1, <1>2, <2>1 DEF OpenIfOK, Tests
<1>3. CASE open[k].branch # "then"
  <2>1. open[k].branch = "else"
    BY <1>3, Parts DEF Branches
  <2>2. i = open[k].exit
    BY <1>3 DEF Awaits
  <2> QED
    BY <1>1, <1>3, <2>1, <2>2 DEF OpenIfOK
<1> QED
  BY <1>2, <1>3

\* Until a jump could not be addressed, the branches without an offset are those
\* that the calls of visit_if_node in progress will patch, one for each call.
THEOREM WaitingBranches == ZirSpec => []OnlyOpenIfsWait
<1>1. ASSUME ZirIInv
      PROVE  OnlyOpenIfsWait
  <2> SUFFICES ASSUME errors = 0
               PROVE  /\ \A i \in DOMAIN code :
                           code[i].op # "plain" => (code[i].offset = 0 <=> Waiting(i))
                      /\ \A k \in DOMAIN open : \E i \in DOMAIN code :
                           /\ Awaits(open[k], i)
                           /\ code[i].op = (IF open[k].branch = "then" THEN "if_false" ELSE "jump")
                           /\ \A m \in DOMAIN open : m # k => ~Awaits(open[m], i)
    BY DEF OnlyOpenIfsWait
  <2>1. ZirTypeOK /\ OpenOK /\ PatchedOK
    BY <1>1 DEF ZirIInv, BranchesOK
  <2>2. ASSUME NEW i \in DOMAIN code, code[i].op # "plain"
        PROVE  code[i].offset = 0 <=> Waiting(i)
    <3>1. ASSUME Waiting(i)
          PROVE  code[i].offset = 0
      <4>1. PICK k \in DOMAIN open : Awaits(open[k], i)
        BY <3>1 DEF Waiting
      <4> QED
        BY <2>1, <4>1, OwnsItsBranch
    <3>2. ASSUME ~Waiting(i)
          PROVE  code[i].offset # 0
      BY <2>1, <2>2, <3>2 DEF PatchedOK
    <3> QED
      BY <3>1, <3>2
  <2>3. ASSUME NEW k \in DOMAIN open
        PROVE  \E i \in DOMAIN code :
                 /\ Awaits(open[k], i)
                 /\ code[i].op = (IF open[k].branch = "then" THEN "if_false" ELSE "jump")
                 /\ \A m \in DOMAIN open : m # k => ~Awaits(open[m], i)
    <3> DEFINE i == IF open[k].branch = "then" THEN open[k].test ELSE open[k].exit
    <3>1. Awaits(open[k], i)
      BY DEF Awaits
    <3> HIDE DEF i
    <3>2. /\ i \in DOMAIN code
          /\ open[k].branch = "then" => code[i].op = "if_false" /\ Len(code[i].under) = k - 1
          /\ open[k].branch # "then" => code[i].op = "jump" /\ Len(code[i].under) = k
      BY <2>1, <3>1, OwnsItsBranch
    <3>3. ASSUME NEW m \in DOMAIN open, Awaits(open[m], i)
          PROVE  m = k
      <4>1. /\ open[m].branch = "then" => code[i].op = "if_false" /\ Len(code[i].under) = m - 1
            /\ open[m].branch # "then" => code[i].op = "jump" /\ Len(code[i].under) = m
        BY <2>1, <3>3, OwnsItsBranch
      <4>2. k \in Nat /\ m \in Nat
        BY <2>1, Parts
      <4>3. open[m].branch = "then" <=> open[k].branch = "then"
        BY <3>2, <4>1
      <4> QED
        BY <3>2, <4>1, <4>2, <4>3
    <3> QED
      BY <3>1, <3>2, <3>3
  <2> QED
    BY <2>2, <2>3
<1> QED
  BY <1>1, ZirInvariance, PTL

\* Where the flat code goes from each instruction.
ZirFlow(truth) ==
  [i \in DOMAIN code |-> IF BranchesAway(truth, i) THEN i + code[i].offset ELSE i + 1]

\* Code without an open if leads forward, and what the source selects is closed
\* under its flow.
LEMMA SelectedIsClosed ==
  ASSUME ZirTypeOK, BranchesOK, open = <<>>, NEW truth \in [Tests -> BOOLEAN]
  PROVE  /\ Forward
         /\ GoesForward(ZirFlow(truth))
         /\ ClosedRun(SourceRuns(truth), ZirFlow(truth))
<1> PICK n \in Nat : n = Len(code)
  BY Parts
<1>1. DOMAIN code = 1..n /\ DOMAIN open = {}
  BY Parts
<1>2. Forward
  BY <1>1 DEF BranchesOK, PatchedOK, Waiting, Forward
<1> DEFINE T == {i \in Tests : truth[i]}
           succ == ZirFlow(truth)
<1>3. T \in SUBSET Nat
  BY <1>1 DEF Tests
<1>4. \A i \in 1..n : succ[i] = Follows(T, i)
  BY <1>1 DEF Follows, BranchesAway, Tests, ZirFlow
<1>5. ASSUME NEW i \in 1..n
      PROVE  i \in SourceRuns(truth) <=> Alive(T, i)
  <2>1. \A k \in DOMAIN code[i].under : code[i].under[k].test \in Tests
    BY <1>1 DEF BranchesOK, UnderOK
  <2>2. \A k \in DOMAIN code[i].under :
          truth[code[i].under[k].test] = (code[i].under[k].branch = "then")
            <=> (code[i].under[k].test \in T <=> code[i].under[k].branch = "then")
    BY <2>1
  <2> QED
    BY <1>1, <2>2 DEF SourceRuns, Alive, Under, Holds
<1>6. \A i \in 1..n : succ[i] \in 1..(n + 1) /\ succ[i] > i
  BY <1>1, <1>2, Parts DEF Forward, BranchesAway, ZirFlow
<1>7. GoesForward(succ)
  <2>1. succ \in [DOMAIN code -> 1..(n + 1)]
    BY <1>1, <1>6 DEF ZirFlow
  <2> HIDE DEF succ
  <2> QED
    BY <1>1, <1>6, <2>1 DEF GoesForward
<1> HIDE DEF succ
<1>8. ClosedRun(SourceRuns(truth), succ)
  <2> SUFFICES ASSUME NEW i \in 1..n
               PROVE  i \in SourceRuns(truth) <=> i = 1 \/ \E j \in SourceRuns(truth) : succ[j] = i
    BY <1>1 DEF ClosedRun, SourceRuns
  <2> HIDE DEF T
  <2>1. Alive(T, i) <=> i = 1 \/ \E j \in 1..(i - 1) : Alive(T, j) /\ Follows(T, j) = i
    <3>1. i \in 1..(Len(code) + 1) /\ FlowOK
      BY DEF BranchesOK
    <3>2. Alive(T, i) <=> Reaches(T, i)
      BY <1>3, <3>1 DEF FlowOK
    <3> QED
      BY <3>2 DEF Reaches
  <2>2. ASSUME NEW j \in 1..(i - 1), Alive(T, j), Follows(T, j) = i
        PROVE  \E h \in SourceRuns(truth) : succ[h] = i
    <3>1. j \in 1..n
      OBVIOUS
    <3> QED
      BY <1>4, <1>5, <2>2, <3>1
  <2>3. ASSUME NEW j \in SourceRuns(truth), succ[j] = i
        PROVE  \E h \in 1..(i - 1) : Alive(T, h) /\ Follows(T, h) = i
    <3>1. j \in 1..n
      BY <1>1 DEF SourceRuns
    <3>2. j \in 1..(i - 1)
      BY <1>6, <2>3, <3>1
    <3> QED
      BY <1>4, <1>5, <2>3, <3>1, <3>2
  <2> QED
    BY <1>5, <2>1, <2>2, <2>3
<1> QED
  BY <1>2, <1>7, <1>8 DEF succ

\* A handed-on program runs, for every outcome of its tests, the instructions
\* that the nested ifs of the source select.
THEOREM ZirFollowsSource == ZirSpec => []StructuredExecution
<1>1. ASSUME ZirIInv
      PROVE  StructuredExecution
  <2>1. SUFFICES ASSUME HandedOn
                 PROVE  /\ Forward
                        /\ \A truth \in [Tests -> BOOLEAN] : ZirRuns(truth) = SourceRuns(truth)
    BY DEF StructuredExecution
  <2>2. ZirTypeOK /\ BranchesOK /\ open = <<>>
    BY <2>1, <1>1 DEF ZirIInv, HandedOn
  <2>3. Forward
    BY <2>2, Parts DEF BranchesOK, PatchedOK, Waiting, Forward
  <2>4. ASSUME NEW truth \in [Tests -> BOOLEAN]
        PROVE  ZirRuns(truth) = SourceRuns(truth)
    <3>1. GoesForward(ZirFlow(truth)) /\ ClosedRun(SourceRuns(truth), ZirFlow(truth))
      BY <2>2, SelectedIsClosed
    <3>2. Executed(ZirFlow(truth)) = SourceRuns(truth)
      BY <2>2, <3>1, ExecutedIsClosed DEF ZirTypeOK
    <3> QED
      BY <3>2 DEF ZirRuns, ZirFlow
  <2> QED
    BY <2>3, <2>4
<1> QED
  BY <1>1, ZirInvariance, PTL
=============================================================================

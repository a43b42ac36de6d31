--------------------------- MODULE BranchLowering ---------------------------
(***************************************************************************)
(* From if statements to machine code: the ZIR generator of ZirBranches    *)
(* and the emitter of Rp2a03Text, one after the other.  Between them       *)
(* znes_generate_program copies every instruction and every offset (see    *)
(* OneForOne in ZnesProgram), so the emitter reads the generator's code.   *)
(* A program with errors is dropped and never reaches the emitter.         *)
(***************************************************************************)
EXTENDS ZirBranches

CONSTANTS PlainSizes, LoadSizes, RelRange, AbsRange, Bases

ASSUME CpuAssumption ==
  /\ PlainSizes \subseteq Nat
  /\ LoadSizes \subseteq Nat
  /\ RelRange \in Nat \ {0} /\ AbsRange \in Nat \ {0}
  /\ Bases \subseteq Nat

VARIABLES pc, starts, pending, operands, base, emission

Cpu == INSTANCE Rp2a03Text WITH ir <- code, Programs <- {}

vars == <<code, open, errors, generated, pc, starts, pending, operands, base, emission>>

cpuVars == <<pc, starts, pending, operands, base, emission>>

Init == ZirInit /\ Cpu!TextInit

GenerateZir == ZirNext /\ UNCHANGED cpuVars

EmitText == HandedOn /\ Cpu!TextNext /\ UNCHANGED <<open, errors, generated>>

Next == GenerateZir \/ EmitText

Spec == Init /\ [][Next]_vars
-----------------------------------------------------------------------------
(* The processor's view of the placed segment.                             *)

End == Len(code) + 1

Compiled == HandedOn /\ emission = "placed" /\ Len(starts) = Len(code)

Signed(byte) == IF byte < RelRange \div 2 THEN byte ELSE byte - RelRange

\* The offset in the segment that the branch instruction i goes to.
Landing(i) ==
  LET operand == operands[Cpu!OperandOf(i)] IN
  IF code[i].op = "jump" THEN (operand - base) % AbsRange
  ELSE Cpu!Start(i + 1) + Signed(operand)

\* The last IR instruction whose code starts there: those before it are empty.
InstructionAt(address) ==
  CHOOSE i \in 1..End : /\ Cpu!Start(i) = address
                        /\ \A j \in (i + 1)..End : Cpu!Start(j) # address

BranchesAt == {i \in DOMAIN code : code[i].op # "plain"}

LandsAhead(i) ==
  \E j \in (i + 1)..End : Cpu!Start(j) = Landing(i)

MachineRuns(truth) ==
  Executed([i \in DOMAIN code |->
              IF BranchesAway(truth, i) THEN InstructionAt(Landing(i)) ELSE i + 1])

\* Instructions that have machine code.
Visible == {i \in DOMAIN code : Cpu!Start(i) < Cpu!Start(i + 1)}

\* What the operands can express: every test is less than half a RelRange away
\* from where it goes, and every then branch leaves for the end of the segment
\* (the operand of any other JMP is wrong, see JmpsLand), which an address can name.
Expressible ==
  \A i \in BranchesAt :
    IF code[i].op = "jump" THEN Cpu!Target(i) = End /\ Cpu!Start(End) < AbsRange
    ELSE Cpu!Start(Cpu!Target(i)) - Cpu!Start(i + 1) < RelRange \div 2

\* The machine code of a compiled program runs, for every outcome of the
\* tests, the code of exactly those instructions that the nested ifs of the
\* source select, whatever the sizes of the instructions and wherever the
\* segment is placed.
MachineFollowsSource ==
  Compiled /\ Expressible =>
    /\ \A i \in BranchesAt : LandsAhead(i)
    /\ \A truth \in [Tests -> BOOLEAN] :
         MachineRuns(truth) \cap Visible = SourceRuns(truth) \cap Visible

\* zir.c:623-624: the unconditional jump is "backpatched to jump to the next
\* instruction following the else branch".
JmpsLand == HandedOn => Cpu!JmpsLand
=============================================================================

----------------------------- MODULE Rp2a03Text -----------------------------
(***************************************************************************)
(* Emission of one NES IR segment as RP2A03 machine code.  Each IR         *)
(* instruction becomes some bytes; an if_false ends in a BEQ and a jump is *)
(* a JMP, both with operands that are not known yet, kept as pending       *)
(* jumps.  After every instruction rp2a03_text_segment_backpatch_jumps     *)
(* counts the pending jumps down; the operand of a JMP is written at the   *)
(* end, when rp2a03_generate_program knows where the segment starts.       *)
(***************************************************************************)
EXTENDS Integers, Sequences, SequencesExt

CONSTANTS
  PlainSizes,   \* bytes that an allocation instruction may take (0: a temporal)
  LoadSizes,    \* bytes of the loads that set the Z flag for a BEQ
  RelRange,     \* values of the one-byte operand of BEQ (0x100)
  AbsRange,     \* values of the two-byte operand of JMP (0x10000)
  Programs,     \* NES IR segments to emit
  Bases         \* addresses where the finished segment may be put

ASSUME SizesAssumption ==
  /\ PlainSizes \subseteq Nat
  /\ LoadSizes \subseteq Nat
  /\ RelRange \in Nat \ {0} /\ AbsRange \in Nat \ {0}
  /\ Bases \subseteq Nat

\* Offsets count instructions and lead forward (StructuredExecution of
\* ZirBranches shows that the code generator produces no others).
IrInstr == [op : {"plain", "if_false", "jump"}, offset : Nat]

ASSUME ProgramsAssumption ==
  \A p \in Programs :
    /\ p \in Seq(IrInstr)
    /\ \A i \in DOMAIN p : p[i].op # "plain" => p[i].offset > 0

VARIABLES
  ir,           \* the NES IR instructions: op and offset (read only)
  pc,           \* bytes emitted so far
  starts,       \* where the code of each emitted IR instruction starts
  pending,      \* pending jumps
  operands,     \* index of a branch operand -> its value
  base,         \* base address of the segment, 0 while it is unknown
  emission      \* "emitting", "emitted" (whole or not) or "placed"

textVars == <<ir, pc, starts, pending, operands, base, emission>>

PendingJump == [base_jump_pc : Nat, byte_index : Nat, ir_offset : Nat, absolute : BOOLEAN]

TextTypeOK ==
  /\ pc \in Nat
  /\ starts \in Seq(Nat)
  /\ pending \in Seq(PendingJump)
  /\ DOMAIN operands \subseteq Nat
  /\ \A b \in DOMAIN operands : operands[b] \in Nat
  /\ base \in Nat
  /\ emission \in {"emitting", "emitted", "placed"}
-----------------------------------------------------------------------------
(* rp2a03_text_segment_backpatch_jumps, run after each instruction.        *)

\* Mutant: a counter that is already zero is decremented again.
CountDown_NoFloor(jump) == [jump EXCEPT !.ir_offset = jump.ir_offset - 1]

CountDown(jump) ==
  [jump EXCEPT !.ir_offset = IF jump.ir_offset > 0 THEN jump.ir_offset - 1 ELSE 0]

Due(jump) == CountDown(jump).ir_offset = 0

\* A BEQ that is due is removed from the list.
Leaves(jump) == ~jump.absolute /\ Due(jump)

\* Mutant: a JMP that is due keeps the pc it was created with.
CountedDown_Stale(jump, here) == CountDown(jump)

\* A JMP that is due stays, and records the current pc as its destination.
CountedDown(jump, here) ==
  IF Due(jump) THEN [CountDown(jump) EXCEPT !.base_jump_pc = here] ELSE CountDown(jump)

\* The list after the walk; kept[k] is what is left of its first k nodes.
Kept(jumps, here) ==
  LET kept[k \in 0..Len(jumps)] ==
        IF k = 0 THEN <<>>
        ELSE IF Leaves(jumps[k]) THEN kept[k - 1]
        ELSE Append(kept[k - 1], CountedDown(jumps[k], here))
  IN  kept[Len(jumps)]

\* Mutant: the distance is taken from the operand and not from the next byte.
Distance_FromOperand(jump, here) == (here - jump.byte_index) % RelRange

Distance(jump, here) == (here - jump.base_jump_pc) % RelRange

\* A BEQ that is due gets its operand.
Resolved(jumps, ops, here) ==
  LET due == {j \in ToSet(jumps) : Leaves(j)} IN
  [b \in DOMAIN ops |->
     IF \E j \in due : j.byte_index = b
     THEN Distance(CHOOSE j \in due : j.byte_index = b, here) ELSE ops[b]]

\* Mutant: a branch is added after the jumps were counted down.
Step_AddsLate(size, added) ==
  LET here == pc + size
      ops == [b \in DOMAIN operands \cup {j.byte_index : j \in ToSet(added)} |->
                IF b \in DOMAIN operands THEN operands[b] ELSE 0] IN
  /\ pc' = here
  /\ starts' = Append(starts, pc)
  /\ pending' = Kept(pending, here) \o added
  /\ operands' = Resolved(pending, ops, here)
  /\ UNCHANGED <<ir, base, emission>>

\* `size` bytes were emitted, with the pending jumps `added`.
Step(size, added) ==
  LET jumps == pending \o added
      here == pc + size
      ops == [b \in DOMAIN operands \cup {j.byte_index : j \in ToSet(added)} |->
                IF b \in DOMAIN operands THEN operands[b] ELSE 0] IN
  /\ pc' = here
  /\ starts' = Append(starts, pc)
  /\ pending' = Kept(jumps, here)
  /\ operands' = Resolved(jumps, ops, here)
  /\ UNCHANGED <<ir, base, emission>>
-----------------------------------------------------------------------------
(* One action per IR instruction (emit_instruction).                       *)

Current == Len(starts) + 1

Emits(op) ==
  /\ emission = "emitting"
  /\ Current <= Len(ir)
  /\ ir[Current].op = op

EmitAlloc == Emits("plain") /\ \E size \in PlainSizes : Step(size, <<>>)

\* The operand of BEQ is the byte before the pc that it counts from.
EmitIfFalse ==
  /\ Emits("if_false")
  /\ \E load \in LoadSizes :
       Step(load + 2, <<[base_jump_pc |-> pc + load + 2, byte_index |-> pc + load + 1,
                         ir_offset |-> ir[Current].offset, absolute |-> FALSE]>>)

EmitJump ==
  /\ Emits("jump")
  /\ Step(3, <<[base_jump_pc |-> pc + 3, byte_index |-> pc + 1,
                ir_offset |-> ir[Current].offset, absolute |-> TRUE]>>)

\* A condition that is a cast of a cast is no bool variable for the emitter: it
\* gives up, and emit_segment_instructions leaves its loop without an error.
StopEmission ==
  /\ Emits("if_false")
  /\ emission' = "emitted"
  /\ UNCHANGED <<ir, pc, starts, pending, operands, base>>

EndOfSegment ==
  /\ emission = "emitting" /\ Current > Len(ir)
  /\ emission' = "emitted"
  /\ UNCHANGED <<ir, pc, starts, pending, operands, base>>

\* The segment gets its address, every JMP its operand
\* (rp2a03_text_segment_backpatch_absolute_jumps), and the list is emptied.
PlaceSegment ==
  /\ emission = "emitted"
  /\ emission' = "placed"
  /\ base' \in Bases
  /\ LET jumps == {j \in ToSet(pending) : j.absolute} IN
     operands' = [b \in DOMAIN operands |->
                    IF \E j \in jumps : j.byte_index = b
                    THEN ((CHOOSE j \in jumps : j.byte_index = b).base_jump_pc + base') % AbsRange
                    ELSE operands[b]]
  /\ pending' = <<>>
  /\ UNCHANGED <<ir, pc, starts>>

TextInit ==
  /\ pc = 0 /\ starts = <<>> /\ pending = <<>> /\ base = 0
  /\ operands = [b \in {} |-> 0]
  /\ emission = "emitting"

TextNext ==
  EmitAlloc \/ EmitIfFalse \/ EmitJump \/ StopEmission \/ EndOfSegment \/ PlaceSegment

SegmentInit == ir \in Programs /\ TextInit

TextSpec == SegmentInit /\ [][TextNext]_textVars
-----------------------------------------------------------------------------
(* Properties.                                                             *)

\* Where the code of IR instruction i starts; one past the last is the end.
Start(i) == IF i \in DOMAIN starts THEN starts[i] ELSE pc

Target(i) == i + ir[i].offset

EmittedOf(op) == {i \in DOMAIN starts : ir[i].op = op}

\* The target of instruction i is behind the last emitted byte, or right there.
Reached(i) == Target(i) <= Len(starts) + 1

OperandOf(i) == Start(i + 1) - (IF ir[i].op = "if_false" THEN 1 ELSE 2)

\* A BEQ whose target has been reached holds the distance from the byte after
\* it to that target, modulo the byte it is stored in, and keeps it whatever
\* is emitted and patched later; until then its operand is 0.
BeqOperands ==
  \A i \in EmittedOf("if_false") :
    /\ OperandOf(i) \in DOMAIN operands
    /\ operands[OperandOf(i)] =
         IF Reached(i) THEN (Start(Target(i)) - Start(i + 1)) % RelRange ELSE 0

\* The branches that are still on the pending list: every JMP, and the BEQs
\* whose target is ahead.
Awaiting == {i \in EmittedOf("if_false") : ~Reached(i)} \cup EmittedOf("jump")

\* While code is emitted no branch is lost and none is patched twice: the
\* pending list holds every JMP and the BEQs whose target is still ahead, in
\* order, each with the number of IR instructions left to its target.
PendingIsExact ==
  emission # "placed" =>
    \E order \in [DOMAIN pending -> Awaiting] :
      /\ \A i \in Awaiting : \E k \in DOMAIN pending : order[k] = i
      /\ \A k, l \in DOMAIN pending : k < l => order[k] < order[l]
      /\ \A k \in DOMAIN pending :
           LET i == order[k] IN
           /\ pending[k].byte_index = OperandOf(i)
           /\ pending[k].absolute = (ir[i].op = "jump")
           /\ pending[k].ir_offset =
                IF Reached(i) THEN 0 ELSE Target(i) - (Len(starts) + 1)

\* Emitted in full, a segment has no branch left without a destination, and the
\* JMPs over an else branch that ends the segment go to its end.
FinalJmpsLand ==
  emission = "placed" /\ Len(starts) = Len(ir) =>
    \A i \in EmittedOf("jump") :
      Target(i) = Len(ir) + 1 => operands[OperandOf(i)] = (Start(Target(i)) + base) % AbsRange

\* zir.c:623-624: the unconditional jump is "backpatched to jump to the next
\* instruction following the else branch".
JmpsLand ==
  emission = "placed" /\ Len(starts) = Len(ir) =>
    \A i \in EmittedOf("jump") : operands[OperandOf(i)] = (Start(Target(i)) + base) % AbsRange
=============================================================================

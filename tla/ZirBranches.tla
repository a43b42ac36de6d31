---------------------------- MODULE ZirBranches ----------------------------
(***************************************************************************)
(* How zenit_generate_zir flattens if statements into one block of ZIR     *)
(* instructions.  visit_if_node emits an if_false with an unknown offset,  *)
(* visits the branches, which may hold more ifs, and patches the offset    *)
(* when the branch is over; with an else branch it emits a jump over it    *)
(* and patches that too.  Offsets count ZIR instructions and are uint16.   *)
(*                                                                         *)
(* The program being compiled is the environment: it decides which         *)
(* statement or which end of a branch comes next.                          *)
(***************************************************************************)
EXTENDS Integers, Sequences

CONSTANTS
  IpMax,       \* UINT16_MAX, the last instruction pointer a jump can reach
  MaxCode      \* bound: instructions of the block

ASSUME BoundsAssumption == IpMax \in Nat \ {0} /\ MaxCode \in Nat

VARIABLES
  code,        \* the instructions of the global block
  open,        \* the if statements being visited, the innermost last
  errors,      \* "Unaddressable jump" errors
  generated    \* has zenit_generate_zir returned?

zirVars == <<code, open, errors, generated>>

NoBranch == 0
Branches == {"then", "else"}

\* `under` is no field of ZIR: it remembers the branches that enclose an
\* instruction in the source, so that properties can tell what must run.
ZirInstr == [op : {"plain", "if_false", "jump"}, offset : Nat,
             under : Seq([test : Nat, branch : Branches])]

\* An if being visited: where its if_false and its jump are.
OpenIf == [test : Nat, exit : Nat, branch : Branches]

ZirTypeOK ==
  /\ code \in Seq(ZirInstr)
  /\ open \in Seq(OpenIf)
  /\ errors \in Nat
  /\ generated \in BOOLEAN
-----------------------------------------------------------------------------
Ip == Len(code)                             \* zir_block_get_ip

Unaddressable(ip) == ip + 1 > IpMax         \* fl_std_uint_add_overflow(ip, 1, ..)

Enclosing == [i \in DOMAIN open |-> [test |-> open[i].test, branch |-> open[i].branch]]

Emitted(op) == Append(code, [op |-> op, offset |-> 0, under |-> Enclosing])

Top == open[Len(open)]
Popped == SubSeq(open, 1, Len(open) - 1)

\* Mutants: the last instruction of the branch is taken for the one after it;
\* the two positions are swapped.
OffsetFrom_ToLast(branch, ip) == (ip - branch) % (IpMax + 1)
OffsetFrom_Swapped(branch, ip) == branch - (ip + 1)

\* The offset that takes the branch instruction at `branch` past the one at ip.
OffsetFrom(branch, ip) == (ip + 1 - branch) % (IpMax + 1)

Patched(instrs, branch, ip) == [instrs EXCEPT ![branch].offset = OffsetFrom(branch, ip)]

Visiting == ~generated
-----------------------------------------------------------------------------
\* A declaration or a cast: instructions without a jump.
EmitPlain ==
  /\ Visiting /\ Ip < MaxCode
  /\ code' = Emitted("plain")
  /\ UNCHANGED <<open, errors, generated>>

\* The condition is evaluated and the if_false emitted.  When its own position
\* is out of reach the branches are not visited at all.
EnterIf ==
  /\ Visiting /\ Ip < MaxCode
  /\ code' = Emitted("if_false")
  /\ IF Ip + 1 > IpMax
     THEN errors' = errors + 1 /\ UNCHANGED open
     ELSE /\ open' = Append(open, [test |-> Ip + 1, exit |-> NoBranch, branch |-> "then"])
          /\ UNCHANGED errors
  /\ UNCHANGED generated

\* The then branch is over and there is no else branch.
LeaveThen ==
  /\ Visiting /\ open # <<>> /\ Top.branch = "then"
  /\ open' = Popped
  /\ IF Unaddressable(Ip)
     THEN errors' = errors + 1 /\ UNCHANGED code
     ELSE code' = Patched(code, Top.test, Ip) /\ UNCHANGED errors
  /\ UNCHANGED generated

\* Mutant: the if_false is patched before the jump is emitted, so that it
\* skips to the jump and not to the else branch.
EnterElse_PatchFirst ==
  /\ Visiting /\ open # <<>> /\ Top.branch = "then" /\ Ip < MaxCode
  /\ LET patched == Patched(code, Top.test, Ip) IN
     code' = Append(patched, [op |-> "jump", offset |-> 0, under |-> Enclosing])
  /\ open' = Append(Popped, [Top EXCEPT !.exit = Ip + 1, !.branch = "else"])
  /\ UNCHANGED <<errors, generated>>

\* The then branch is over and an else branch follows: the jump that leaves
\* the then branch is part of it.
EnterElse ==
  /\ Visiting /\ open # <<>> /\ Top.branch = "then" /\ Ip < MaxCode
  /\ IF Unaddressable(Ip + 1)
     THEN /\ code' = Emitted("jump")
          /\ open' = Popped
          /\ errors' = errors + 1
     ELSE /\ code' = Patched(Emitted("jump"), Top.test, Ip + 1)
          /\ open' = Append(Popped, [Top EXCEPT !.exit = Ip + 1, !.branch = "else"])
          /\ UNCHANGED errors
  /\ UNCHANGED generated

\* Mutant: the if_false is patched once more, and the jump never.
LeaveElse_PatchesTest ==
  /\ Visiting /\ open # <<>> /\ Top.branch = "else" /\ ~Unaddressable(Ip)
  /\ open' = Popped
  /\ code' = Patched(code, Top.test, Ip)
  /\ UNCHANGED <<errors, generated>>

LeaveElse ==
  /\ Visiting /\ open # <<>> /\ Top.branch = "else"
  /\ open' = Popped
  /\ IF Unaddressable(Ip)
     THEN errors' = errors + 1 /\ UNCHANGED code
     ELSE code' = Patched(code, Top.exit, Ip) /\ UNCHANGED errors
  /\ UNCHANGED generated

\* zenit_generate_zir hands the program on only when errors = 0.
Generate ==
  /\ Visiting /\ open = <<>>
  /\ generated' = TRUE
  /\ UNCHANGED <<code, open, errors>>

ZirInit == code = <<>> /\ open = <<>> /\ errors = 0 /\ generated = FALSE

ZirNext ==
  EmitPlain \/ EnterIf \/ LeaveThen \/ EnterElse \/ LeaveElse \/ Generate

ZirSpec == ZirInit /\ [][ZirNext]_zirVars
-----------------------------------------------------------------------------
(* What the generator leaves to be patched, and what the flat code must mean. *)

\* Instruction i is the one of this open if that is to be patched next.
Awaits(o, i) == i = IF o.branch = "then" THEN o.test ELSE o.exit
Waiting(i) == \E k \in DOMAIN open : Awaits(open[k], i)

\* As long as every jump could be addressed, the branch instructions without an
\* offset are those that the calls of visit_if_node in progress will patch: the
\* if_false in a then branch, the jump in an else branch; and every call has its own.
OnlyOpenIfsWait ==
  errors = 0 =>
    /\ \A i \in DOMAIN code : code[i].op # "plain" => (code[i].offset = 0 <=> Waiting(i))
    /\ \A k \in DOMAIN open : \E i \in DOMAIN code :
         /\ Awaits(open[k], i)
         /\ code[i].op = (IF open[k].branch = "then" THEN "if_false" ELSE "jump")
         /\ \A m \in DOMAIN open : m # k => ~Awaits(open[m], i)

HandedOn == generated /\ errors = 0

Tests == {i \in DOMAIN code : code[i].op = "if_false"}

\* What the source program runs when each test i has the outcome truth[i].
SourceRuns(truth) ==
  {i \in DOMAIN code :
     \A k \in DOMAIN code[i].under :
       truth[code[i].under[k].test] = (code[i].under[k].branch = "then")}

Forward == \A i \in DOMAIN code :
  code[i].op # "plain" => code[i].offset > 0 /\ i + code[i].offset <= Len(code) + 1

\* What runs when instruction i is followed by succ[i]: from each instruction,
\* the ones executed from there on.
Executed(succ) ==
  LET from[i \in 1..(Len(code) + 1)] ==
        IF i > Len(code) THEN {} ELSE {i} \cup from[succ[i]]
  IN  from[1]

\* Does the instruction i leave the flow of the code?
BranchesAway(truth, i) == code[i].op = "jump" \/ (code[i].op = "if_false" /\ ~truth[i])

\* What the flat code runs.
ZirRuns(truth) ==
  Executed([i \in DOMAIN code |->
              IF BranchesAway(truth, i) THEN i + code[i].offset ELSE i + 1])

\* The ZIR program that is handed on runs, for every outcome of its tests,
\* exactly the instructions the nested if statements of the source select:
\* every offset was patched, forward, to the right place, and no jump that
\* could not be addressed went unreported.
StructuredExecution ==
  HandedOn => Forward /\ \A truth \in [Tests -> BOOLEAN] : ZirRuns(truth) = SourceRuns(truth)
=============================================================================

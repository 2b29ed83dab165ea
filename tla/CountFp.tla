------------------------------- MODULE CountFp -------------------------------
(***************************************************************************)
(* client/count_fp.hpp: how many floating point operations the client      *)
(* counts for one instruction.  An opcode is one that the code lists as    *)
(* doing a single operation, one that it lists as fused, or another one.   *)
(***************************************************************************)
EXTENDS Integers, FiniteSets

CONSTANT FLOATING_POINTS_ARM   \* the build: Arm, or x86_64

ASSUME BuildAssumption == FLOATING_POINTS_ARM \in BOOLEAN

(***************************************************************************)
(* An instruction: its opcode; the kind of register it writes; whether it  *)
(* works on a vector of elements, as an operand of its own tells, and the  *)
(* width of the elements, as the exponent that this operand gives; what it *)
(* does to memory, and how many bytes it accesses.                         *)
(***************************************************************************)
Instructions ==
  [op : {"single", "fused", "other"}, dst : {"s", "d", "q"}, vector : BOOLEAN, width : 0 .. 3,
   reads : BOOLEAN, writes : BOOLEAN, size : Nat, exclusive_store : BOOLEAN]
\* Arithmetic that writes a q register is on a vector: Arm has no scalars of
\* that size, so that count_fp_instr's assertion of the width operand holds.
Instr == {i \in Instructions : i.dst = "q" /\ i.op # "other" => i.vector}

\* count_operations_per_instr, of each build.
CountOperationsArm(i) == CASE i.op = "single" -> 1 [] i.op = "fused" -> 2 [] OTHER -> 0
CountOperationsX86(i) == IF i.op = "other" THEN 0 ELSE 1
CountOperationsPerInstr(i) ==
  IF FLOATING_POINTS_ARM THEN CountOperationsArm(i) ELSE CountOperationsX86(i)

\* is_vector_instruction
IsVectorInstruction(i) == i.dst = "q"
RegSize(i) == CASE i.dst = "s" -> 4 [] i.dst = "d" -> 8 [] OTHER -> 16   \* in bytes

\* count_fp_instr
CountFpInstr(i) ==
  IF FLOATING_POINTS_ARM /\ CountOperationsPerInstr(i) > 0 /\ IsVectorInstruction(i)
  THEN (RegSize(i) \div 2 ^ i.width) * CountOperationsPerInstr(i)
  ELSE CountOperationsPerInstr(i)
-----------------------------------------------------------------------------
\* What an Arm core does: the operation is done once, or on a vector once for
\* every element that starts in the register.
Elements(i) == IF i.vector THEN Cardinality({k \in 0 .. RegSize(i) - 1 : k % 2 ^ i.width = 0})
               ELSE 1
Operations(i) == CASE i.op = "other" -> {} [] i.op = "fused" -> {"mul", "add"} [] OTHER -> {i.op}
Executed(i) == Elements(i) * Cardinality(Operations(i))

(***************************************************************************)
(* A vector in a d register, half of a q register, which count_fp_instr    *)
(* takes for a scalar.                                                     *)
(***************************************************************************)
HalfVector(i) == i.vector /\ i.dst # "q" /\ i.op # "other"
=============================================================================

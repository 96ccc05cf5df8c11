------------------------------ MODULE MCKernel -------------------------------
(* Instances of Kernel for TLC. *)
EXTENDS Kernel, TLC

\* Stack blocks are interchangeable: getstk may return any that is free.
StackSymmetry == Permutations(Stacks)
==============================================================================

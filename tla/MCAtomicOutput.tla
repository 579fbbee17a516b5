--------------------------- MODULE MCAtomicOutput ---------------------------
(* Instances of AtomicOutput for TLC: processes are model values.          *)
EXTENDS AtomicOutput, TLC

MCInodes == 0..5
Symmetry == Permutations(Procs)
=============================================================================

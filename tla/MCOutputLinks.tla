--------------------------- MODULE MCOutputLinks ---------------------------
(* Instances of OutputLinks for TLC: processes are model values.           *)
EXTENDS OutputLinks, TLC

MCInodes == 0..6
Symmetry == Permutations(Procs)
=============================================================================

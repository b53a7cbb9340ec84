------------------------------ MODULE PcdLayout ------------------------------
(* What the PCD databases and the NvStore have in common. *)
EXTENDS Integers

DeltaSize == 4           \* sizeof(PCD_DATA_DELTA)
ALIGN_VALUE(n, a) == ((n + a - 1) \div a) * a
=============================================================================

----------------------------- MODULE MCRecovery -----------------------------
(***************************************************************************)
(* A small pool for TLC: shares of five bytes, cells of two, so that no    *)
(* boundary between regions is a multiple of the cell size.                *)
(***************************************************************************)
EXTENDS RecoveryInv, TLC

Symmetry == Permutations(Worker)
=============================================================================

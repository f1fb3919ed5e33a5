----------------------------- MODULE MCSaveSlot -----------------------------
(* A slot with two maps.                                                     *)
EXTENDS SaveSlot, TLC
CONSTANTS m1, m2
MapSymmetry == Permutations(Maps)
=============================================================================

------------------------------ MODULE MCMemory ------------------------------
(* The two keepers of memory: three files of different sizes compete for a  *)
(* cache that holds two; or three handles share a small arena, in which     *)
(* moving blocks merges and splits free ones.                               *)
EXTENDS Memory

CONSTANTS junk, nowhere, place1, place2, h1, h2, h3, h4
ThreeSizes == [k \in Key |-> k]
ShortReads == [k \in Key |-> 1..k]
BlockSymmetry == Permutations(Handle) \cup Permutations(Place)
=============================================================================

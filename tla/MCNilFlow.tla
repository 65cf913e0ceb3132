------------------------------ MODULE MCNilFlow ------------------------------
(* The nil check on bodies of any length, with few names, variables and     *)
(* blocks.                                                                  *)
EXTENDS NilFlow, TLC

NameSymmetry == Permutations(Names)
=============================================================================

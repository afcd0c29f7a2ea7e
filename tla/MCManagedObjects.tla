------------------------- MODULE MCManagedObjects -------------------------
(***************************************************************************)
(* ManagedObjects for TLC: identical data objects are interchangeable.     *)
(***************************************************************************)
EXTENDS ManagedObjects, TLC

DataSymmetry == Permutations(Datas)
=============================================================================

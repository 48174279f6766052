---------------------------- MODULE MCLocalUsers ----------------------------
(***************************************************************************)
(* Local users on small instances.                                         *)
(***************************************************************************)
EXTENDS LocalUsers, TLC

Symmetry == Permutations(Users) \cup Permutations(Handlers)
=============================================================================

-------------------------- MODULE MCLoginThrottle --------------------------
(***************************************************************************)
(* Instances of LoginThrottle for TLC.                                     *)
(***************************************************************************)
EXTENDS LoginThrottle, TLC

\* Accounts, requests and objects are interchangeable.
Symmetry ==
    Permutations(Accounts) \cup Permutations(Handlers) \cup Permutations(Entries)
=============================================================================

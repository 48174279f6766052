--------------------------- MODULE MCShareAccess ---------------------------
(***************************************************************************)
(* Instances of ShareAccess for TLC.                                       *)
(***************************************************************************)
EXTENDS ShareAccess, TLC

\* Requests are interchangeable.
HandlerSymmetry == Permutations(Handlers)
=============================================================================

----------------------- MODULE MCInformationRequests -----------------------
(***************************************************************************)
(* Instances of InformationRequests for TLC.                               *)
(***************************************************************************)
EXTENDS InformationRequests, TLC

\* Web requests are interchangeable.
HandlerSymmetry == Permutations(Handlers)
=============================================================================

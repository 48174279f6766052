-------------------------- MODULE MCAuthenticators --------------------------
(***************************************************************************)
(* One account with an authenticator app on a small instance.              *)
(***************************************************************************)
EXTENDS Authenticators, TLC

BrowserSymmetry == Permutations(Browsers)
=============================================================================

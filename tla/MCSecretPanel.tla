--------------------------- MODULE MCSecretPanel ---------------------------
(***************************************************************************)
(* The instance of SecretPanel that TLC checks: a right and a wrong        *)
(* password, two overlapping decryptions, two copies.                      *)
(***************************************************************************)
EXTENDS SecretPanel
=============================================================================

------------------------- MODULE MCEncryptingForm -------------------------
(***************************************************************************)
(* The instance of EncryptingForm that TLC checks: a text and the empty    *)
(* field, a short password and two long ones, two overlapping decryptions. *)
(***************************************************************************)
EXTENDS EncryptingForm
=============================================================================

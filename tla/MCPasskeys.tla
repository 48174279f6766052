----------------------------- MODULE MCPasskeys -----------------------------
(***************************************************************************)
(* The instance of Passkeys that TLC checks.  The challenges and ids are   *)
(* of one to three bytes and have sextets 62 and 63 among theirs.          *)
(***************************************************************************)
EXTENDS Passkeys

MCCounting == {<<254>>}
MCCredentials == MCCounting \cup {<<248, 1>>, <<2, 3, 255>>}
MCChallenges == <<<<251>>, <<0, 31, 255>>>>
=============================================================================

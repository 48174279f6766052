------------------------- MODULE MCPasswordFields -------------------------
(***************************************************************************)
(* The instance of PasswordFields that TLC checks: one character of each   *)
(* class, a policy of four characters, generated passwords of five.        *)
(***************************************************************************)
EXTENDS PasswordFields

MCTyped == {<<>>,
            <<"a", "A", "2">>,              \* too weak
            <<"a", "A", "2", "!">>,         \* good for both policies
            <<"a", "A", "2", "acute e">>}   \* good for the page only
=============================================================================

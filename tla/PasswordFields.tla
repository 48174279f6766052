-------------------------- MODULE PasswordFields --------------------------
(***************************************************************************)
(* New passwords (site.js, on the pages that create a user or change a     *)
(* password): a field under the password policy with its strength meter, a *)
(* confirmation, and a button that generates a password into both.  The    *)
(* server checks a policy of its own (LocalUserPasswordPolicy).            *)
(***************************************************************************)
EXTENDS Integers, Sequences, FiniteSets

CONSTANTS
    Lower, Upper, Digit,   \* a-z, A-Z, 0-9
    Symbol,                \* neither letters nor digits
    Accented,              \* lower-case letters beyond a-z
    PickLower, PickUpper, PickDigit, PickSymbol,  \* passwordCharacterSets
    MinimumLength,         \* 12 in the code
    GeneratedLength,       \* 20 in the code
    Typed,                 \* what a user enters, the empty field among it
    Again                  \* bound: FALSE, a page generates once only

ASSUME AgainAssumption == Again \in BOOLEAN
ASSUME AlphabetAssumption ==
    /\ PickLower \subseteq Lower /\ PickUpper \subseteq Upper
    /\ PickDigit \subseteq Digit /\ PickSymbol \subseteq Symbol
ASSUME LengthAssumption ==
    /\ MinimumLength \in Nat \ {0} /\ GeneratedLength \in Nat
    /\ GeneratedLength >= MinimumLength /\ GeneratedLength >= 4

Characters == Lower \cup Upper \cup Digit \cup Symbol \cup Accented

ASSUME TypedAssumption == Typed \subseteq Seq(Characters) /\ <<>> \in Typed

VARIABLES
    page,         \* "create" has the button that generates a password, and
                  \* "edit" leaves the browser's own validation on
    target,       \* the field under the policy: value and custom validity
    confirm,      \* the confirmation: value and custom validity
    meter,        \* the number of requirements met and the label
    shown,        \* the generated password is shown as text
    generator,    \* the locals of generatePassword
    silent,       \* history: a field changed without an "input" event
    posted        \* the passwords of the post under way, <<>> for none

fieldVars == <<page, target, confirm, meter, shown, generator, silent, posted>>

Requirements == {"length", "lowercase", "uppercase", "number", "symbol"}

Pages == {"create", "edit", "profile"}

Labels == {"Enter a password", "Weak", "Fair", "Strong"}

-----------------------------------------------------------------------------
(* The two policies.                                                       *)

Contains(value, class) == \E i \in 1..Len(value) : value[i] \in class

Meets(value, requirement) ==
    CASE requirement = "length"    -> Len(value) >= MinimumLength
      [] requirement = "lowercase" -> Contains(value, Lower)
      [] requirement = "uppercase" -> Contains(value, Upper)
      [] requirement = "number"    -> Contains(value, Digit)
      [] requirement = "symbol"    -> Contains(value, Symbol \cup Accented)

IsValid(value) == \A r \in Requirements : Meets(value, r)

Met(value) == Cardinality({r \in Requirements : Meets(value, r)})

Label(value) ==
    IF value = <<>> THEN "Enter a password"
    ELSE IF Met(value) <= 2 THEN "Weak"
    ELSE IF Met(value) < 5 THEN "Fair" ELSE "Strong"

AnalyzePassword(value) == [level |-> Met(value), label |-> Label(value)]

ServerAccepts(value) ==
    /\ Len(value) >= MinimumLength
    /\ Contains(value, Lower \cup Accented)
    /\ Contains(value, Upper)
    /\ Contains(value, Digit)
    /\ Contains(value, Symbol)

-----------------------------------------------------------------------------
(* Generating a password: four picks, as many more as are missing, and the *)
(* shuffle.  All of it runs within one click.                              *)

PickAny == PickLower \cup PickUpper \cup PickDigit \cup PickSymbol

IdleGenerator == [step |-> "idle", characters |-> <<>>, index |-> 0]

Idle == generator.step = "idle" /\ posted = <<>>

PageUnchanged == UNCHANGED <<page, target, confirm, meter, shown, silent, posted>>

(* Mutant: the first four are picked from all characters, too.             *)
PickFourOfAny ==
    /\ Idle /\ page = "create" /\ (Again \/ ~shown)
    /\ \E a \in PickAny, b \in PickAny, c \in PickAny, d \in PickAny :
          generator' = [step |-> "filling", characters |-> <<a, b, c, d>>,
                        index |-> 0]
    /\ PageUnchanged

PickFour ==
    /\ Idle /\ page = "create" /\ (Again \/ ~shown)
    /\ \E a \in PickLower, b \in PickUpper, c \in PickDigit, d \in PickSymbol :
          generator' = [step |-> "filling", characters |-> <<a, b, c, d>>,
                        index |-> 0]
    /\ PageUnchanged

PickMore ==
    /\ generator.step = "filling"
    /\ Len(generator.characters) < GeneratedLength
    /\ \E c \in PickAny :
          generator' = [generator EXCEPT !.characters = Append(@, c)]
    /\ PageUnchanged

StartShuffle ==
    /\ generator.step = "filling"
    /\ Len(generator.characters) >= GeneratedLength
    /\ generator' = [generator EXCEPT !.step = "shuffling",
                                      !.index = Len(generator.characters)]
    /\ PageUnchanged

\* getRandomIndex(n), counted from 1 as the sequence is.
RandomIndex(n) == 1..n

(* Mutant: the swap loses one of the two characters.                       *)
SwapInPlace(s, i, j) == [s EXCEPT ![i] = s[j]]

Swap(s, i, j) == [s EXCEPT ![i] = s[j], ![j] = s[i]]

ShuffleCharacters ==
    /\ generator.step = "shuffling" /\ generator.index > 1
    /\ \E j \in RandomIndex(generator.index) :
          generator' = [generator EXCEPT
                            !.characters = Swap(@, generator.index, j),
                            !.index = @ - 1]
    /\ PageUnchanged

-----------------------------------------------------------------------------
(* The handlers of the fields.                                             *)

Confirmed(value, wanted) == value = <<>> \/ value = wanted

UpdatePasswordConfirmation(wanted, value) ==
    confirm' = [value |-> value, ok |-> Confirmed(value, wanted)]

(* Mutant: a new password leaves the confirmation's verdict alone.         *)
UpdatePasswordAlone(value, confirmation) ==
    /\ target' = [value |-> value, ok |-> value = <<>> \/ IsValid(value)]
    /\ meter' = AnalyzePassword(value)
    /\ confirm' = [confirm EXCEPT !.value = confirmation]

UpdatePasswordInput(value, confirmation) ==
    /\ target' = [value |-> value, ok |-> value = <<>> \/ IsValid(value)]
    /\ meter' = AnalyzePassword(value)
    /\ UpdatePasswordConfirmation(value, confirmation)

SetGeneratedPassword ==
    /\ generator.step = "shuffling" /\ generator.index = 1
    /\ UpdatePasswordInput(generator.characters, generator.characters)
    /\ shown' = TRUE
    /\ silent' = FALSE
    /\ generator' = IdleGenerator
    /\ UNCHANGED <<page, posted>>

EnterPassword(value) ==
    /\ Idle
    /\ UpdatePasswordInput(value, confirm.value)
    /\ silent' = FALSE
    /\ UNCHANGED <<page, shown, generator, posted>>

EnterConfirmation(value) ==
    /\ Idle
    /\ UpdatePasswordConfirmation(target.value, value)
    /\ UNCHANGED <<page, target, meter, shown, generator, silent, posted>>

(* A password manager, or the browser as it restores a page, writes to the *)
(* fields without an event.                                                *)
FillSilently(value, confirmation) ==
    /\ Idle
    /\ target' = [target EXCEPT !.value = value]
    /\ confirm' = [confirm EXCEPT !.value = confirmation]
    /\ silent' = TRUE
    /\ UNCHANGED <<page, meter, shown, generator, posted>>

-----------------------------------------------------------------------------
(* Submitting.  Both fields are required.  On "edit" the browser validates *)
(* by the verdicts that are there and sends no event while one is bad; on  *)
(* the other pages jQuery validation has turned that off.                  *)

Filled(field) == field.ok /\ field.value # <<>>

(* Mutant: the verdicts of the last events are believed.                   *)
SubmitUnchecked ==
    /\ Idle
    /\ Filled(target) /\ Filled(confirm)
    /\ posted' = <<target.value, confirm.value>>
    /\ UNCHANGED <<page, target, confirm, meter, shown, generator, silent>>

Submit ==
    /\ Idle
    /\ page = "edit" => Filled(target) /\ Filled(confirm)
    /\ UpdatePasswordInput(target.value, confirm.value)
    /\ silent' = FALSE
    /\ \/ posted' = <<>>   \* another field is bad
       \/ Filled(target') /\ Filled(confirm') /\ posted' = <<target.value, confirm.value>>
    /\ UNCHANGED <<page, shown, generator>>

\* The fields are not filled in again, whatever the server answered.
Load ==
    /\ posted # <<>>
    /\ target' = [value |-> <<>>, ok |-> TRUE]
    /\ confirm' = [value |-> <<>>, ok |-> TRUE]
    /\ meter' = AnalyzePassword(<<>>)
    /\ shown' = FALSE
    /\ silent' = FALSE
    /\ posted' = <<>>
    /\ UNCHANGED <<page, generator>>

FieldInit ==
    /\ page \in Pages
    /\ target = [value |-> <<>>, ok |-> TRUE]
    /\ confirm = [value |-> <<>>, ok |-> TRUE]
    /\ meter = AnalyzePassword(<<>>)
    /\ shown = FALSE
    /\ generator = IdleGenerator
    /\ silent = FALSE
    /\ posted = <<>>

Generate == PickFour \/ PickMore \/ StartShuffle \/ ShuffleCharacters

FieldNext ==
    \/ Generate
    \/ SetGeneratedPassword
    \/ \E v \in Typed : EnterPassword(v) \/ EnterConfirmation(v)
    \/ \E v, w \in Typed : FillSilently(v, w)
    \/ Submit
    \/ Load

FieldSpec == FieldInit /\ [][FieldNext]_fieldVars

-----------------------------------------------------------------------------
(* Properties.                                                             *)

Field == [value: Seq(Characters), ok: BOOLEAN]

(* Type invariant.  A generator at work never has more characters than it  *)
(* is to generate, and its index stays within them.                        *)
FieldTypeOK ==
    /\ page \in Pages /\ shown \in BOOLEAN /\ silent \in BOOLEAN
    /\ target \in Field /\ confirm \in Field
    /\ meter \in [level: 0..5, label: Labels]
    /\ generator \in [step: {"idle", "filling", "shuffling"},
                      characters: Seq(Characters), index: 0..GeneratedLength]
    /\ generator.step = "filling" =>
          Len(generator.characters) \in 4..GeneratedLength
    /\ generator.step = "shuffling" =>
          /\ Len(generator.characters) = GeneratedLength
          /\ generator.index \in 1..GeneratedLength
    /\ posted = <<>> \/ posted \in Seq(Characters) \X Seq(Characters)

(* A generated password passes the page's own policy and the server's,     *)
(* whatever the random numbers are: the four classes are there before the  *)
(* shuffle, and no swap of the shuffle loses one of them (site.js:78-103,  *)
(* LocalUserPasswordPolicy.cs:9-40).                                       *)
GeneratedIsStrong ==
    generator.step = "shuffling" =>
        /\ IsValid(generator.characters)
        /\ ServerAccepts(generator.characters)

(* What is posted has passed the policy and equals its confirmation, also  *)
(* when a field was filled without an event since it was last checked      *)
(* (site.js:223-237, 332-345).                                             *)
SubmittedIsSound ==
    posted # <<>> => IsValid(posted[1]) /\ posted[2] = posted[1]

(* The verdicts and the meter are about what the fields hold, in whatever  *)
(* order the two are edited and generated: a change of the password is a   *)
(* change of what the confirmation is measured by (site.js:163-183).       *)
VerdictsFresh ==
    ~silent =>
        /\ target.ok = (target.value = <<>> \/ IsValid(target.value))
        /\ confirm.ok = Confirmed(confirm.value, target.value)
        /\ meter = AnalyzePassword(target.value)

=============================================================================

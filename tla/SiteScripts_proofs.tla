-------------------------- MODULE SiteScripts_proofs --------------------------
(***************************************************************************)
(* Proofs about the two parts of site.js: SecretPanel, for every set of    *)
(* passwords, of decryptions in flight and of clicks on "Copy", and        *)
(* PasswordFields, for all alphabets, all lengths the policy and the       *)
(* generator may have, and whatever a user types.                          *)
(***************************************************************************)
EXTENDS SecretPanel, PasswordFields, FiniteSetTheorems, TLAPS

-----------------------------------------------------------------------------
(*                         I. A secret on a page                           *)

(* The label to return to is recorded before the first timer is set, and   *)
(* is not recorded before the label has changed.                           *)
LabelKept ==
  /\ copyButton.timer => copyButton.original = "Copy"
  /\ copyButton.original = "" => copyButton.label = "Copy"

(* What is on its way to the clipboard was read while the field had it.    *)
PlaintextRead ==
  \A c \in Copies : copies[c].step = "writing" => copies[c].value = Secret

PanelIInv ==
  PanelTypeOK /\ PanelConsistent /\ CopiedIsSecret /\ LabelKept /\ PlaintextRead

-----------------------------------------------------------------------------
(* The state in three parts: each action disturbs one or two of them.      *)

ScreenInv ==
  /\ raw \in {"", Secret} /\ screen \in Screen /\ buttonsOff \in BOOLEAN
  /\ ScreenConsistent
  /\ buttonsOff <=> raw = ""

PanelInv ==
  /\ panel \in Panel
  /\ attempts \in [Attempts -> [step: {"idle", "frame", "decrypting"},
                                key: Passwords \cup {NoPassword}]]
  /\ \A a \in Attempts : attempts[a].step # "idle" => encrypted
  /\ panel.status = "success" => raw = Secret
  /\ panel.status = "working" \/ panel.buttonOff
        => \E a \in Attempts : attempts[a].step # "idle"

CopyInv ==
  /\ copies \in [Copies -> CopyClick]
  /\ clipboard \in {"", Secret}
  /\ copyButton \in CopyButton
  /\ CopiedIsSecret /\ LabelKept /\ PlaintextRead

SettingInv == encrypted \in BOOLEAN /\ webCrypto \in BOOLEAN /\ secure \in BOOLEAN

LEMMA Parts == PanelIInv <=> SettingInv /\ ScreenInv /\ PanelInv /\ CopyInv
BY DEF PanelIInv, PanelTypeOK, PanelConsistent, ButtonsMatchSecret, SettingInv,
       ScreenInv, PanelInv, CopyInv

LEMMA PanelInitInv == PanelInit => SettingInv /\ ScreenInv /\ PanelInv /\ CopyInv
<1> SUFFICES ASSUME PanelInit PROVE SettingInv /\ ScreenInv /\ PanelInv /\ CopyInv
  OBVIOUS
<1> USE SecretAssumption, PasswordsAssumption DEF PanelInit
<1>1. SettingInv
  BY DEF SettingInv
<1>2. ScreenInv
  BY DEF ScreenInv, Screen, Placeholders, ScreenConsistent
<1>3. PanelInv
  BY DEF PanelInv, Panel, IdleAttempt
<1>4. CopyInv
  BY DEF CopyInv, CopyButton, CopiedIsSecret, LabelKept, PlaintextRead, CopyClick
<1>5. QED  BY <1>1, <1>2, <1>3, <1>4

-----------------------------------------------------------------------------
(* What leaves a part alone keeps it.                                      *)

LEMMA ScreenSame ==
  ASSUME ScreenInv, UNCHANGED view
  PROVE  ScreenInv'
<1>1. raw' = raw /\ screen' = screen /\ buttonsOff' = buttonsOff
  BY DEF view
<1>2. raw' \in {"", Secret} /\ screen' \in Screen /\ buttonsOff' \in BOOLEAN
  BY <1>1 DEF ScreenInv
<1>3. ScreenConsistent'
  BY <1>1 DEF ScreenInv, ScreenConsistent
<1>4. buttonsOff' <=> raw' = ""
  BY <1>1 DEF ScreenInv
<1>5. QED  BY <1>2, <1>3, <1>4 DEF ScreenInv

LEMMA PanelSame ==
  PanelInv /\ UNCHANGED <<decryption, encrypted, raw>> => PanelInv'
BY DEF PanelInv, decryption, Panel

LEMMA CopySame ==
  ASSUME CopyInv, UNCHANGED <<copying, secure>>
  PROVE  CopyInv'
<1>1. copies' = copies /\ clipboard' = clipboard /\ copyButton' = copyButton
  BY DEF copying
<1>2. secure' => secure
  OBVIOUS
<1>3. copies' \in [Copies -> CopyClick] /\ PlaintextRead'
  BY <1>1 DEF CopyInv, PlaintextRead
<1>4. clipboard' \in {"", Secret} /\ copyButton' \in CopyButton
  BY <1>1 DEF CopyInv
<1>5. CopiedIsSecret'
  BY <1>1, <1>2 DEF CopyInv, CopiedIsSecret
<1>6. LabelKept'
  BY <1>1 DEF CopyInv, LabelKept
<1>7. QED  BY <1>3, <1>4, <1>5, <1>6 DEF CopyInv

-----------------------------------------------------------------------------
(* The steps that do not.                                                  *)

LEMMA ToggleStep ==
  ASSUME ScreenInv, ToggleSecret
  PROVE  ScreenInv'
<1>1. raw = Secret /\ raw' = raw /\ buttonsOff = FALSE /\ buttonsOff' = FALSE
  BY DEF ScreenInv, ToggleSecret
<1>2. screen \in Screen /\ screen.placeholder = "mask"
  BY <1>1 DEF ScreenInv, ScreenConsistent
<1>3. CASE screen.revealed
  <2>1. screen' = [screen EXCEPT !.revealed = FALSE, !.output = "mask",
                                 !.dimmed = TRUE, !.toggle = "Show"]
    BY <1>2, <1>3 DEF ToggleSecret, SetSecretState, Screen
  <2>2. screen' \in Screen /\ ScreenConsistent'
    BY <1>2, <2>1 DEF Screen, Placeholders, ScreenConsistent
  <2>3. QED  BY <1>1, <2>2, SecretAssumption DEF ScreenInv
<1>4. CASE ~screen.revealed
  <2>1. screen' = [screen EXCEPT !.revealed = TRUE, !.output = Secret,
                                 !.dimmed = FALSE, !.toggle = "Hide"]
    BY <1>1, <1>2, <1>4 DEF ToggleSecret, SetSecretState, Screen
  <2>2. screen' \in Screen /\ ScreenConsistent'
    BY <1>2, <2>1 DEF Screen, Placeholders, ScreenConsistent
  <2>3. QED  BY <1>1, <2>2, SecretAssumption DEF ScreenInv
<1>5. QED  BY <1>3, <1>4

\* A flash records the label once, and only the true label "Copy".
LEMMA Flash ==
  ASSUME CopyInv, NEW label \in {"Copied", "Copy failed"},
         FlashButtonLabel(label)
  PROVE  /\ copyButton' \in CopyButton
         /\ copyButton'.label = label
         /\ LabelKept'
<1>1. copyButton.original \in {"", "Copy"}
  BY DEF CopyInv, CopyButton
<1>2. copyButton.original = "" => copyButton.label = "Copy"
  BY DEF CopyInv, LabelKept
<1>3. copyButton' = [label |-> label, original |-> "Copy", timer |-> TRUE]
  BY <1>1, <1>2 DEF FlashButtonLabel
<1>4. QED  BY <1>3 DEF CopyButton, LabelKept

\* The handler of one click is all there is to look at.
LEMMA ClickMoves ==
  ASSUME CopyInv, NEW c \in Copies, NEW q \in CopyClick,
         copies' = [copies EXCEPT ![c] = q],
         q.step = "writing" => q.value = Secret
  PROVE  copies' \in [Copies -> CopyClick] /\ PlaintextRead'
<1>1. copies \in [Copies -> CopyClick] /\ PlaintextRead
  BY DEF CopyInv
<1>2. copies'[c] = q /\ \A d \in Copies \ {c} : copies'[d] = copies[d]
  BY <1>1
<1>3. QED  BY <1>1, <1>2 DEF PlaintextRead

LEMMA CopyClicked ==
  ASSUME CopyInv, ScreenInv, SettingInv, NEW c \in Copies, Copy(c)
  PROVE  CopyInv'
<1>0. copies' \in [Copies -> CopyClick] /\ PlaintextRead'
  <2>1. CopyValue = Secret
    BY DEF Copy, CopyValue, ScreenInv
  <2>2. CASE copies' = [copies EXCEPT ![c] = [step |-> "writing", value |-> Secret]]
    <3>1. [step |-> "writing", value |-> Secret] \in CopyClick
      BY DEF CopyClick
    <3>2. QED  BY <2>2, <3>1, ClickMoves
  <2>3. CASE copies' = [copies EXCEPT ![c].step = "done"]
    <3>1. copies[c] \in CopyClick
      BY DEF CopyInv
    <3>2. [copies[c] EXCEPT !.step = "done"] \in CopyClick
          /\ [copies[c] EXCEPT !.step = "done"].step = "done"
      BY <3>1 DEF CopyClick
    <3>3. QED  BY <2>3, <3>2, ClickMoves
  <2>4. QED  BY <2>1, <2>2, <2>3 DEF Copy
<1>1. CASE secure
  BY <1>0, <1>1 DEF CopyInv, Copy, setting, CopiedIsSecret, LabelKept
<1>2. CASE ~secure
  <2>1. FlashButtonLabel("Copied") /\ clipboard' \in {clipboard, CopyValue}
    BY <1>2 DEF Copy
  <2>2. clipboard' \in {"", Secret}
    BY <2>1 DEF CopyInv, ScreenInv, CopyValue
  <2>3. ~secure'
    BY <1>2 DEF Copy, setting
  <2>4. copyButton' \in CopyButton /\ LabelKept'
    BY <2>1, Flash
  <2>5. QED  BY <1>0, <2>2, <2>3, <2>4 DEF CopyInv, CopiedIsSecret
<1>3. QED  BY <1>1, <1>2

LEMMA CopyEnds ==
  ASSUME CopyInv, NEW c \in Copies, CopyStep(c)
  PROVE  CopyInv'
<1>0. copies' \in [Copies -> CopyClick] /\ PlaintextRead'
  <2>1. copies' = [copies EXCEPT ![c] = [step |-> "done", value |-> ""]]
    BY DEF CopyStep, Copied, CopyFails, CopyAnswered
  <2>2. [step |-> "done", value |-> ""] \in CopyClick
    BY DEF CopyClick
  <2>3. QED  BY <2>1, <2>2, ClickMoves
<1>1. CASE Copied(c)
  <2>1. FlashButtonLabel("Copied") /\ clipboard' = Secret
    BY <1>1 DEF Copied, CopyAnswered, CopyInv, PlaintextRead
  <2>2. QED  BY <1>0, <2>1, Flash DEF CopyInv, CopiedIsSecret
<1>2. CASE CopyFails(c)
  <2>1. FlashButtonLabel("Copy failed") /\ clipboard' = clipboard
    BY <1>2 DEF CopyFails, CopyAnswered
  <2>2. copyButton' \in CopyButton /\ copyButton'.label = "Copy failed" /\ LabelKept'
    BY <2>1, Flash
  <2>3. QED  BY <1>0, <2>1, <2>2 DEF CopyInv, CopiedIsSecret
<1>3. QED  BY <1>1, <1>2 DEF CopyStep

LEMMA LabelRestored == CopyInv /\ RestoreLabel => CopyInv'
BY DEF CopyInv, RestoreLabel, CopyButton, LabelKept, CopiedIsSecret, PlaintextRead, setting

LEMMA PasswordTyped ==
  ASSUME PanelInv, NEW k \in Passwords \cup {NoPassword}, TypePassword(k)
  PROVE  PanelInv'
BY DEF PanelInv, TypePassword, Panel, setting, view

LEMMA RefusedAtOnce == PanelInv /\ DecryptRefused => PanelInv'
BY DEF PanelInv, DecryptRefused, Panel, setting, view

LEMMA DecryptionBegun ==
  ASSUME PanelInv, NEW a \in Attempts, DecryptFromInput(a) \/ Decrypt(a)
  PROVE  PanelInv'
<1>1. attempts' \in [Attempts -> [step: {"idle", "frame", "decrypting"},
                                  key: Passwords \cup {NoPassword}]]
  BY DEF PanelInv, DecryptFromInput, Decrypt, Panel
<1>2. panel' \in Panel
  BY DEF PanelInv, DecryptFromInput, Decrypt, Panel
<1>3. attempts'[a].step # "idle" /\ encrypted /\ encrypted'
  BY DEF PanelInv, DecryptFromInput, Decrypt, setting
<1>4. panel'.status = "success" => raw' = Secret
  BY DEF PanelInv, DecryptFromInput, Decrypt, Panel, view
<1>5. QED  BY <1>1, <1>2, <1>3, <1>4 DEF PanelInv

LEMMA DecryptionEnded ==
  ASSUME ScreenInv, PanelInv, NEW a \in Attempts,
         Decrypted(a) \/ DecryptionFails(a)
  PROVE  ScreenInv' /\ PanelInv'
<1>1. attempts' = [attempts EXCEPT ![a] = IdleAttempt] /\ encrypted' = encrypted
  BY DEF Decrypted, DecryptionFails, setting
<1>2. attempts' \in [Attempts -> [step: {"idle", "frame", "decrypting"},
                                  key: Passwords \cup {NoPassword}]]
  BY <1>1 DEF PanelInv, IdleAttempt
<1>3. \A b \in Attempts : attempts'[b].step # "idle" => encrypted'
  BY <1>1 DEF PanelInv, IdleAttempt
<1>4. panel' \in Panel /\ panel'.status # "working" /\ ~panel'.buttonOff
  <2>0. panel \in Panel
    BY DEF PanelInv
  <2>1. CASE Decrypted(a)
    BY <2>1 DEF Panel, Decrypted
  <2>2. CASE DecryptionFails(a)
    <3>1. panel' = [panel EXCEPT !.buttonOff = FALSE, !.status = "error"]
      BY <2>2 DEF DecryptionFails
    <3>2. QED  BY <2>0, <3>1 DEF Panel
  <2>3. QED  BY <2>1, <2>2
<1>5. panel'.status = "success" => raw' = Secret
  BY DEF PanelInv, Panel, Decrypted, DecryptionFails
<1>6. ScreenInv'
  <2>1. CASE Decrypted(a)
    BY <2>1, SecretAssumption
       DEF ScreenInv, ScreenConsistent, Decrypted, Masked, Screen, Placeholders
  <2>2. CASE DecryptionFails(a)
    BY <2>2, SecretAssumption DEF ScreenInv, ScreenConsistent, DecryptionFails
  <2>3. QED  BY <2>1, <2>2
<1>7. QED  BY <1>2, <1>3, <1>4, <1>5, <1>6 DEF PanelInv

-----------------------------------------------------------------------------

LEMMA PanelStepInv == PanelIInv /\ [PanelNext]_panelVars => PanelIInv'
<1> SUFFICES ASSUME SettingInv, ScreenInv, PanelInv, CopyInv, [PanelNext]_panelVars
             PROVE  SettingInv' /\ ScreenInv' /\ PanelInv' /\ CopyInv'
  BY Parts DEF PanelIInv, PanelTypeOK, PanelConsistent, ButtonsMatchSecret, SettingInv,
               ScreenInv, PanelInv, CopyInv
<1>0. SettingInv' /\ UNCHANGED setting
  <2>1. UNCHANGED setting
    BY DEF PanelNext, panelVars, ToggleSecret, Copy, CopyStep, Copied, CopyFails, CopyAnswered,
           RestoreLabel, TypePassword, DecryptRefused, DecryptFromInput,
           DecryptionStep, Decrypt, Decrypted, DecryptionFails
  <2>2. QED  BY <2>1 DEF SettingInv, setting
<1>1. UNCHANGED <<encrypted, secure>>
  BY <1>0 DEF setting
<1>2. CASE ToggleSecret
  BY <1>0, <1>1, <1>2, ToggleStep, PanelSame, CopySame DEF ToggleSecret
<1>3. ASSUME NEW c \in Copies, Copy(c)
      PROVE  ScreenInv' /\ PanelInv' /\ CopyInv'
  <2>1. UNCHANGED <<view, decryption, raw>>
    BY <1>3 DEF Copy, view
  <2>2. QED  BY <1>1, <1>3, <2>1, CopyClicked, ScreenSame, PanelSame
<1>4. ASSUME NEW c \in Copies, CopyStep(c)
      PROVE  ScreenInv' /\ PanelInv' /\ CopyInv'
  <2>1. UNCHANGED <<view, decryption, raw>>
    BY <1>4 DEF CopyStep, Copied, CopyFails, CopyAnswered, view
  <2>2. QED  BY <1>1, <1>4, <2>1, CopyEnds, ScreenSame, PanelSame
<1>5. CASE RestoreLabel
  <2>1. UNCHANGED <<view, decryption, raw>>
    BY <1>5 DEF RestoreLabel, view
  <2>2. QED  BY <1>0, <1>1, <1>5, <2>1, LabelRestored, ScreenSame, PanelSame
<1>6. ASSUME NEW k \in Passwords \cup {NoPassword}, TypePassword(k)
      PROVE  ScreenInv' /\ PanelInv' /\ CopyInv'
  BY <1>1, <1>6, PasswordTyped, ScreenSame, CopySame DEF TypePassword
<1>7. CASE DecryptRefused
  BY <1>0, <1>1, <1>7, RefusedAtOnce, ScreenSame, CopySame DEF DecryptRefused
<1>8. ASSUME NEW a \in Attempts, DecryptFromInput(a) \/ DecryptionStep(a)
      PROVE  ScreenInv' /\ PanelInv' /\ CopyInv'
  <2>1. CopyInv'
    BY <1>1, <1>8, CopySame DEF DecryptFromInput, DecryptionStep, Decrypt,
                                Decrypted, DecryptionFails
  <2>2. CASE DecryptFromInput(a) \/ Decrypt(a)
    BY <2>1, <2>2, DecryptionBegun, ScreenSame DEF DecryptFromInput, Decrypt
  <2>3. CASE Decrypted(a) \/ DecryptionFails(a)
    BY <2>1, <2>3, DecryptionEnded
  <2>4. QED  BY <1>8, <2>2, <2>3 DEF DecryptionStep
<1>9. CASE UNCHANGED panelVars
  <2>1. UNCHANGED <<view, decryption, copying, raw>>
    BY <1>9 DEF panelVars, view
  <2>2. QED  BY <1>0, <1>1, <2>1, ScreenSame, PanelSame, CopySame
<1>10. QED
  BY <1>0, <1>2, <1>3, <1>4, <1>5, <1>6, <1>7, <1>8, <1>9 DEF PanelNext

LEMMA PanelInvariance == PanelSpec => []PanelIInv
<1>1. PanelInit => PanelIInv
  BY PanelInitInv, Parts
<1>2. QED  BY <1>1, PanelStepInv, PTL DEF PanelSpec

(* The state stays well-typed, and a page without a payload decrypts       *)
(* nothing.                                                                *)
THEOREM PanelTypesCorrect == PanelSpec => []PanelTypeOK
<1>1. PanelIInv => PanelTypeOK
  BY DEF PanelIInv
<1>2. QED  BY <1>1, PanelInvariance, PTL

(* The screen, its buttons and the status of the decryption agree with     *)
(* what is decrypted, for any number of overlapping decryptions.           *)
THEOREM PanelAgrees == PanelSpec => []PanelConsistent
<1>1. PanelIInv => PanelConsistent
  BY DEF PanelIInv
<1>2. QED  BY <1>1, PanelInvariance, PTL

(* In a secure context "Copied" is shown of the plaintext only, for any    *)
(* number of clicks whose writing overlaps with decryptions.               *)
THEOREM CopiesAreTrue == PanelSpec => []CopiedIsSecret
<1>1. PanelIInv => CopiedIsSecret
  BY DEF PanelIInv
<1>2. QED  BY <1>1, PanelInvariance, PTL

(* The plaintext comes into sight by a click on "Show" only.               *)
THEOREM ShownByToggle == PanelSpec => OnlyToggleReveals
<1> DEFINE A == /\ ~screen.revealed /\ screen'.output = Secret => ToggleSecret
                /\ panel.status # "success" /\ panel'.status = "success"
                      => screen'.output = "mask"
<1>1. ASSUME PanelIInv, PanelNext PROVE A
  <2>1. ScreenInv /\ PanelInv
    BY <1>1, Parts
  <2>2. ~screen.revealed => screen.output # Secret
    BY <2>1, SecretAssumption DEF ScreenInv, ScreenConsistent, Screen, Placeholders
  <2>3. \/ ToggleSecret
        \/ screen' = screen
        \/ screen' = Masked
    BY <1>1 DEF PanelNext, Copy, CopyStep, Copied, CopyFails, CopyAnswered, RestoreLabel,
           TypePassword, DecryptRefused, DecryptFromInput, DecryptionStep,
           Decrypt, Decrypted, DecryptionFails, view
  <2>4. Masked.output = "mask" /\ "mask" # Secret
    BY <2>1, SecretAssumption DEF Masked, ScreenInv, Screen
  <2>5. panel.status # "success" /\ panel'.status = "success" => screen' = Masked
    BY <1>1, <2>1 DEF PanelNext, ToggleSecret, Copy, CopyStep, Copied, CopyFails, CopyAnswered, RestoreLabel,
           TypePassword, DecryptRefused, DecryptFromInput, DecryptionStep,
           Decrypt, Decrypted, DecryptionFails, decryption, PanelInv, Panel
  <2>6. QED  BY <2>2, <2>3, <2>4, <2>5
<1>2. PanelIInv /\ [PanelNext]_panelVars => [A]_panelVars
  BY <1>1
<1>3. QED  BY <1>2, PanelInvariance, PTL DEF PanelSpec, OnlyToggleReveals

-----------------------------------------------------------------------------
(*                         II. New passwords                               *)

-----------------------------------------------------------------------------
(* The policies.                                                           *)

LEMMA MetRange == \A value : Met(value) \in 0..5
<1> SUFFICES ASSUME NEW value PROVE Met(value) \in 0..5
  OBVIOUS
<1> DEFINE M == {r \in Requirements : Meets(value, r)}
           one == {} \cup {"length"}
           two == one \cup {"lowercase"}
           three == two \cup {"uppercase"}
           four == three \cup {"number"}
           five == four \cup {"symbol"}
<1>1. IsFiniteSet({}) /\ Cardinality({}) = 0
  BY FS_EmptySet
<1>2. IsFiniteSet(one) /\ Cardinality(one) = 1
  BY <1>1, FS_AddElement
<1>3. IsFiniteSet(two) /\ Cardinality(two) = 2
  BY <1>2, FS_AddElement
<1>4. IsFiniteSet(three) /\ Cardinality(three) = 3
  BY <1>3, FS_AddElement
<1>5. IsFiniteSet(four) /\ Cardinality(four) = 4
  BY <1>4, FS_AddElement
<1>6. IsFiniteSet(five) /\ Cardinality(five) = 5
  BY <1>5, FS_AddElement
<1>7. M \subseteq five
  BY DEF Requirements
<1>8. IsFiniteSet(M) /\ Cardinality(M) <= 5
  BY <1>6, <1>7, FS_Subset
<1>9. Cardinality(M) \in Nat
  BY <1>8, FS_CardinalityType
<1>10. QED  BY <1>8, <1>9 DEF Met

LEMMA AnalysisType == \A value : AnalyzePassword(value) \in [level: 0..5, label: Labels]
BY MetRange DEF AnalyzePassword, Label, Labels

(* A character of each of the sets the generator picks from.               *)
HasAll(s) ==
  /\ Contains(s, PickLower) /\ Contains(s, PickUpper)
  /\ Contains(s, PickDigit) /\ Contains(s, PickSymbol)

LEMMA HasAllIsStrong ==
  ASSUME NEW s \in Seq(Characters), Len(s) >= MinimumLength, HasAll(s)
  PROVE  IsValid(s) /\ ServerAccepts(s)
<1>1. /\ Contains(s, Lower) /\ Contains(s, Upper) /\ Contains(s, Digit)
      /\ Contains(s, Symbol)
  BY AlphabetAssumption DEF HasAll, Contains
<1>2. Contains(s, Lower \cup Accented) /\ Contains(s, Symbol \cup Accented)
  BY <1>1 DEF Contains
<1>3. ASSUME NEW r \in Requirements PROVE Meets(s, r)
  BY <1>1, <1>2 DEF Meets, Requirements
<1>4. QED  BY <1>1, <1>2, <1>3 DEF IsValid, ServerAccepts

-----------------------------------------------------------------------------
(* Appending and swapping.                                                 *)

LEMMA AppendKeeps ==
  ASSUME NEW s \in Seq(Characters), NEW c \in Characters, HasAll(s)
  PROVE  /\ Append(s, c) \in Seq(Characters)
         /\ Len(Append(s, c)) = Len(s) + 1
         /\ HasAll(Append(s, c))
<1>1. Append(s, c) \in Seq(Characters) /\ Len(Append(s, c)) = Len(s) + 1
  OBVIOUS
<1>2. ASSUME NEW class, Contains(s, class) PROVE Contains(Append(s, c), class)
  <2>1. PICK i \in 1..Len(s) : s[i] \in class
    BY <1>2 DEF Contains
  <2>2. i \in 1..Len(Append(s, c)) /\ Append(s, c)[i] = s[i]
    BY <2>1
  <2>3. QED  BY <2>1, <2>2 DEF Contains
<1>3. QED  BY <1>1, <1>2 DEF HasAll

LEMMA SwapKeeps ==
  ASSUME NEW s \in Seq(Characters), NEW i \in 1..Len(s), NEW j \in 1..Len(s),
         HasAll(s)
  PROVE  /\ Swap(s, i, j) \in Seq(Characters)
         /\ Len(Swap(s, i, j)) = Len(s)
         /\ HasAll(Swap(s, i, j))
<1> DEFINE t == Swap(s, i, j)
<1>1. t = [k \in 1..Len(s) |-> IF k = j THEN s[i] ELSE IF k = i THEN s[j] ELSE s[k]]
  BY DEF Swap
<1>2. t \in Seq(Characters) /\ Len(t) = Len(s)
  BY <1>1
<1>3. ASSUME NEW class, Contains(s, class) PROVE Contains(t, class)
  <2>1. PICK k \in 1..Len(s) : s[k] \in class
    BY <1>3 DEF Contains
  <2>2. PICK m \in 1..Len(s) : t[m] = s[k]
    <3>1. CASE k = i
      BY <1>1, <3>1
    <3>2. CASE k = j
      BY <1>1, <3>2
    <3>3. CASE k # i /\ k # j
      BY <1>1, <3>3
    <3>4. QED  BY <3>1, <3>2, <3>3
  <2>3. QED  BY <1>2, <2>1, <2>2 DEF Contains
<1>4. QED  BY <1>2, <1>3 DEF HasAll

-----------------------------------------------------------------------------
(* The generator at work.                                                  *)

GeneratorInv ==
  /\ generator \in [step: {"idle", "filling", "shuffling"},
                    characters: Seq(Characters), index: 0..GeneratedLength]
  /\ generator.step # "idle" => HasAll(generator.characters)
  /\ generator.step = "filling" =>
        Len(generator.characters) \in 4..GeneratedLength
  /\ generator.step = "shuffling" =>
        /\ Len(generator.characters) = GeneratedLength
        /\ generator.index \in 1..GeneratedLength

LEMMA PickAnyType == PickAny \subseteq Characters
BY AlphabetAssumption DEF PickAny, Characters

LEMMA IdleGeneratorInv ==
  ASSUME generator' = IdleGenerator PROVE GeneratorInv'
BY LengthAssumption DEF GeneratorInv, IdleGenerator

LEMMA GeneratorStep ==
  ASSUME GeneratorInv, Generate
  PROVE  GeneratorInv'
<1>1. CASE PickFour
  <2>1. PICK a \in PickLower, b \in PickUpper, c \in PickDigit, d \in PickSymbol :
           generator' = [step |-> "filling", characters |-> <<a, b, c, d>>,
                         index |-> 0]
    BY <1>1 DEF PickFour
  <2> DEFINE s == <<a, b, c, d>>
  <2>2. s \in Seq(Characters) /\ Len(s) = 4
    BY AlphabetAssumption DEF Characters
  <2>3. HasAll(s)
    <3>1. s[1] \in PickLower /\ s[2] \in PickUpper /\ s[3] \in PickDigit
          /\ s[4] \in PickSymbol
      OBVIOUS
    <3>2. QED  BY <2>2, <3>1 DEF HasAll, Contains
  <2>4. QED  BY <2>1, <2>2, <2>3, LengthAssumption DEF GeneratorInv
<1>2. CASE PickMore
  <2>1. PICK c \in PickAny : generator' = [generator EXCEPT !.characters = Append(@, c)]
    BY <1>2 DEF PickMore
  <2>2. generator.step = "filling" /\ Len(generator.characters) < GeneratedLength
    BY <1>2 DEF PickMore
  <2>3. HasAll(generator.characters) /\ Len(generator.characters) \in 4..GeneratedLength
    BY <2>2 DEF GeneratorInv
  <2>4. generator.characters \in Seq(Characters)
    BY DEF GeneratorInv
  <2> DEFINE s == Append(generator.characters, c)
  <2>5. s \in Seq(Characters) /\ Len(s) = Len(generator.characters) + 1 /\ HasAll(s)
    BY <2>3, <2>4, PickAnyType, AppendKeeps
  <2>6. generator' = [step |-> "filling", characters |-> s, index |-> generator.index]
    BY <2>1, <2>2 DEF GeneratorInv
  <2>7. QED
    BY <2>2, <2>3, <2>5, <2>6, LengthAssumption DEF GeneratorInv
<1>3. CASE StartShuffle
  <2>1. /\ generator.step = "filling"
        /\ Len(generator.characters) >= GeneratedLength
        /\ generator' = [generator EXCEPT !.step = "shuffling",
                                          !.index = Len(generator.characters)]
    BY <1>3 DEF StartShuffle
  <2>2. Len(generator.characters) = GeneratedLength /\ HasAll(generator.characters)
    BY <2>1, LengthAssumption DEF GeneratorInv
  <2>3. generator' = [step |-> "shuffling", characters |-> generator.characters,
                      index |-> GeneratedLength]
    BY <2>1, <2>2 DEF GeneratorInv
  <2>4. QED  BY <2>2, <2>3, LengthAssumption DEF GeneratorInv
<1>4. CASE ShuffleCharacters
  <2>1. PICK j \in RandomIndex(generator.index) :
           generator' = [generator EXCEPT
                            !.characters = Swap(@, generator.index, j),
                            !.index = @ - 1]
    BY <1>4 DEF ShuffleCharacters
  <2>2. generator.step = "shuffling" /\ generator.index > 1
    BY <1>4 DEF ShuffleCharacters
  <2>3. /\ generator.characters \in Seq(Characters) /\ HasAll(generator.characters)
        /\ Len(generator.characters) = GeneratedLength
        /\ generator.index \in 1..GeneratedLength
    BY <2>2 DEF GeneratorInv
  <2>4. j \in 1..Len(generator.characters)
    BY <2>3, LengthAssumption DEF RandomIndex
  <2> DEFINE s == Swap(generator.characters, generator.index, j)
  <2>5. s \in Seq(Characters) /\ Len(s) = GeneratedLength /\ HasAll(s)
    BY <2>3, <2>4, SwapKeeps
  <2>6. generator' = [step |-> "shuffling", characters |-> s,
                      index |-> generator.index - 1]
    BY <2>1, <2>2 DEF GeneratorInv
  <2>7. QED  BY <2>2, <2>3, <2>5, <2>6, LengthAssumption DEF GeneratorInv
<1>5. QED  BY <1>1, <1>2, <1>3, <1>4 DEF Generate

-----------------------------------------------------------------------------
(* The fields and the post.                                                *)

Checked(value, confirmation) ==
  /\ target = [value |-> value, ok |-> value = <<>> \/ IsValid(value)]
  /\ meter = AnalyzePassword(value)
  /\ confirm = [value |-> confirmation, ok |-> Confirmed(confirmation, value)]

FieldInv ==
  /\ page \in Pages /\ shown \in BOOLEAN /\ silent \in BOOLEAN
  /\ target \in Field /\ confirm \in Field
  /\ meter \in [level: 0..5, label: Labels]
  /\ VerdictsFresh

PostInv ==
  /\ posted = <<>> \/ posted \in Seq(Characters) \X Seq(Characters)
  /\ SubmittedIsSound

FieldIInv == GeneratorInv /\ FieldInv /\ PostInv

LEMMA CheckedFresh ==
  ASSUME NEW value \in Seq(Characters), NEW confirmation \in Seq(Characters),
         Checked(value, confirmation), page \in Pages,
         shown \in BOOLEAN, silent \in BOOLEAN
  PROVE  FieldInv
<1>1. target \in Field /\ confirm \in Field
  BY DEF Checked, Field, Confirmed, IsValid
<1>2. meter \in [level: 0..5, label: Labels]
  BY AnalysisType DEF Checked
<1>3. VerdictsFresh
  BY DEF Checked, VerdictsFresh
<1>4. QED  BY <1>1, <1>2, <1>3 DEF FieldInv

LEMMA UpdatedFresh ==
  ASSUME NEW value \in Seq(Characters), NEW confirmation \in Seq(Characters),
         UpdatePasswordInput(value, confirmation), page' \in Pages,
         shown' \in BOOLEAN, silent' \in BOOLEAN
  PROVE  FieldInv'
<1>1. /\ target' = [value |-> value, ok |-> value = <<>> \/ IsValid(value)]
      /\ meter' = AnalyzePassword(value)
      /\ confirm' = [value |-> confirmation, ok |-> Confirmed(confirmation, value)]
  BY DEF UpdatePasswordInput, UpdatePasswordConfirmation
<1>2. target' \in Field /\ confirm' \in Field
  BY <1>1 DEF Field, Confirmed, IsValid
<1>3. meter' \in [level: 0..5, label: Labels]
  BY <1>1, AnalysisType
<1>4. VerdictsFresh'
  BY <1>1 DEF VerdictsFresh
<1>5. QED  BY <1>2, <1>3, <1>4 DEF FieldInv

LEMMA FieldsSame ==
  ASSUME FieldInv, UNCHANGED <<page, target, confirm, meter, shown, silent>>
  PROVE  FieldInv'
<1>1. VerdictsFresh'
  BY DEF FieldInv, VerdictsFresh
<1>2. QED  BY <1>1 DEF FieldInv

LEMMA PostSame == ASSUME PostInv, UNCHANGED posted PROVE PostInv'
BY DEF PostInv, SubmittedIsSound

LEMMA EmptyTyped == <<>> \in Seq(Characters)
OBVIOUS

LEMMA FieldInitInv == FieldInit => FieldIInv
<1> SUFFICES ASSUME FieldInit PROVE FieldIInv
  OBVIOUS
<1>1. GeneratorInv
  BY LengthAssumption DEF FieldInit, GeneratorInv, IdleGenerator
<1>2. Checked(<<>>, <<>>)
  BY DEF FieldInit, Checked, Confirmed
<1>3. FieldInv
  BY <1>2, EmptyTyped, CheckedFresh DEF FieldInit
<1>4. PostInv
  BY DEF FieldInit, PostInv, SubmittedIsSound
<1>5. QED  BY <1>1, <1>3, <1>4 DEF FieldIInv

LEMMA FieldStepInv == FieldIInv /\ [FieldNext]_fieldVars => FieldIInv'
<1> SUFFICES ASSUME GeneratorInv, FieldInv, PostInv, [FieldNext]_fieldVars
             PROVE  GeneratorInv' /\ FieldInv' /\ PostInv'
  BY DEF FieldIInv
<1>0. /\ target.value \in Seq(Characters) /\ confirm.value \in Seq(Characters)
      /\ page \in Pages /\ shown \in BOOLEAN /\ silent \in BOOLEAN
  BY DEF FieldInv, Field
<1>g. ASSUME UNCHANGED generator PROVE GeneratorInv'
  BY <1>g DEF GeneratorInv
<1>1. CASE Generate
  <2>1. PageUnchanged
    BY <1>1 DEF Generate, PickFour, PickMore, StartShuffle, ShuffleCharacters
  <2>2. QED  BY <1>1, <2>1, GeneratorStep, FieldsSame, PostSame DEF PageUnchanged
<1>2. CASE SetGeneratedPassword
  <2>1. generator.characters \in Seq(Characters)
    BY DEF GeneratorInv
  <2>2. FieldInv'
    BY <1>0, <1>2, <2>1, UpdatedFresh DEF SetGeneratedPassword
  <2>3. QED  BY <1>2, <2>2, IdleGeneratorInv, PostSame DEF SetGeneratedPassword
<1>3. ASSUME NEW v \in Typed, EnterPassword(v)
      PROVE  GeneratorInv' /\ FieldInv' /\ PostInv'
  <2>1. FieldInv'
    BY <1>0, <1>3, TypedAssumption, UpdatedFresh DEF EnterPassword
  <2>2. QED  BY <1>3, <1>g, <2>1, PostSame DEF EnterPassword
<1>4. ASSUME NEW v \in Typed, EnterConfirmation(v)
      PROVE  GeneratorInv' /\ FieldInv' /\ PostInv'
  <2>1. /\ confirm' = [value |-> v, ok |-> Confirmed(v, target.value)]
        /\ UNCHANGED <<page, target, meter, shown, generator, silent, posted>>
    BY <1>4 DEF EnterConfirmation, UpdatePasswordConfirmation
  <2>2. confirm' \in Field
    BY <2>1, TypedAssumption DEF Field, Confirmed
  <2>3. VerdictsFresh'
    BY <2>1 DEF FieldInv, VerdictsFresh
  <2>4. FieldInv'
    BY <2>1, <2>2, <2>3 DEF FieldInv
  <2>5. QED  BY <1>g, <2>1, <2>4, PostSame
<1>5. ASSUME NEW v \in Typed, NEW w \in Typed, FillSilently(v, w)
      PROVE  GeneratorInv' /\ FieldInv' /\ PostInv'
  <2>1. /\ target' = [target EXCEPT !.value = v]
        /\ confirm' = [confirm EXCEPT !.value = w]
        /\ silent' = TRUE
        /\ UNCHANGED <<page, meter, shown, generator, posted>>
    BY <1>5 DEF FillSilently
  <2>2. target' \in Field /\ confirm' \in Field
    BY <2>1, TypedAssumption DEF FieldInv, Field
  <2>3. VerdictsFresh'
    BY <2>1 DEF VerdictsFresh
  <2>4. FieldInv'
    BY <2>1, <2>2, <2>3 DEF FieldInv
  <2>5. QED  BY <1>g, <2>1, <2>4, PostSame
<1>6. CASE Submit
  <2>1. FieldInv' /\ GeneratorInv'
    BY <1>0, <1>6, <1>g, UpdatedFresh DEF Submit
  <2>2. CASE posted' = <<>>
    BY <2>1, <2>2 DEF PostInv, SubmittedIsSound
  <2>3. CASE /\ Filled(target') /\ Filled(confirm')
             /\ posted' = <<target.value, confirm.value>>
    <3>1. /\ target' = [value |-> target.value,
                        ok |-> target.value = <<>> \/ IsValid(target.value)]
          /\ confirm' = [value |-> confirm.value,
                         ok |-> Confirmed(confirm.value, target.value)]
      BY <1>6 DEF Submit, UpdatePasswordInput, UpdatePasswordConfirmation
    <3>2. IsValid(target.value) /\ confirm.value = target.value
      BY <2>3, <3>1 DEF Filled, Confirmed
    <3>3. posted' \in Seq(Characters) \X Seq(Characters)
      BY <1>0, <2>3
    <3>4. PostInv'
      BY <2>3, <3>2, <3>3 DEF PostInv, SubmittedIsSound
    <3>5. QED  BY <2>1, <3>4
  <2>4. QED  BY <1>6, <2>2, <2>3 DEF Submit
<1>7. CASE Load
  <2>1. UpdatePasswordInput(<<>>, <<>>)
    BY <1>7 DEF Load, UpdatePasswordInput, UpdatePasswordConfirmation, Confirmed
  <2>2. FieldInv'
    BY <1>0, <1>7, <2>1, EmptyTyped, UpdatedFresh DEF Load
  <2>3. PostInv'
    BY <1>7 DEF Load, PostInv, SubmittedIsSound
  <2>4. QED  BY <1>7, <1>g, <2>2, <2>3 DEF Load
<1>8. CASE UNCHANGED fieldVars
  BY <1>8, <1>g, FieldsSame, PostSame DEF fieldVars
<1>9. QED
  BY <1>1, <1>2, <1>3, <1>4, <1>5, <1>6, <1>7, <1>8 DEF FieldNext

LEMMA FieldInvariance == FieldSpec => []FieldIInv
BY FieldInitInv, FieldStepInv, PTL DEF FieldSpec

-----------------------------------------------------------------------------

(* The fields, the generator and the post stay well-typed; the generator   *)
(* never has more characters than it is to generate.                       *)
THEOREM FieldTypesCorrect == FieldSpec => []FieldTypeOK
<1>1. FieldIInv => FieldTypeOK
  BY DEF FieldIInv, GeneratorInv, FieldInv, PostInv, FieldTypeOK
<1>2. QED  BY <1>1, FieldInvariance, PTL

(* Whatever characters are drawn and swapped, a generated password passes  *)
(* both policies, for every length of the policy and of the password.      *)
THEOREM GeneratesStrong == FieldSpec => []GeneratedIsStrong
<1>1. FieldIInv => GeneratedIsStrong
  BY HasAllIsStrong, LengthAssumption DEF FieldIInv, GeneratorInv, GeneratedIsStrong
<1>2. QED  BY <1>1, FieldInvariance, PTL

(* What is posted has been checked, whatever the user or the browser put   *)
(* into the fields, and in whatever order.                                 *)
THEOREM SubmitsSound == FieldSpec => []SubmittedIsSound
<1>1. FieldIInv => SubmittedIsSound
  BY DEF FieldIInv, PostInv
<1>2. QED  BY <1>1, FieldInvariance, PTL

(* The verdicts and the meter are about what the fields hold.              *)
THEOREM VerdictsAreFresh == FieldSpec => []VerdictsFresh
<1>1. FieldIInv => VerdictsFresh
  BY DEF FieldIInv, FieldInv
<1>2. QED  BY <1>1, FieldInvariance, PTL
===============================================================================

---------------------------- MODULE SecretPanel ----------------------------
(***************************************************************************)
(* A secret on a page (Views/Share/Credential, InformationRequests/        *)
(* Details): masked until the user asks for it, copied by a button and,    *)
(* when it is encrypted, decrypted in the browser first.  The mask and the *)
(* buttons are the work of site.js, the decryption of                      *)
(* share-client-encryption.js; they share the page and nothing else.       *)
(***************************************************************************)
EXTENDS Naturals

CONSTANTS
    Secret,                \* the plaintext
    Passwords, NoPassword, \* what the password field holds
    Key,                   \* the password that opens the payload
    Attempts,              \* decryptions that may be in flight at a time
    Copies                 \* bound: the clicks on "Copy"

ASSUME PasswordsAssumption == Key \in Passwords /\ NoPassword \notin Passwords
ASSUME SecretAssumption == Secret \notin {"", "prompt", "mask"}

VARIABLES
    encrypted,  \* the page holds a payload and a decryption panel
    webCrypto,  \* hasWebCrypto()
    secure,     \* navigator.clipboard && window.isSecureContext
    raw,        \* the hidden text area with the plaintext
    screen,     \* the container of the secret and its toggle
    buttonsOff, \* "Show" and "Copy" are disabled
    panel,      \* the decryption panel
    attempts,   \* the decryptions in flight
    copies,     \* copies[c]: the handler of a click on "Copy"
    clipboard,  \* what the clipboard holds
    copyButton  \* its label, the original label and whether a timer runs

setting == <<encrypted, webCrypto, secure>>
view == <<raw, screen, buttonsOff>>
decryption == <<panel, attempts>>
copying == <<copies, clipboard, copyButton>>
panelVars == <<setting, view, decryption, copying>>

Placeholders == {"prompt", "mask"}

Screen == [revealed: BOOLEAN, output: Placeholders \cup {"", Secret},
           placeholder: Placeholders, dimmed: BOOLEAN, toggle: {"Show", "Hide"}]

Panel == [typed: Passwords \cup {NoPassword}, buttonOff: BOOLEAN,
          status: {"none", "working", "error", "success"}]

CopyButton == [label: {"Copy", "Copied", "Copy failed"},
               original: {"", "Copy"}, timer: BOOLEAN]

CopyClick == [step: {"unused", "writing", "done"}, value: {"", Secret}]

IdleAttempt == [step |-> "idle", key |-> NoPassword]

-----------------------------------------------------------------------------
(* site.js: masking and revealing.                                         *)

SetSecretState(s, reveal) ==
    [s EXCEPT !.revealed = reveal,
              !.output   = IF reveal THEN raw ELSE s.placeholder,
              !.dimmed   = ~reveal]

ToggleSecret ==
    /\ ~buttonsOff
    /\ LET reveal == ~screen.revealed
       IN  screen' = [SetSecretState(screen, reveal) EXCEPT
                         !.toggle = IF reveal THEN "Hide" ELSE "Show"]
    /\ UNCHANGED <<setting, raw, buttonsOff, decryption, copying>>

-----------------------------------------------------------------------------
(* site.js: copying.                                                       *)

(* Mutant: the label to return to is read at every flash.                  *)
FlashAnew(label) ==
    copyButton' = [label |-> label, original |-> copyButton.label, timer |-> TRUE]

FlashButtonLabel(label) ==
    copyButton' = [label    |-> label,
                   original |-> IF copyButton.original = "" THEN copyButton.label
                                ELSE copyButton.original,
                   timer    |-> TRUE]

\* A copy button for a field takes the field's value.
CopyValue == raw

(* Nothing is copied of an empty field.  What is written is the value at   *)
(* the click; the field may hold another when the clipboard answers.       *)
Copy(c) ==
    /\ ~buttonsOff /\ CopyValue # "" /\ copies[c].step = "unused"
    /\ IF secure
       THEN /\ copies' = [copies EXCEPT ![c] = [step |-> "writing", value |-> CopyValue]]
            /\ UNCHANGED <<clipboard, copyButton>>
       ELSE \* the fallback: whether execCommand copied is not looked at
            /\ copies' = [copies EXCEPT ![c].step = "done"]
            /\ clipboard' \in {clipboard, CopyValue}
            /\ FlashButtonLabel("Copied")
    /\ UNCHANGED <<setting, view, decryption>>

CopyAnswered(c, label) ==
    /\ copies[c].step = "writing"
    /\ copies' = [copies EXCEPT ![c] = [step |-> "done", value |-> ""]]
    /\ FlashButtonLabel(label)
    /\ UNCHANGED <<setting, view, decryption>>

(* Mutant: the field is read when it is written.                           *)
CopiedLate(c) == CopyAnswered(c, "Copied") /\ clipboard' = CopyValue

Copied(c) == CopyAnswered(c, "Copied") /\ clipboard' = copies[c].value

(* Mutant: the user is told of a copy before it is known to succeed.       *)
CopyFailsUntold(c) == CopyAnswered(c, "Copied") /\ UNCHANGED clipboard

CopyFails(c) == CopyAnswered(c, "Copy failed") /\ UNCHANGED clipboard

RestoreLabel ==
    /\ copyButton.timer
    /\ copyButton' = [copyButton EXCEPT !.label = copyButton.original,
                                           !.timer = FALSE]
    /\ UNCHANGED <<setting, view, decryption, copies, clipboard>>

-----------------------------------------------------------------------------
(* share-client-encryption.js: decrypting.                                 *)

TypePassword(k) ==
    /\ encrypted
    /\ panel' = [panel EXCEPT !.typed = k]
    /\ UNCHANGED <<setting, view, attempts, copying>>

DecryptRefused ==
    /\ encrypted
    /\ ~webCrypto \/ panel.typed = NoPassword
    /\ panel' = [panel EXCEPT !.status = "error"]
    /\ UNCHANGED <<setting, view, attempts, copying>>

\* The button is disabled while it decrypts; Enter in the password field is not.
DecryptFromInput(a) ==
    /\ encrypted
    /\ webCrypto /\ panel.typed # NoPassword
    /\ attempts[a].step = "idle"
    /\ attempts' = [attempts EXCEPT ![a].step = "frame"]
    /\ panel' = [panel EXCEPT !.buttonOff = TRUE, !.status = "working"]
    /\ UNCHANGED <<setting, view, copying>>

\* The frame is drawn: the password is read now, and may be empty by now.
Decrypt(a) ==
    /\ attempts[a].step = "frame"
    /\ attempts' = [attempts EXCEPT ![a] = [step |-> "decrypting",
                                            key  |-> panel.typed]]
    /\ UNCHANGED <<setting, view, panel, copying>>

Masked == [screen EXCEPT !.placeholder = "mask", !.revealed = FALSE,
                         !.output = "mask", !.dimmed = TRUE]

(* Mutant: what was revealed stays marked as revealed.                     *)
MaskedInPart == [screen EXCEPT !.placeholder = "mask", !.output = "mask",
                               !.dimmed = TRUE]

(* Mutant: the plaintext is shown where it was decrypted.                  *)
DecryptedInSight(a) ==
    /\ attempts[a].step = "decrypting" /\ attempts[a].key = Key
    /\ raw' = Secret
    /\ screen' = [Masked EXCEPT !.output = Secret]
    /\ buttonsOff' = FALSE
    /\ panel' = [typed |-> NoPassword, buttonOff |-> FALSE, status |-> "success"]
    /\ attempts' = [attempts EXCEPT ![a] = IdleAttempt]
    /\ UNCHANGED <<setting, copying>>

Decrypted(a) ==
    /\ attempts[a].step = "decrypting" /\ attempts[a].key = Key
    /\ raw' = Secret
    /\ screen' = Masked
    /\ buttonsOff' = FALSE
    /\ panel' = [typed |-> NoPassword, buttonOff |-> FALSE, status |-> "success"]
    /\ attempts' = [attempts EXCEPT ![a] = IdleAttempt]
    /\ UNCHANGED <<setting, copying>>

(* Mutant: a failing attempt keeps the secret of an earlier one.           *)
DecryptionFailsKeeping(a) ==
    /\ attempts[a].step = "decrypting" /\ attempts[a].key # Key
    /\ buttonsOff' = TRUE
    /\ panel' = [panel EXCEPT !.buttonOff = FALSE, !.status = "error"]
    /\ attempts' = [attempts EXCEPT ![a] = IdleAttempt]
    /\ UNCHANGED <<setting, raw, screen, copying>>

\* What is on the screen stays there.
DecryptionFails(a) ==
    /\ attempts[a].step = "decrypting" /\ attempts[a].key # Key
    /\ raw' = ""
    /\ buttonsOff' = TRUE
    /\ panel' = [panel EXCEPT !.buttonOff = FALSE, !.status = "error"]
    /\ attempts' = [attempts EXCEPT ![a] = IdleAttempt]
    /\ UNCHANGED <<setting, screen, copying>>

-----------------------------------------------------------------------------
(* The page as rendered, after site.js has set the state of its containers.*)
PanelInit ==
    /\ encrypted \in BOOLEAN /\ webCrypto \in BOOLEAN /\ secure \in BOOLEAN
    /\ raw = IF encrypted THEN "" ELSE Secret
    /\ LET placeholder == IF encrypted THEN "prompt" ELSE "mask"
       IN  screen = [revealed |-> FALSE, output |-> placeholder,
                     placeholder |-> placeholder, dimmed |-> TRUE,
                     toggle |-> "Show"]
    /\ buttonsOff = encrypted
    /\ panel = [typed |-> NoPassword, buttonOff |-> FALSE, status |-> "none"]
    /\ attempts = [a \in Attempts |-> IdleAttempt]
    /\ copies = [c \in Copies |-> [step |-> "unused", value |-> ""]]
    /\ clipboard = ""
    /\ copyButton = [label |-> "Copy", original |-> "", timer |-> FALSE]

DecryptionStep(a) == Decrypt(a) \/ Decrypted(a) \/ DecryptionFails(a)

CopyStep(c) == Copied(c) \/ CopyFails(c)

PanelNext ==
    \/ ToggleSecret
    \/ \E c \in Copies : Copy(c) \/ CopyStep(c)
    \/ RestoreLabel
    \/ \E k \in Passwords \cup {NoPassword} : TypePassword(k)
    \/ DecryptRefused
    \/ \E a \in Attempts : DecryptFromInput(a) \/ DecryptionStep(a)

(* The browser draws frames while the page is visible, its cryptography    *)
(* and its clipboard answer, and a timer that nobody sets anew fires:      *)
(* clicks on "Copy" are bounded.                                           *)
PanelSpec ==
    /\ PanelInit /\ [][PanelNext]_panelVars
    /\ WF_panelVars(RestoreLabel)
    /\ \A c \in Copies : WF_panelVars(CopyStep(c))
    /\ \A a \in Attempts : WF_panelVars(DecryptionStep(a))

-----------------------------------------------------------------------------
(* Properties.                                                             *)

(* Type invariant: the label to return to is the one the button came with, *)
(* and a page without a payload decrypts nothing.                          *)
PanelTypeOK ==
    /\ encrypted \in BOOLEAN /\ webCrypto \in BOOLEAN /\ secure \in BOOLEAN
    /\ raw \in {"", Secret}
    /\ screen \in Screen
    /\ buttonsOff \in BOOLEAN
    /\ panel \in Panel
    /\ attempts \in [Attempts -> [step: {"idle", "frame", "decrypting"},
                                  key: Passwords \cup {NoPassword}]]
    /\ copies \in [Copies -> CopyClick]
    /\ clipboard \in {"", Secret}
    /\ copyButton \in CopyButton
    /\ \A a \in Attempts : attempts[a].step # "idle" => encrypted

(* The screen agrees with itself, whatever order toggling, successful and  *)
(* failing decryptions come in: the plaintext is in sight exactly when the *)
(* container counts as revealed, then the button offers to hide it, and    *)
(* otherwise there is a placeholder, after a decryption no longer the one  *)
(* that asks for the password (site.js:239-253, share-client-              *)
(* encryption.js:379-382).                                                 *)
ScreenConsistent ==
    /\ screen.output = IF screen.revealed THEN Secret ELSE screen.placeholder
    /\ screen.dimmed = ~screen.revealed
    /\ screen.revealed => screen.toggle = "Hide"
    /\ raw = Secret => screen.placeholder = "mask"

(* "Show" and "Copy" can be used exactly while there is a plaintext to     *)
(* show and copy, also when an attempt fails after or beside one that      *)
(* succeeded; "success" is displayed only beside a plaintext and "working" *)
(* only beside an attempt (share-client-encryption.js:370-395).            *)
ButtonsMatchSecret ==
    /\ buttonsOff <=> raw = ""
    /\ panel.status = "success" => raw = Secret
    /\ panel.status = "working" \/ panel.buttonOff
          => \E a \in Attempts : attempts[a].step # "idle"

(* Both hold at every moment.                                              *)
PanelConsistent == ScreenConsistent /\ ButtonsMatchSecret

(* The plaintext comes into sight by a click on "Show" only: no decryption *)
(* reveals what it decrypts, and one that succeeds hides what was revealed *)
(* before (share-client-encryption.js:376-382).                            *)
OnlyToggleReveals ==
    [][/\ ~screen.revealed /\ screen'.output = Secret => ToggleSecret
       /\ panel.status # "success" /\ panel'.status = "success"
             => screen'.output = "mask"]_panelVars

(* In a secure context "Copied" is true: the clipboard has the plaintext,  *)
(* whatever became of the field while the clipboard was being written: an  *)
(* attempt that fails beside the copy empties it, and one that succeeds    *)
(* fills it again (site.js:20-24, 266-276, share-client-encryption.js:     *)
(* 387-396).                                                               *)
CopiedIsSecret == secure /\ copyButton.label = "Copied" => clipboard = Secret

(* Every decryption enables its button again, and the label of "Copy"      *)
(* comes back after any overlapping copies (site.js:38-52).                *)
SettlesDown ==
    /\ \A a \in Attempts : attempts[a].step # "idle" ~> attempts[a].step = "idle"
    /\ panel.buttonOff ~> ~panel.buttonOff
    /\ copyButton.label # "Copy" ~> copyButton.label = "Copy"
=============================================================================

-------------------------- MODULE EncryptingForm --------------------------
(***************************************************************************)
(* The forms that encrypt in the browser (share-client-encryption.js): the *)
(* create form of shares and the response form of information requests,    *)
(* with the panel that decrypts a protected response for editing, and what *)
(* the server does with the post.  A page is rebuilt from the stored       *)
(* response whenever it is loaded.  Handlers run to completion; what they  *)
(* await (an animation frame, the browser's cryptography) is a step of its *)
(* own, and the page stays live meanwhile.                                 *)
(***************************************************************************)
EXTENDS Naturals

CONSTANTS
    Texts, NoText,            \* what secret and response fields hold
    Passwords, NoPassword,    \* what password fields hold
    LongPasswords,            \* those of minimumExtraPasswordLength or more
    NoPayload, NotPosted,     \* an empty payload field, no post under way
    Presets,                  \* the hours offered for the expiry of a share
    Attempts                  \* decryptions that may be in flight at a time

ASSUME PasswordsAssumption ==
    LongPasswords \subseteq Passwords /\ NoPassword \notin Passwords
ASSUME PresetsAssumption == Presets \subseteq Nat \ {0}

TextValues == Texts \cup {NoText}
PasswordValues == Passwords \cup {NoPassword}

(* A payload is as good as its content and the password its key is derived *)
(* from: the encryption is authenticated, so no other password opens it.   *)
Sealed == [text: TextValues, key: PasswordValues]
Payloads == Sealed \cup {NoPayload}

EncryptSecret(text, key) == [text |-> text, key |-> key]
Opens(payload, key) == payload.key = key

ASSUME TextsAssumption == NoText \notin Texts
ASSUME PayloadAssumption == NoPayload \notin Sealed

VARIABLES
    kind,        \* the page's form: "create" or "response"
    webCrypto,   \* hasWebCrypto()
    steady,      \* the user touches nothing while a status says "working"
    stored,      \* the response the server has
    shown,       \* the response the page was built from
    form,        \* the controls of the form
    panel,       \* the controls of the decryption panel
    remembered,  \* rememberedInformationRequestExtraPassword
    task,        \* the submit handler that is encrypting
    attempts,    \* the decryptions in flight
    posted,      \* the post under way
    entered      \* history: text and password when the form was submitted

setting == <<kind, webCrypto, steady>>
vars == <<setting, stored, shown, form, panel, remembered, task, attempts,
          posted, entered>>

Statuses == {"none", "working", "error", "success"}

Form == [text: TextValues, textOff: BOOLEAN, counted: TextValues,
         extra: PasswordValues, confirm: PasswordValues, passwordsOff: BOOLEAN,
         enabled: BOOLEAN, payload: Payloads, buttonsOff: BOOLEAN,
         status: Statuses, preset: Presets \cup {0}, hours: Presets \cup {0}]

Panel == [typed: PasswordValues, buttonOff: BOOLEAN, status: Statuses]

Post == [enabled: BOOLEAN, text: TextValues, payload: Payloads,
         hours: Presets \cup {0}]

Response == [text: TextValues, payload: Payloads]

ASSUME PostAssumption == NotPosted \notin Post

NoResponse == [text |-> NoText, payload |-> NoPayload]
IdleTask == [step |-> "idle", text |-> NoText, key |-> NoPassword]
IdleAttempt == [step |-> "idle", key |-> NoPassword]
IdlePanel == [typed |-> NoPassword, buttonOff |-> FALSE, status |-> "none"]
NothingEntered == [text |-> NoText, key |-> NoPassword]

-----------------------------------------------------------------------------
(* Which controls a page has.                                              *)

Creating == kind = "create"
ProtectedUpdate == kind = "response" /\ shown.payload # NoPayload
PlainUpdate == kind = "response" /\ shown.payload = NoPayload /\ shown.text # NoText

\* A check box and two password fields; an update has a hidden field instead.
ChoosesProtection == ~ProtectedUpdate /\ ~PlainUpdate

PresetsShown == IF Creating THEN Presets ELSE {0}

HasWebCrypto == webCrypto

SetStatus(controls, state) == [controls EXCEPT !.status = state]

ClearStatus(controls) == [controls EXCEPT !.status = "none"]

(* setClientEncryptionUi of the create form.                               *)
CreateUi(f) ==
    IF f.enabled THEN f
    ELSE ClearStatus([f EXCEPT !.payload = NoPayload, !.extra = NoPassword,
                               !.confirm = NoPassword])

(* setClientEncryptionUi of the response form, given the password held.    *)
ResponseUi(f, key) ==
    IF f.enabled THEN [f EXCEPT !.passwordsOff = key # NoPassword]
    ELSE ClearStatus([f EXCEPT !.payload = NoPayload, !.extra = NoPassword,
                               !.confirm = NoPassword, !.passwordsOff = FALSE])

SetClientEncryptionUi(f, key) == IF Creating THEN CreateUi(f) ELSE ResponseUi(f, key)

RememberedAfterUi(f, key) == IF ~Creating /\ ~f.enabled THEN NoPassword ELSE key

\* wireCounter: the counter and its warning follow the "input" events.
WriteText(f, t) == [f EXCEPT !.text = t, !.counted = t]

-----------------------------------------------------------------------------
(* Loading a page: the controls as the server renders them, then the       *)
(* scripts' first setClientEncryptionUi, updateCount and syncExpiryValue.  *)

Rendered(response, checked, text, payload, preset) ==
    LET update == kind = "response" /\ response # NoResponse
    IN  [text |-> text, textOff |-> FALSE, counted |-> text,
         extra |-> NoPassword, confirm |-> NoPassword, passwordsOff |-> FALSE,
         enabled |-> IF update THEN response.payload # NoPayload ELSE checked,
         payload |-> payload, buttonsOff |-> FALSE, status |-> "none",
         preset |-> preset, hours |-> preset]

Load(response, checked, text, payload, preset) ==
    /\ shown' = response
    /\ form' = SetClientEncryptionUi(
                   Rendered(response, checked, text, payload, preset), NoPassword)
    /\ panel' = IdlePanel
    /\ remembered' = NoPassword
    /\ task' = IdleTask
    /\ attempts' = [a \in Attempts |-> IdleAttempt]
    /\ posted' = NotPosted
    /\ entered' = NothingEntered

LoadAfresh(response) ==
    \E checked \in BOOLEAN, preset \in PresetsShown :
        Load(response, checked, response.text, NoPayload, preset)

\* The page is opened again, or the answer to a post is never shown.
Reload == LoadAfresh(stored) /\ UNCHANGED <<setting, stored>>

-----------------------------------------------------------------------------
(* The user.                                                               *)

Free ==
    /\ posted = NotPosted
    /\ steady => form.status # "working" /\ panel.status # "working"

FormOnly == UNCHANGED <<setting, stored, shown, panel, remembered, task,
                        attempts, posted, entered>>

TypeText(t) ==
    /\ Free /\ ~form.textOff
    /\ form' = WriteText(form, t)
    /\ FormOnly

(* Mutant: clearing the field does not tell the counter.                   *)
ClearSecretQuietly ==
    /\ Free /\ Creating
    /\ form' = [form EXCEPT !.text = NoText]
    /\ FormOnly

ClearSecret ==
    /\ Free /\ Creating
    /\ form' = WriteText(form, NoText)
    /\ FormOnly

TypeExtraPassword(k) ==
    /\ Free /\ ChoosesProtection /\ form.enabled /\ ~form.passwordsOff
    /\ form' = [form EXCEPT !.extra = k]
    /\ FormOnly

TypeConfirmation(k) ==
    /\ Free /\ ChoosesProtection /\ form.enabled /\ ~form.passwordsOff
    /\ form' = [form EXCEPT !.confirm = k]
    /\ FormOnly

ChoosePreset(p) ==
    /\ Free /\ Creating
    /\ form' = [form EXCEPT !.preset = p, !.hours = p]
    /\ FormOnly

Toggle ==
    /\ Free /\ ChoosesProtection
    /\ LET f == [form EXCEPT !.enabled = ~@]
       IN  /\ form' = SetClientEncryptionUi(f, remembered)
           /\ remembered' = RememberedAfterUi(f, remembered)
    /\ UNCHANGED <<setting, stored, shown, panel, task,
                   attempts, posted, entered>>

TypeDecryptionPassword(k) ==
    /\ Free /\ ProtectedUpdate
    /\ panel' = [panel EXCEPT !.typed = k]
    /\ UNCHANGED <<setting, stored, shown, form, remembered,
                   task, attempts, posted, entered>>

-----------------------------------------------------------------------------
(* Submitting the form.  A disabled submit button stops Enter as well.     *)

PostOf(f) == [enabled |-> f.enabled,
              text    |-> IF f.textOff THEN NoText ELSE f.text,
              payload |-> f.payload, hours |-> f.hours]

SubmitPlain ==
    /\ Free /\ ~form.buttonsOff /\ ~form.enabled
    /\ LET f == [form EXCEPT !.payload = NoPayload]
       IN  form' = f /\ posted' = PostOf(f)
    /\ UNCHANGED <<setting, stored, shown, panel, remembered,
                   task, attempts, entered>>

PasswordForEncryption == IF remembered # NoPassword THEN remembered ELSE form.extra

Confirmed == form.extra \in LongPasswords /\ form.extra = form.confirm

CreateAccepted ==
    HasWebCrypto /\ form.text # NoText /\ Confirmed

ResponseAccepted ==
    /\ HasWebCrypto /\ form.text # NoText
    /\ remembered # NoPassword \/ (ChoosesProtection /\ Confirmed)

Encryptable == IF Creating THEN CreateAccepted ELSE ResponseAccepted

SubmitRefused ==
    /\ Free /\ ~form.buttonsOff /\ form.enabled /\ ~Encryptable
    /\ form' = SetStatus(form, "error")
    /\ FormOnly

SubmitEncrypting ==
    /\ Free /\ ~form.buttonsOff /\ form.enabled /\ Encryptable
    /\ form' = SetStatus([form EXCEPT !.buttonsOff = TRUE], "working")
    /\ task' = [step |-> "frame", text |-> NoText,
                key |-> IF Creating THEN NoPassword ELSE PasswordForEncryption]
    /\ entered' = [text |-> form.text, key |-> PasswordForEncryption]
    /\ UNCHANGED <<setting, stored, shown, panel, remembered,
                   attempts, posted>>

(* Mutant: the response form reads its password after the frame, too.      *)
EncryptLate ==
    /\ task.step = "frame" /\ posted = NotPosted
    /\ task' = [step |-> "encrypting", text |-> form.text,
                key |-> PasswordForEncryption]
    /\ UNCHANGED <<setting, stored, shown, form, panel,
                   remembered, attempts, posted, entered>>

(* The frame is drawn: the text is read now, and in the create form so is  *)
(* the password.                                                           *)
Encrypt ==
    /\ task.step = "frame" /\ posted = NotPosted
    /\ task' = [step |-> "encrypting", text |-> form.text,
                key |-> IF Creating THEN form.extra ELSE task.key]
    /\ UNCHANGED <<setting, stored, shown, form, panel,
                   remembered, attempts, posted, entered>>

Closed(f, payload) ==
    [f EXCEPT !.payload = payload, !.text = NoText, !.textOff = TRUE,
              !.extra = NoPassword, !.confirm = NoPassword, !.passwordsOff = TRUE]

(* Mutant: the text field is posted beside the payload.                    *)
EncryptedInPassing ==
    /\ task.step = "encrypting" /\ posted = NotPosted
    /\ LET f == [form EXCEPT !.payload = EncryptSecret(task.text, task.key)]
       IN  form' = f /\ posted' = PostOf(f)
    /\ task' = IdleTask
    /\ UNCHANGED <<setting, stored, shown, panel, remembered,
                   attempts, entered>>

Encrypted ==
    /\ task.step = "encrypting" /\ posted = NotPosted
    /\ LET f == Closed(form, EncryptSecret(task.text, task.key))
       IN  form' = f /\ posted' = PostOf(f)
    /\ task' = IdleTask
    /\ UNCHANGED <<setting, stored, shown, panel, remembered,
                   attempts, entered>>

CreateReopened(f) ==
    SetStatus([f EXCEPT !.payload = NoPayload, !.textOff = FALSE,
                        !.passwordsOff = FALSE, !.buttonsOff = FALSE], "error")

ResponseReopened(f, key) ==
    LET g == [f EXCEPT !.payload = NoPayload, !.textOff = FALSE,
                       !.passwordsOff = FALSE]
    IN  SetStatus([ResponseUi(g, key) EXCEPT !.buttonsOff = FALSE], "error")

EncryptionFails ==
    /\ task.step = "encrypting" /\ posted = NotPosted
    /\ form' = IF Creating THEN CreateReopened(form)
               ELSE ResponseReopened(form, remembered)
    /\ remembered' = RememberedAfterUi(form, remembered)
    /\ task' = IdleTask
    /\ entered' = NothingEntered
    /\ UNCHANGED <<setting, stored, shown, panel, attempts, posted>>

-----------------------------------------------------------------------------
(* Decrypting a protected response for editing.                            *)

\* The button is disabled while it decrypts; Enter in the password field is not.
AskToDecrypt == Free /\ ProtectedUpdate

DecryptRefused ==
    /\ AskToDecrypt
    /\ ~HasWebCrypto \/ panel.typed = NoPassword
    /\ panel' = SetStatus(panel, "error")
    /\ UNCHANGED <<setting, stored, shown, form, remembered, task, attempts,
                   posted, entered>>

DecryptForEditing(a) ==
    /\ AskToDecrypt
    /\ HasWebCrypto /\ panel.typed # NoPassword
    /\ attempts[a].step = "idle"
    /\ attempts' = [attempts EXCEPT ![a].step = "frame"]
    /\ panel' = SetStatus([panel EXCEPT !.buttonOff = TRUE], "working")
    /\ UNCHANGED <<setting, stored, shown, form, remembered, task, posted,
                   entered>>

\* The frame is drawn: the password is read now, and may be empty by now.
Decrypt(a) ==
    /\ attempts[a].step = "frame" /\ posted = NotPosted
    /\ attempts' = [attempts EXCEPT ![a] = [step |-> "decrypting",
                                            key  |-> panel.typed]]
    /\ UNCHANGED <<setting, stored, shown, form, panel, remembered, task,
                   posted, entered>>

(* Mutant: the password is remembered whether or not it opens the payload. *)
DecryptedOrNot(a) ==
    /\ attempts[a].step = "decrypting" /\ posted = NotPosted
    /\ remembered' = attempts[a].key
    /\ form' = SetClientEncryptionUi(WriteText(form, shown.payload.text),
                                     attempts[a].key)
    /\ panel' = SetStatus(IdlePanel, "success")
    /\ attempts' = [attempts EXCEPT ![a] = IdleAttempt]
    /\ UNCHANGED <<setting, stored, shown, task, posted, entered>>

Decrypted(a) ==
    /\ attempts[a].step = "decrypting" /\ posted = NotPosted
    /\ Opens(shown.payload, attempts[a].key)
    /\ remembered' = attempts[a].key
    /\ form' = SetClientEncryptionUi(WriteText(form, shown.payload.text),
                                     attempts[a].key)
    /\ panel' = SetStatus(IdlePanel, "success")
    /\ attempts' = [attempts EXCEPT ![a] = IdleAttempt]
    /\ UNCHANGED <<setting, stored, shown, task, posted, entered>>

(* Mutant: the button is enabled again after a success only.               *)
DecryptionFailsForGood(a) ==
    /\ attempts[a].step = "decrypting" /\ posted = NotPosted
    /\ ~Opens(shown.payload, attempts[a].key)
    /\ remembered' = NoPassword
    /\ panel' = SetStatus(panel, "error")
    /\ attempts' = [attempts EXCEPT ![a] = IdleAttempt]
    /\ UNCHANGED <<setting, stored, shown, form, task, posted, entered>>

DecryptionFails(a) ==
    /\ attempts[a].step = "decrypting" /\ posted = NotPosted
    /\ ~Opens(shown.payload, attempts[a].key)
    /\ remembered' = NoPassword
    /\ panel' = SetStatus([panel EXCEPT !.buttonOff = FALSE], "error")
    /\ attempts' = [attempts EXCEPT ![a] = IdleAttempt]
    /\ UNCHANGED <<setting, stored, shown, form, task, posted, entered>>

-----------------------------------------------------------------------------
(* The server (AdminController.Create, InformationRequestController.Update)*)

Accepted == IF posted.enabled THEN posted.payload # NoPayload
            ELSE posted.text # NoText

PostedResponse == IF posted.enabled THEN [NoResponse EXCEPT !.payload = posted.payload]
                  ELSE [NoResponse EXCEPT !.text = posted.text]

Redisplay(response) ==
    \E preset \in PresetsShown :
        Load(response, posted.enabled, posted.text,
             IF posted.enabled THEN posted.payload ELSE NoPayload, preset)

\* A share is another row each time; a response takes the place of the old one.
Save ==
    /\ posted # NotPosted /\ Accepted
    /\ stored' = IF Creating THEN stored ELSE PostedResponse
    /\ LoadAfresh(stored')
    /\ UNCHANGED setting

\* In the create form other fields may be wrong, too.
Refuse ==
    /\ posted # NotPosted /\ (Creating \/ ~Accepted)
    /\ Redisplay(shown)
    /\ UNCHANGED <<setting, stored>>

\* The page is rebuilt from the request object, which has the new response.
SaveFails ==
    /\ posted # NotPosted /\ Accepted /\ ~Creating
    /\ Redisplay(PostedResponse)
    /\ UNCHANGED <<setting, stored>>

-----------------------------------------------------------------------------
Init ==
    /\ kind \in {"create", "response"}
    /\ webCrypto \in BOOLEAN
    /\ steady \in BOOLEAN
    /\ stored = NoResponse
    /\ shown = NoResponse
    /\ \E checked \in BOOLEAN, preset \in PresetsShown :
          form = SetClientEncryptionUi(
                     Rendered(NoResponse, checked, NoText, NoPayload, preset),
                     NoPassword)
    /\ panel = IdlePanel
    /\ remembered = NoPassword
    /\ task = IdleTask
    /\ attempts = [a \in Attempts |-> IdleAttempt]
    /\ posted = NotPosted
    /\ entered = NothingEntered

Edit ==
    \/ \E t \in TextValues : TypeText(t)
    \/ ClearSecret
    \/ \E k \in PasswordValues : TypeExtraPassword(k) \/ TypeConfirmation(k)
    \/ \E p \in Presets : ChoosePreset(p)
    \/ Toggle
    \/ \E k \in PasswordValues : TypeDecryptionPassword(k)

Submit == SubmitPlain \/ SubmitRefused \/ SubmitEncrypting

EncryptionStep == Encrypt \/ Encrypted \/ EncryptionFails

DecryptionStep(a) == Decrypt(a) \/ Decrypted(a) \/ DecryptionFails(a)

Next ==
    \/ Edit
    \/ Submit
    \/ EncryptionStep
    \/ DecryptRefused
    \/ \E a \in Attempts : DecryptForEditing(a) \/ DecryptionStep(a)
    \/ Save \/ Refuse \/ SaveFails
    \/ Reload

(* The browser draws frames while the page is visible, and its             *)
(* cryptography answers.  Nothing is assumed of the user or the server.    *)
Spec ==
    /\ Init /\ [][Next]_vars
    /\ WF_vars(EncryptionStep)
    /\ \A a \in Attempts : WF_vars(DecryptionStep(a))

-----------------------------------------------------------------------------
(* Properties.                                                             *)

(* Type invariant: controls, handlers and posts; only the page of a        *)
(* protected response decrypts and holds a password.                       *)
TypeOK ==
    /\ kind \in {"create", "response"} /\ webCrypto \in BOOLEAN
    /\ steady \in BOOLEAN
    /\ stored \in Response /\ shown \in Response
    /\ form \in Form /\ panel \in Panel
    /\ remembered \in PasswordValues
    /\ task \in [step: {"idle", "frame", "encrypting"}, text: TextValues,
                 key: PasswordValues]
    /\ attempts \in [Attempts -> [step: {"idle", "frame", "decrypting"},
                                  key: PasswordValues]]
    /\ posted \in Post \cup {NotPosted}
    /\ entered \in [text: TextValues, key: PasswordValues]
    /\ \/ ProtectedUpdate
       \/ /\ panel = IdlePanel /\ remembered = NoPassword
          /\ \A a \in Attempts : attempts[a] = IdleAttempt

(* "Encrypt the secret in this browser before it is sent to the server"    *)
(* (Views/Admin/Create.cshtml): a form whose box is checked at the time it *)
(* posts carries a payload and no text, and no post carries both, whatever *)
(* the user does between submitting and the end of the encryption          *)
(* (share-client-encryption.js:317-324, 549-562).                          *)
PlaintextStays ==
    posted # NotPosted =>
        /\ posted.enabled => posted.payload # NoPayload
        /\ posted.payload # NoPayload => posted.text = NoText

(* "The same extra password is reused when saving the update" (DESIGN.md,  *)
(* information requests, step 6): once a protected response is stored, no  *)
(* sequence of edits, wrong passwords, overlapping decryptions, failed     *)
(* saves and reloads replaces it by an unprotected one or by one under     *)
(* another password.                                                       *)
SamePasswordReused ==
    [][stored.payload # NoPayload =>
          /\ stored'.payload # NoPayload
          /\ stored'.payload.key = stored.payload.key]_vars

(* The payload posted is what was in the fields when the form was          *)
(* submitted, under a password that is confirmed and long enough or that   *)
(* opens the response on the page: for a user who waits, always; for the   *)
(* response form the password also when the user does not, since it is     *)
(* taken before the frame (share-client-encryption.js:516).                *)
SealedAsEntered ==
    posted # NotPosted /\ posted.payload # NoPayload =>
        /\ steady => posted.payload = entered
        /\ ~Creating => posted.payload.key = entered.key
        /\ IF ProtectedUpdate THEN entered.key = shown.payload.key
           ELSE entered.key \in LongPasswords

(* What the page shows is true: the counter counts the text in the field,  *)
(* also after a decryption wrote it; the hidden expiry is the preset       *)
(* marked; "working" is shown and buttons are disabled only while a        *)
(* handler is at work that will change it, or the page is being left.      *)
ScreenTrue ==
    posted = NotPosted =>
        /\ form.counted = form.text
        /\ form.hours = form.preset
        /\ form.buttonsOff <=> task.step # "idle"
        /\ form.status = "working" => task.step # "idle"
        /\ \/ panel.status = "working" \/ panel.buttonOff
           => \E a \in Attempts : attempts[a].step # "idle"

(* Every submission and decryption comes to an end: the page is left, or   *)
(* its controls can be used again.                                         *)
ControlsReturn ==
    /\ (form.buttonsOff /\ posted = NotPosted)
          ~> (~form.buttonsOff \/ posted # NotPosted)
    /\ panel.buttonOff ~> (~panel.buttonOff \/ posted # NotPosted)
=============================================================================

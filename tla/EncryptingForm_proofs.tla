----------------------- MODULE EncryptingForm_proofs -----------------------
(***************************************************************************)
(* Proofs about EncryptingForm, for all sets of texts, passwords and       *)
(* decryptions in flight.  Three invariants, each inductive on top of the  *)
(* ones before it: TypeOK, KeysAgree and Undisturbed.                      *)
(***************************************************************************)
EXTENDS EncryptingForm, TLAPS

-----------------------------------------------------------------------------
(* The helpers on the controls of the form.                                *)

(* setClientEncryptionUi touches payload, password fields and status only, *)
(* and while the box is checked only whether the password fields are open. *)
LEMMA UiKeeps ==
  ASSUME NEW f \in Form, NEW key \in PasswordValues
  PROVE  LET g == SetClientEncryptionUi(f, key) IN
         /\ g \in Form
         /\ g.enabled = f.enabled /\ g.text = f.text /\ g.counted = f.counted
         /\ g.preset = f.preset /\ g.hours = f.hours
         /\ g.buttonsOff = f.buttonsOff /\ g.textOff = f.textOff
         /\ g.status \in {f.status, "none"}
<1>1. CASE Creating /\ f.enabled
  BY <1>1 DEF SetClientEncryptionUi, CreateUi
<1>2. CASE Creating /\ ~f.enabled
  <2>1. SetClientEncryptionUi(f, key)
          = [[f EXCEPT !.payload = NoPayload, !.extra = NoPassword,
                       !.confirm = NoPassword] EXCEPT !.status = "none"]
    BY <1>2 DEF SetClientEncryptionUi, CreateUi, ClearStatus
  <2>2. QED  BY <2>1 DEF Form, Payloads, PasswordValues, Statuses
<1>3. CASE ~Creating /\ f.enabled
  <2>1. SetClientEncryptionUi(f, key) = [f EXCEPT !.passwordsOff = key # NoPassword]
    BY <1>3 DEF SetClientEncryptionUi, ResponseUi
  <2>2. QED  BY <2>1 DEF Form
<1>4. CASE ~Creating /\ ~f.enabled
  <2>1. SetClientEncryptionUi(f, key)
          = [[f EXCEPT !.payload = NoPayload, !.extra = NoPassword,
                       !.confirm = NoPassword, !.passwordsOff = FALSE]
               EXCEPT !.status = "none"]
    BY <1>4 DEF SetClientEncryptionUi, ResponseUi, ClearStatus
  <2>2. QED  BY <2>1 DEF Form, Payloads, PasswordValues, Statuses
<1>5. QED  BY <1>1, <1>2, <1>3, <1>4 DEF Form

LEMMA WriteTextTyped ==
  ASSUME NEW f \in Form, NEW t \in TextValues
  PROVE  /\ WriteText(f, t) \in Form
         /\ WriteText(f, t).text = t /\ WriteText(f, t).counted = t
         /\ WriteText(f, t).enabled = f.enabled
         /\ WriteText(f, t).preset = f.preset /\ WriteText(f, t).hours = f.hours
         /\ WriteText(f, t).buttonsOff = f.buttonsOff
         /\ WriteText(f, t).status = f.status
BY DEF WriteText, Form

\* A form whose encryption failed can be used again, in both pages.
LEMMA Reopened ==
  ASSUME NEW f \in Form, NEW key \in PasswordValues, NEW g,
         g = IF Creating THEN CreateReopened(f) ELSE ResponseReopened(f, key)
  PROVE  /\ g \in Form
         /\ g.enabled = f.enabled /\ g.text = f.text /\ g.counted = f.counted
         /\ g.preset = f.preset /\ g.hours = f.hours
         /\ ~g.buttonsOff /\ g.status = "error"
<1>1. CASE Creating
  <2>1. g = [[f EXCEPT !.payload = NoPayload, !.textOff = FALSE,
                       !.passwordsOff = FALSE, !.buttonsOff = FALSE]
               EXCEPT !.status = "error"]
    BY <1>1 DEF CreateReopened, SetStatus
  <2>2. QED  BY <2>1 DEF Form, Payloads, Statuses
<1>2. CASE ~Creating
  <2> DEFINE h == [f EXCEPT !.payload = NoPayload, !.textOff = FALSE,
                            !.passwordsOff = FALSE]
             u == ResponseUi(h, key)
  <2>1. /\ h \in Form
        /\ h.enabled = f.enabled /\ h.text = f.text /\ h.counted = f.counted
        /\ h.preset = f.preset /\ h.hours = f.hours
    BY DEF Form, Payloads
  <2>2. u = SetClientEncryptionUi(h, key)
    BY <1>2 DEF SetClientEncryptionUi
  <2>3. /\ u \in Form
        /\ u.enabled = f.enabled /\ u.text = f.text /\ u.counted = f.counted
        /\ u.preset = f.preset /\ u.hours = f.hours
    <3> HIDE DEF h, u
    <3>1. QED  BY <2>1, <2>2, UiKeeps
  <2>4. g = [[u EXCEPT !.buttonsOff = FALSE] EXCEPT !.status = "error"]
    BY <1>2 DEF ResponseReopened, SetStatus
  <2> HIDE DEF h, u
  <2>5. QED  BY <2>3, <2>4 DEF Form, Statuses
<1>3. QED  BY <1>1, <1>2

LEMMA ClosedTyped ==
  ASSUME NEW f \in Form, NEW payload \in Payloads
  PROVE  /\ Closed(f, payload) \in Form
         /\ PostOf(Closed(f, payload)) \in Post
         /\ PostOf(Closed(f, payload)).enabled = f.enabled
         /\ PostOf(Closed(f, payload)).payload = payload
         /\ PostOf(Closed(f, payload)).text = NoText
BY DEF Closed, PostOf, Form, Post, TextValues, PasswordValues

(* A page just loaded: its counter, expiry, buttons and status are right,  *)
(* and an update of a protected response is a protected form.              *)
LEMMA Loaded ==
  ASSUME kind \in {"create", "response"}, UNCHANGED setting,
         NEW response \in Response, NEW checked \in BOOLEAN,
         NEW text \in TextValues, NEW payload \in Payloads,
         NEW preset \in PresetsShown,
         Load(response, checked, text, payload, preset)
  PROVE  /\ form' \in Form
         /\ form'.counted = form'.text /\ form'.hours = form'.preset
         /\ ~form'.buttonsOff /\ form'.status = "none"
         /\ ProtectedUpdate' => form'.enabled
<1> DEFINE r == Rendered(response, checked, text, payload, preset)
<1>1. preset \in Presets \cup {0}
  BY DEF PresetsShown
<1>2. /\ r \in Form
      /\ r.counted = r.text /\ r.hours = r.preset
      /\ ~r.buttonsOff /\ r.status = "none"
  BY <1>1 DEF Rendered, Form, Response, PasswordValues, Statuses
<1>3. kind = "response" /\ response.payload # NoPayload => r.enabled
  <2>1. SUFFICES ASSUME kind = "response", response.payload # NoPayload
                 PROVE  r.enabled
    OBVIOUS
  <2>2. response # NoResponse
    BY <2>1 DEF NoResponse
  <2>3. r.enabled = (response.payload # NoPayload)
    BY <2>1, <2>2 DEF Rendered
  <2>4. QED  BY <2>1, <2>3
<1>4. form' = SetClientEncryptionUi(r, NoPassword) /\ shown' = response /\ kind' = kind
  BY DEF Load, setting
<1> HIDE DEF r
<1>5. NoPassword \in PasswordValues
  BY DEF PasswordValues
<1>6. QED  BY <1>2, <1>3, <1>4, <1>5, UiKeeps DEF ProtectedUpdate

-----------------------------------------------------------------------------
(* Type correctness.                                                       *)

LEMMA InitTypeOK == Init => TypeOK
<1> SUFFICES ASSUME Init PROVE TypeOK
  OBVIOUS
<1> USE DEF Init
<1>1. PICK checked \in BOOLEAN, preset \in PresetsShown :
         form = SetClientEncryptionUi(
                    Rendered(NoResponse, checked, NoText, NoPayload, preset),
                    NoPassword)
  OBVIOUS
<1> DEFINE r == Rendered(NoResponse, checked, NoText, NoPayload, preset)
<1>2. r \in Form
  BY DEF Rendered, Form, NoResponse, TextValues, PasswordValues, Payloads,
         Statuses, PresetsShown
<1>3. form \in Form
  <2> HIDE DEF r
  <2>1. form = SetClientEncryptionUi(r, NoPassword) /\ NoPassword \in PasswordValues
    BY <1>1 DEF r, PasswordValues
  <2>2. QED  BY <1>2, <2>1, UiKeeps
<1>4. stored \in Response /\ shown \in Response
  BY DEF NoResponse, Response, TextValues, Payloads
<1>5. panel \in Panel /\ remembered \in PasswordValues
  BY DEF IdlePanel, Panel, PasswordValues, Statuses
<1>6. task \in [step: {"idle", "frame", "encrypting"}, text: TextValues,
                key: PasswordValues]
  BY DEF IdleTask, TextValues, PasswordValues
<1>7. attempts \in [Attempts -> [step: {"idle", "frame", "decrypting"},
                                 key: PasswordValues]]
  BY DEF IdleAttempt, PasswordValues
<1>8. entered \in [text: TextValues, key: PasswordValues]
  BY DEF NothingEntered, TextValues, PasswordValues
<1>9. QED  BY <1>3, <1>4, <1>5, <1>6, <1>7, <1>8 DEF TypeOK

\* Every way to load a page leaves the state well-typed.
LEMMA LoadTypeOK ==
  ASSUME TypeOK, UNCHANGED setting, stored' \in Response,
         NEW response \in Response, NEW checked \in BOOLEAN,
         NEW text \in TextValues, NEW payload \in Payloads,
         NEW preset \in PresetsShown,
         Load(response, checked, text, payload, preset)
  PROVE  TypeOK'
<1>1. kind' \in {"create", "response"} /\ webCrypto' \in BOOLEAN /\ steady' \in BOOLEAN
  BY DEF TypeOK, setting
<1>2. form' \in Form
  BY Loaded DEF TypeOK
<1>3. /\ shown' \in Response /\ panel' = IdlePanel /\ remembered' = NoPassword
      /\ task' = IdleTask /\ attempts' = [a \in Attempts |-> IdleAttempt]
      /\ posted' = NotPosted /\ entered' = NothingEntered
  BY DEF Load
<1>4. panel' \in Panel /\ remembered' \in PasswordValues
  BY <1>3 DEF IdlePanel, Panel, PasswordValues, Statuses
<1>5. task' \in [step: {"idle", "frame", "encrypting"}, text: TextValues,
                 key: PasswordValues]
  BY <1>3 DEF IdleTask, TextValues, PasswordValues
<1>6. attempts' \in [Attempts -> [step: {"idle", "frame", "decrypting"},
                                  key: PasswordValues]]
  BY <1>3 DEF IdleAttempt, PasswordValues
<1>7. entered' \in [text: TextValues, key: PasswordValues]
  BY <1>3 DEF NothingEntered, TextValues, PasswordValues
<1>8. \A a \in Attempts : attempts'[a] = IdleAttempt
  BY <1>3
<1>9. QED  BY <1>1, <1>2, <1>3, <1>4, <1>5, <1>6, <1>7, <1>8 DEF TypeOK

\* An edit of the form's controls that keeps them well-typed.
LEMMA FormOnlyTypeOK ==
  ASSUME TypeOK, form' \in Form, FormOnly
  PROVE  TypeOK'
<1>1. ProtectedUpdate' <=> ProtectedUpdate
  BY DEF FormOnly, setting, ProtectedUpdate
<1>2. QED  BY <1>1 DEF TypeOK, FormOnly, setting

\* What the server is given, and what it makes of it.
LEMMA PostedTyped ==
  ASSUME TypeOK, posted # NotPosted
  PROVE  /\ posted \in Post /\ posted.enabled \in BOOLEAN
         /\ posted.text \in TextValues /\ posted.payload \in Payloads
         /\ PostedResponse \in Response
<1>1. posted \in Post
  BY DEF TypeOK
<1>2. posted.enabled \in BOOLEAN /\ posted.text \in TextValues
      /\ posted.payload \in Payloads
  BY <1>1 DEF Post
<1>3. PostedResponse \in Response
  BY <1>2 DEF PostedResponse, NoResponse, Response, TextValues, Payloads
<1>4. QED  BY <1>1, <1>2, <1>3

(* Every step of the server and every reload loads a page, of the response *)
(* stored, of the one shown before or of the one posted.                   *)
LEMMA Loads ==
  ASSUME TypeOK, Save \/ Refuse \/ SaveFails \/ Reload
  PROVE  /\ UNCHANGED setting
         /\ \E response \in {stored', shown, PostedResponse}, checked \in BOOLEAN,
               text \in TextValues, payload \in Payloads, preset \in PresetsShown :
              response \in Response /\ Load(response, checked, text, payload, preset)
<1>1. CASE Save
  <2>1. posted # NotPosted
    BY <1>1 DEF Save
  <2>2. stored' \in Response
    BY <1>1, <2>1, PostedTyped DEF Save, TypeOK
  <2>3. stored'.text \in TextValues /\ NoPayload \in Payloads
    BY <2>2 DEF Response, Payloads
  <2>4. \E checked \in BOOLEAN, preset \in PresetsShown :
           Load(stored', checked, stored'.text, NoPayload, preset)
    BY <1>1 DEF Save, LoadAfresh
  <2>5. QED  BY <1>1, <2>2, <2>3, <2>4 DEF Save
<1>2. CASE Reload
  <2>1. stored' \in Response /\ stored' = stored
    BY <1>2 DEF Reload, TypeOK
  <2>2. stored.text \in TextValues /\ NoPayload \in Payloads
    BY <2>1 DEF Response, Payloads
  <2>3. \E checked \in BOOLEAN, preset \in PresetsShown :
           Load(stored, checked, stored.text, NoPayload, preset)
    BY <1>2 DEF Reload, LoadAfresh
  <2>4. QED  BY <1>2, <2>1, <2>2, <2>3 DEF Reload
<1>3. CASE Refuse \/ SaveFails
  <2>1. posted # NotPosted
    BY <1>3 DEF Refuse, SaveFails
  <2> DEFINE p == IF posted.enabled THEN posted.payload ELSE NoPayload
  <2>2. posted.enabled \in BOOLEAN /\ posted.text \in TextValues /\ p \in Payloads
    BY <2>1, PostedTyped DEF Payloads
  <2>3. shown \in Response /\ PostedResponse \in Response
    BY <2>1, PostedTyped DEF TypeOK
  <2>4. PICK response \in {shown, PostedResponse} : Redisplay(response)
    BY <1>3 DEF Refuse, SaveFails
  <2>5. \E preset \in PresetsShown : Load(response, posted.enabled, posted.text, p, preset)
    BY <2>4 DEF Redisplay
  <2> HIDE DEF p
  <2>6. QED  BY <1>3, <2>2, <2>3, <2>5 DEF Refuse, SaveFails
<1>4. QED  BY <1>1, <1>2, <1>3

LEMMA StoredTyped ==
  ASSUME TypeOK, Save \/ Refuse \/ SaveFails \/ Reload
  PROVE  stored' \in Response
BY PostedTyped DEF TypeOK, Save, Refuse, SaveFails, Reload

(* What an edit of the form leaves as it was.  The text is written with    *)
(* its counter, and the expiry with the preset.                            *)
LEMMA Edited ==
  ASSUME TypeOK,
         \/ \E t \in TextValues : TypeText(t)
         \/ ClearSecret
         \/ \E k \in PasswordValues : TypeExtraPassword(k) \/ TypeConfirmation(k)
         \/ \E p \in Presets : ChoosePreset(p)
  PROVE  /\ FormOnly /\ Free /\ form' \in Form
         /\ form'.enabled = form.enabled
         /\ form.counted = form.text => form'.counted = form'.text
         /\ form.hours = form.preset => form'.hours = form'.preset
         /\ form'.buttonsOff = form.buttonsOff /\ form'.status = form.status
<1>0. form \in Form
  BY DEF TypeOK
<1>1. ASSUME NEW t \in TextValues, form' = WriteText(form, t)
      PROVE  /\ form' \in Form /\ form'.enabled = form.enabled
             /\ form'.counted = form'.text
             /\ form'.hours = form.hours /\ form'.preset = form.preset
             /\ form'.buttonsOff = form.buttonsOff /\ form'.status = form.status
  BY <1>0, <1>1, WriteTextTyped
<1>2. CASE \E t \in TextValues : TypeText(t)
  BY <1>1, <1>2 DEF TypeText
<1>3. CASE ClearSecret
  BY <1>1, <1>3 DEF ClearSecret, TextValues
<1>4. CASE \E k \in PasswordValues : TypeExtraPassword(k)
  BY <1>0, <1>4 DEF TypeExtraPassword, Form
<1>5. CASE \E k \in PasswordValues : TypeConfirmation(k)
  BY <1>0, <1>5 DEF TypeConfirmation, Form
<1>6. CASE \E p \in Presets : ChoosePreset(p)
  BY <1>0, <1>6 DEF ChoosePreset, Form
<1>7. QED  BY <1>2, <1>3, <1>4, <1>5, <1>6

\* What the page keeps while it is not loaded anew.
Kept == UNCHANGED <<setting, stored, shown>>

LEMMA KeptTypes ==
  ASSUME TypeOK, Kept
  PROVE  /\ kind' \in {"create", "response"} /\ webCrypto' \in BOOLEAN
         /\ steady' \in BOOLEAN /\ stored' \in Response /\ shown' \in Response
         /\ ProtectedUpdate' <=> ProtectedUpdate
BY DEF TypeOK, Kept, setting, ProtectedUpdate

LEMMA ToggleTypeOK == TypeOK /\ Toggle => TypeOK'
<1> SUFFICES ASSUME TypeOK, Toggle PROVE TypeOK'
  OBVIOUS
<1> DEFINE f == [form EXCEPT !.enabled = ~@]
<1>1. f \in Form
  BY DEF TypeOK, Form
<1>2. form' = SetClientEncryptionUi(f, remembered) /\ remembered \in PasswordValues
  BY DEF Toggle, TypeOK
<1> HIDE DEF f
<1>3. form' \in Form
  BY <1>1, <1>2, UiKeeps
<1>4. remembered' \in {remembered, NoPassword}
  BY DEF Toggle, RememberedAfterUi
<1>5. ~ProtectedUpdate
  BY DEF Toggle, ChoosesProtection
<1>6. remembered' = NoPassword /\ remembered' \in PasswordValues
  BY <1>4, <1>5 DEF TypeOK, PasswordValues
<1>7. Kept /\ panel' = panel /\ task' = task /\ attempts' = attempts
      /\ posted' = posted /\ entered' = entered
  BY DEF Toggle, Kept
<1>8. QED  BY <1>3, <1>5, <1>6, <1>7, KeptTypes DEF TypeOK

LEMMA SubmitTypeOK == TypeOK /\ Submit => TypeOK'
<1> SUFFICES ASSUME TypeOK, Submit PROVE TypeOK'
  OBVIOUS
<1>0. form \in Form /\ task' \in [step: {"idle", "frame", "encrypting"},
                                  text: TextValues, key: PasswordValues]
  BY DEF TypeOK, Submit, SubmitPlain, SubmitRefused, SubmitEncrypting, FormOnly,
         TextValues, PasswordValues, PasswordForEncryption, Form
<1>1. CASE SubmitPlain
  <2>1. form' = [form EXCEPT !.payload = NoPayload] /\ posted' = PostOf(form')
    BY <1>1 DEF SubmitPlain
  <2>2. form' \in Form
    BY <1>0, <2>1 DEF Form, Payloads
  <2>3. posted' \in Post
    BY <2>1, <2>2 DEF PostOf, Form, Post, TextValues
  <2>4. Kept /\ panel' = panel /\ task' = task /\ attempts' = attempts
        /\ remembered' = remembered /\ entered' = entered
    BY <1>1 DEF SubmitPlain, Kept
  <2>5. QED  BY <2>2, <2>3, <2>4, KeptTypes DEF TypeOK
<1>2. CASE SubmitRefused
  <2>1. form' \in Form
    BY <1>0, <1>2 DEF SubmitRefused, SetStatus, Form, Statuses
  <2>2. QED  BY <1>2, <2>1, FormOnlyTypeOK DEF SubmitRefused
<1>3. CASE SubmitEncrypting
  <2>1. form' = [[form EXCEPT !.buttonsOff = TRUE] EXCEPT !.status = "working"]
    BY <1>3 DEF SubmitEncrypting, SetStatus
  <2>2. form' \in Form
    BY <1>0, <2>1 DEF Form, Statuses
  <2>3. entered' = [text |-> form.text, key |-> PasswordForEncryption]
    BY <1>3 DEF SubmitEncrypting
  <2>4. entered' \in [text: TextValues, key: PasswordValues]
    BY <1>0, <2>3 DEF PasswordForEncryption, TypeOK, Form
  <2>5. Kept /\ panel' = panel /\ attempts' = attempts
        /\ remembered' = remembered /\ posted' = posted
    BY <1>3 DEF SubmitEncrypting, Kept
  <2>6. QED  BY <1>0, <2>2, <2>4, <2>5, KeptTypes DEF TypeOK
<1>4. QED  BY <1>1, <1>2, <1>3 DEF Submit

LEMMA TaskTypes ==
  ASSUME TypeOK
  PROVE  /\ task.text \in TextValues /\ task.key \in PasswordValues
         /\ EncryptSecret(task.text, task.key) \in Sealed
         /\ EncryptSecret(task.text, task.key) \in Payloads
         /\ EncryptSecret(task.text, task.key) # NoPayload
<1>1. task.text \in TextValues /\ task.key \in PasswordValues
  BY DEF TypeOK
<1>2. EncryptSecret(task.text, task.key) \in Sealed
  BY <1>1 DEF EncryptSecret, Sealed
<1>3. QED  BY <1>1, <1>2, PayloadAssumption DEF Payloads

LEMMA EncryptionTypeOK == TypeOK /\ EncryptionStep => TypeOK'
<1> SUFFICES ASSUME TypeOK, EncryptionStep PROVE TypeOK'
  OBVIOUS
<1>1. CASE Encrypt
  <2>1. task' = [step |-> "encrypting", text |-> form.text,
                 key |-> IF Creating THEN form.extra ELSE task.key]
    BY <1>1 DEF Encrypt
  <2>2. task' \in [step: {"idle", "frame", "encrypting"}, text: TextValues,
                   key: PasswordValues]
    BY <2>1, TaskTypes DEF TypeOK, Form
  <2>3. Kept /\ form' = form /\ panel' = panel /\ attempts' = attempts
        /\ remembered' = remembered /\ posted' = posted /\ entered' = entered
    BY <1>1 DEF Encrypt, Kept
  <2>4. QED  BY <2>2, <2>3, KeptTypes DEF TypeOK
<1>2. CASE Encrypted
  <2> DEFINE sealed == EncryptSecret(task.text, task.key)
  <2>1. sealed \in Payloads /\ form \in Form
    BY TaskTypes DEF TypeOK
  <2>2. form' = Closed(form, sealed) /\ posted' = PostOf(Closed(form, sealed))
        /\ task' = IdleTask
    BY <1>2 DEF Encrypted
  <2> HIDE DEF sealed
  <2>3. form' \in Form /\ posted' \in Post
    BY <2>1, <2>2, ClosedTyped
  <2>4. task' \in [step: {"idle", "frame", "encrypting"}, text: TextValues,
                   key: PasswordValues]
    BY <2>2 DEF IdleTask, TextValues, PasswordValues
  <2>5. Kept /\ panel' = panel /\ attempts' = attempts
        /\ remembered' = remembered /\ entered' = entered
    BY <1>2 DEF Encrypted, Kept
  <2>6. QED  BY <2>3, <2>4, <2>5, KeptTypes DEF TypeOK
<1>3. CASE EncryptionFails
  <2>1. form' \in Form
    BY <1>3, Reopened DEF EncryptionFails, TypeOK
  <2>2. remembered' \in {remembered, NoPassword} /\ task' = IdleTask
        /\ entered' = NothingEntered
    BY <1>3 DEF EncryptionFails, RememberedAfterUi
  <2>3. /\ remembered' \in PasswordValues
        /\ remembered = NoPassword => remembered' = NoPassword
    BY <2>2 DEF TypeOK, PasswordValues
  <2>4. task' \in [step: {"idle", "frame", "encrypting"}, text: TextValues,
                   key: PasswordValues]
    BY <2>2 DEF IdleTask, TextValues, PasswordValues
  <2>5. entered' \in [text: TextValues, key: PasswordValues]
    BY <2>2 DEF NothingEntered, TextValues, PasswordValues
  <2>6. Kept /\ panel' = panel /\ attempts' = attempts /\ posted' = posted
    BY <1>3 DEF EncryptionFails, Kept
  <2>7. QED  BY <2>1, <2>3, <2>4, <2>5, <2>6, KeptTypes DEF TypeOK
<1>4. QED  BY <1>1, <1>2, <1>3 DEF EncryptionStep

\* The panel and its attempts are at work in a protected update only.
LEMMA InFlight ==
  ASSUME TypeOK, NEW a \in Attempts, attempts[a].step # "idle"
  PROVE  /\ ProtectedUpdate /\ shown.payload \in Sealed
         /\ shown.payload.text \in TextValues
         /\ attempts[a].key \in PasswordValues
<1>1. ProtectedUpdate
  BY DEF TypeOK, IdleAttempt
<1>2. shown.payload \in Payloads
  BY DEF TypeOK, Response
<1>3. QED  BY <1>1, <1>2 DEF ProtectedUpdate, Payloads, Sealed, TypeOK

(* What a decryption that succeeds writes to the form.                     *)
LEMMA DecryptedForm ==
  ASSUME TypeOK, NEW a \in Attempts, Decrypted(a)
  PROVE  /\ form' \in Form /\ form'.enabled = form.enabled
         /\ form'.counted = form'.text
         /\ form'.hours = form.hours /\ form'.preset = form.preset
         /\ form'.buttonsOff = form.buttonsOff
         /\ form'.status \in {form.status, "none"}
<1> DEFINE f == WriteText(form, shown.payload.text)
<1>1. shown.payload.text \in TextValues /\ attempts[a].key \in PasswordValues
  BY InFlight DEF Decrypted
<1>2. /\ f \in Form /\ f.enabled = form.enabled /\ f.counted = f.text
      /\ f.hours = form.hours /\ f.preset = form.preset
      /\ f.buttonsOff = form.buttonsOff /\ f.status = form.status
  BY <1>1, WriteTextTyped DEF TypeOK
<1>3. form' = SetClientEncryptionUi(f, attempts[a].key)
  BY DEF Decrypted
<1> HIDE DEF f
<1>4. QED  BY <1>1, <1>2, <1>3, UiKeeps

LEMMA PanelTypeOK ==
  ASSUME TypeOK, NEW a \in Attempts,
         \/ \E k \in PasswordValues : TypeDecryptionPassword(k)
         \/ DecryptRefused \/ DecryptForEditing(a) \/ DecryptionStep(a)
  PROVE  TypeOK'
<1>1. ProtectedUpdate
  BY InFlight DEF TypeDecryptionPassword, DecryptRefused, DecryptForEditing,
     AskToDecrypt, DecryptionStep, Decrypt, Decrypted, DecryptionFails
<1>2. Kept /\ task' = task /\ posted' = posted /\ entered' = entered
  BY DEF TypeDecryptionPassword, DecryptRefused, DecryptForEditing,
     DecryptionStep, Decrypt, Decrypted, DecryptionFails, Kept
<1>3. panel' \in Panel
  <2>1. panel \in Panel
    BY DEF TypeOK
  <2>2. QED
    BY <2>1 DEF TypeDecryptionPassword, DecryptRefused, DecryptForEditing,
       DecryptionStep, Decrypt, Decrypted, DecryptionFails, SetStatus,
       IdlePanel, Panel, Statuses, PasswordValues
<1>4. form' \in Form
  <2>1. CASE Decrypted(a)
    BY <2>1, DecryptedForm
  <2>2. CASE ~Decrypted(a)
    BY <2>2 DEF TypeDecryptionPassword, DecryptRefused, DecryptForEditing,
       DecryptionStep, Decrypt, DecryptionFails, TypeOK
  <2>3. QED  BY <2>1, <2>2
<1>5. remembered' \in PasswordValues
  BY InFlight DEF TypeDecryptionPassword, DecryptRefused, DecryptForEditing,
       DecryptionStep, Decrypt, Decrypted, DecryptionFails, PasswordValues, TypeOK
<1>6. attempts' \in [Attempts -> [step: {"idle", "frame", "decrypting"},
                                  key: PasswordValues]]
  <2>1. /\ attempts \in [Attempts -> [step: {"idle", "frame", "decrypting"},
                                      key: PasswordValues]]
        /\ panel.typed \in PasswordValues
    BY DEF TypeOK, Panel
  <2>2. IdleAttempt \in [step: {"idle", "frame", "decrypting"}, key: PasswordValues]
    BY DEF IdleAttempt, PasswordValues
  <2>3. CASE DecryptForEditing(a)
    BY <2>1, <2>3 DEF DecryptForEditing
  <2>4. CASE Decrypt(a)
    BY <2>1, <2>4 DEF Decrypt
  <2>5. CASE Decrypted(a) \/ DecryptionFails(a)
    BY <2>1, <2>2, <2>5 DEF Decrypted, DecryptionFails
  <2>6. CASE attempts' = attempts
    BY <2>1, <2>6
  <2>7. QED
    BY <2>3, <2>4, <2>5, <2>6 DEF TypeDecryptionPassword, DecryptRefused, DecryptionStep
<1>7. QED  BY <1>1, <1>2, <1>3, <1>4, <1>5, <1>6, KeptTypes DEF TypeOK

\* The other ways a step is made: grouped as the lemmas above are.
EditForm ==
  \/ \E t \in TextValues : TypeText(t)
  \/ ClearSecret
  \/ \E k \in PasswordValues : TypeExtraPassword(k) \/ TypeConfirmation(k)
  \/ \E p \in Presets : ChoosePreset(p)

LoadStep == Save \/ Refuse \/ SaveFails \/ Reload

LEMMA NextCases ==
  Next => \/ EditForm \/ Toggle \/ Submit \/ EncryptionStep \/ LoadStep
          \/ DecryptRefused \/ \E k \in PasswordValues : TypeDecryptionPassword(k)
          \/ \E a \in Attempts : DecryptForEditing(a) \/ DecryptionStep(a)
BY DEF Next, Edit, EditForm, LoadStep

LEMMA UnmovedTypeOK == TypeOK /\ UNCHANGED vars => TypeOK'
<1> SUFFICES ASSUME TypeOK, UNCHANGED vars PROVE TypeOK'
  OBVIOUS
<1>1. Kept
  BY DEF vars, Kept
<1>2. QED  BY <1>1, KeptTypes DEF TypeOK, vars

\* The panel's steps that no decryption in flight takes.
LEMMA PanelOnlyTypeOK ==
  ASSUME TypeOK, DecryptRefused \/ \E k \in PasswordValues : TypeDecryptionPassword(k)
  PROVE  TypeOK'
<1>1. ProtectedUpdate /\ panel \in Panel
  BY DEF TypeDecryptionPassword, DecryptRefused, AskToDecrypt, TypeOK
<1>2. Kept /\ panel' \in Panel
  BY <1>1 DEF TypeDecryptionPassword, DecryptRefused, Kept, SetStatus, Panel, Statuses
<1>3. UNCHANGED <<form, remembered, task, attempts, posted, entered>>
  BY DEF TypeDecryptionPassword, DecryptRefused
<1>4. QED  BY <1>1, <1>2, <1>3, KeptTypes DEF TypeOK

LEMMA StepTypeOK == TypeOK /\ [Next]_vars => TypeOK'
<1> SUFFICES ASSUME TypeOK, [Next]_vars PROVE TypeOK'
  OBVIOUS
<1>1. CASE EditForm
  BY <1>1, Edited, FormOnlyTypeOK DEF EditForm
<1>2. CASE LoadStep
  <2>1. UNCHANGED setting /\ stored' \in Response
    BY <1>2, Loads, StoredTyped DEF LoadStep
  <2>2. PICK response \in Response, checked \in BOOLEAN, text \in TextValues,
             payload \in Payloads, preset \in PresetsShown :
               Load(response, checked, text, payload, preset)
    BY <1>2, Loads DEF LoadStep
  <2>3. QED  BY <2>1, <2>2, LoadTypeOK
<1>3. CASE DecryptRefused \/ \E k \in PasswordValues : TypeDecryptionPassword(k)
  BY <1>3, PanelOnlyTypeOK
<1>4. CASE \E a \in Attempts : DecryptForEditing(a) \/ DecryptionStep(a)
  BY <1>4, PanelTypeOK
<1>5. QED
  BY <1>1, <1>2, <1>3, <1>4, ToggleTypeOK, SubmitTypeOK, EncryptionTypeOK,
     UnmovedTypeOK, NextCases

(* Type correctness, with the fact that only the page of a protected       *)
(* response holds a password or decrypts.                                  *)
THEOREM TypeCorrect == Spec => []TypeOK
BY InitTypeOK, StepTypeOK, PTL DEF Spec

-----------------------------------------------------------------------------
(* The keys of a protected response: the one stored, the one on the page,  *)
(* the one remembered, the one encrypted under and the one posted.         *)

KeysAgree ==
  /\ stored.payload # NoPayload =>
        ProtectedUpdate /\ shown.payload.key = stored.payload.key
  /\ ProtectedUpdate =>
        /\ form.enabled
        /\ remembered # NoPassword => remembered = shown.payload.key
        /\ task.step # "idle" => task.key = shown.payload.key
        /\ posted # NotPosted =>
              /\ posted.enabled /\ posted.payload # NoPayload
              /\ posted.payload.key = shown.payload.key

LEMMA InitKeys == Init => KeysAgree
BY DEF Init, KeysAgree, NoResponse, ProtectedUpdate

LEMMA LoadKeys ==
  ASSUME TypeOK, KeysAgree, LoadStep
  PROVE  KeysAgree'
<1>1. UNCHANGED setting /\ kind' = kind
  BY Loads DEF LoadStep, setting
<1>2. PICK response \in {stored', shown, PostedResponse}, checked \in BOOLEAN,
           text \in TextValues, payload \in Payloads, preset \in PresetsShown :
             response \in Response /\ Load(response, checked, text, payload, preset)
  BY Loads DEF LoadStep
<1>3. /\ shown' = response /\ remembered' = NoPassword /\ task'.step = "idle"
      /\ posted' = NotPosted
  BY <1>2 DEF Load, IdleTask
<1>4. ProtectedUpdate' => form'.enabled
  BY <1>1, <1>2, Loaded DEF TypeOK
<1>5. ASSUME stored'.payload # NoPayload
      PROVE  ProtectedUpdate' /\ shown'.payload.key = stored'.payload.key
  <2>1. CASE Save
    <3>1. (shown' = stored' /\ kind = "response") \/ stored' = stored
      BY <2>1 DEF Save, LoadAfresh, Load, Creating, TypeOK
    <3>2. shown' = stored'
      BY <2>1 DEF Save, LoadAfresh, Load
    <3>3. kind = "response"
      BY <1>5, <3>1 DEF KeysAgree, ProtectedUpdate
    <3>4. QED  BY <1>1, <1>5, <3>2, <3>3 DEF ProtectedUpdate
  <2>2. CASE Reload
    BY <1>1, <1>5, <2>2 DEF Reload, LoadAfresh, Load, KeysAgree, ProtectedUpdate
  <2>3. CASE Refuse
    BY <1>1, <1>5, <2>3 DEF Refuse, Redisplay, Load, KeysAgree, ProtectedUpdate
  <2>4. CASE SaveFails
    <3>1. stored' = stored /\ posted # NotPosted /\ shown' = PostedResponse
      BY <2>4 DEF SaveFails, Redisplay, Load
    <3>2. ProtectedUpdate /\ shown.payload.key = stored.payload.key
      BY <1>5, <3>1 DEF KeysAgree
    <3>3. posted.enabled /\ posted.payload # NoPayload
          /\ posted.payload.key = shown.payload.key
      BY <3>1, <3>2 DEF KeysAgree
    <3>4. PostedResponse.payload = posted.payload
      BY <3>3 DEF PostedResponse, NoResponse
    <3>5. QED  BY <1>1, <3>1, <3>2, <3>3, <3>4 DEF ProtectedUpdate
  <2>5. QED  BY <2>1, <2>2, <2>3, <2>4 DEF LoadStep
<1>6. QED  BY <1>3, <1>4, <1>5 DEF KeysAgree

\* Between loads, nothing but these four parts matters.
LEMMA KeptKeys ==
  ASSUME KeysAgree, Kept,
         ProtectedUpdate =>
           /\ form'.enabled
           /\ remembered' # NoPassword => remembered' = shown.payload.key
           /\ task'.step # "idle" => task'.key = shown.payload.key
           /\ posted' # NotPosted =>
                 /\ posted'.enabled /\ posted'.payload # NoPayload
                 /\ posted'.payload.key = shown.payload.key
  PROVE  KeysAgree'
<1>1. stored' = stored /\ shown' = shown /\ (ProtectedUpdate' <=> ProtectedUpdate)
  BY DEF Kept, setting, ProtectedUpdate
<1>2. QED  BY <1>1 DEF KeysAgree

LEMMA SubmitKeys ==
  ASSUME TypeOK, KeysAgree, Submit
  PROVE  KeysAgree'
<1>1. Kept
  BY DEF Submit, SubmitPlain, SubmitRefused, SubmitEncrypting, FormOnly, Kept
<1>2. SUFFICES ASSUME ProtectedUpdate
      PROVE  /\ form'.enabled
             /\ remembered' # NoPassword => remembered' = shown.payload.key
             /\ task'.step # "idle" => task'.key = shown.payload.key
             /\ posted' # NotPosted =>
                   /\ posted'.enabled /\ posted'.payload # NoPayload
                   /\ posted'.payload.key = shown.payload.key
  BY <1>1, KeptKeys
<1>3. form.enabled /\ ~SubmitPlain /\ form \in Form
  BY <1>2 DEF KeysAgree, SubmitPlain, TypeOK
<1>4. remembered' = remembered /\ posted' = posted /\ form'.enabled
  BY <1>3 DEF Submit, SubmitRefused, SubmitEncrypting, FormOnly, SetStatus, Form
<1>5. ASSUME SubmitEncrypting
      PROVE  task'.key = shown.payload.key
  <2>1. ~Creating /\ ~ChoosesProtection
    BY <1>2 DEF Creating, ChoosesProtection, ProtectedUpdate
  <2>2. remembered # NoPassword /\ task'.key = PasswordForEncryption
    BY <1>5, <2>1 DEF SubmitEncrypting, Encryptable, ResponseAccepted
  <2>3. QED  BY <1>2, <2>2 DEF PasswordForEncryption, KeysAgree
<1>6. SubmitEncrypting \/ task' = task
  BY <1>3 DEF Submit, SubmitRefused, FormOnly
<1>7. QED  BY <1>2, <1>4, <1>5, <1>6 DEF KeysAgree

LEMMA EncryptionKeys ==
  ASSUME TypeOK, KeysAgree, EncryptionStep
  PROVE  KeysAgree'
<1>1. Kept
  BY DEF EncryptionStep, Encrypt, Encrypted, EncryptionFails, Kept
<1>2. SUFFICES ASSUME ProtectedUpdate
      PROVE  /\ form'.enabled
             /\ remembered' # NoPassword => remembered' = shown.payload.key
             /\ task'.step # "idle" => task'.key = shown.payload.key
             /\ posted' # NotPosted =>
                   /\ posted'.enabled /\ posted'.payload # NoPayload
                   /\ posted'.payload.key = shown.payload.key
  BY <1>1, KeptKeys
<1>3. ~Creating /\ form.enabled
  BY <1>2 DEF ProtectedUpdate, Creating, KeysAgree
<1>4. task.step # "idle" /\ task.key = shown.payload.key
  BY <1>2 DEF EncryptionStep, Encrypt, Encrypted, EncryptionFails, KeysAgree
<1>5. CASE Encrypt
  BY <1>2, <1>3, <1>4, <1>5 DEF Encrypt, KeysAgree
<1>6. CASE Encrypted
  <2> DEFINE sealed == EncryptSecret(task.text, task.key)
  <2>1. sealed \in Payloads /\ sealed # NoPayload /\ sealed.key = shown.payload.key
    BY <1>4, TaskTypes DEF EncryptSecret
  <2>2. form' = Closed(form, sealed) /\ posted' = PostOf(Closed(form, sealed))
        /\ task' = IdleTask /\ remembered' = remembered
    BY <1>6 DEF Encrypted
  <2> HIDE DEF sealed
  <2>3. posted'.enabled /\ posted'.payload = sealed
    BY <1>3, <2>1, <2>2, ClosedTyped DEF TypeOK
  <2>4. form'.enabled /\ task'.step = "idle"
    BY <1>3, <2>2 DEF Closed, IdleTask, TypeOK, Form
  <2>5. QED  BY <1>2, <2>1, <2>2, <2>3, <2>4 DEF KeysAgree
<1>7. CASE EncryptionFails
  <2>1. remembered' = remembered /\ task'.step = "idle" /\ posted' = posted
    BY <1>3, <1>7 DEF EncryptionFails, RememberedAfterUi, IdleTask
  <2>2. form'.enabled
    BY <1>3, <1>7, Reopened DEF EncryptionFails, TypeOK
  <2>3. QED  BY <1>2, <2>1, <2>2 DEF KeysAgree
<1>8. QED  BY <1>5, <1>6, <1>7 DEF EncryptionStep

LEMMA DecryptionKeys ==
  ASSUME TypeOK, KeysAgree, NEW a \in Attempts, DecryptForEditing(a) \/ DecryptionStep(a)
  PROVE  KeysAgree'
<1>1. Kept /\ task' = task /\ posted' = posted
  BY DEF DecryptForEditing, DecryptionStep, Decrypt, Decrypted, DecryptionFails, Kept
<1>2. form'.enabled = form.enabled
  BY DecryptedForm
     DEF DecryptForEditing, DecryptionStep, Decrypt, DecryptionFails
<1>3. remembered' \in {remembered, NoPassword} \/ remembered' = shown.payload.key
  BY DEF DecryptForEditing, DecryptionStep, Decrypt, Decrypted, DecryptionFails, Opens
<1>4. QED  BY <1>1, <1>2, <1>3, KeptKeys DEF KeysAgree

LEMMA StepKeys == TypeOK /\ KeysAgree /\ [Next]_vars => KeysAgree'
<1> SUFFICES ASSUME TypeOK, KeysAgree, [Next]_vars PROVE KeysAgree'
  OBVIOUS
<1>1. CASE EditForm
  <2>1. FormOnly /\ form'.enabled = form.enabled
    BY <1>1, Edited DEF EditForm
  <2>2. QED  BY <2>1, KeptKeys DEF FormOnly, Kept, KeysAgree
<1>2. CASE Toggle
  <2>1. ~ProtectedUpdate /\ Kept
    BY <1>2 DEF Toggle, ChoosesProtection, Kept
  <2>2. QED  BY <2>1, KeptKeys
<1>3. CASE DecryptRefused \/ (\E k \in PasswordValues : TypeDecryptionPassword(k))
           \/ UNCHANGED vars
  <2>1. Kept /\ UNCHANGED <<form, remembered, task, posted>>
    BY <1>3 DEF DecryptRefused, TypeDecryptionPassword, vars, Kept
  <2>2. QED  BY <2>1, KeptKeys DEF KeysAgree
<1>4. QED
  BY <1>1, <1>2, <1>3, LoadKeys, SubmitKeys, EncryptionKeys, DecryptionKeys, NextCases

LEMMA Keys == Spec => [](TypeOK /\ KeysAgree)
<1>1. Init => TypeOK /\ KeysAgree
  BY InitTypeOK, InitKeys
<1>2. TypeOK /\ KeysAgree /\ [Next]_vars => (TypeOK /\ KeysAgree)'
  BY StepTypeOK, StepKeys
<1>3. QED  BY <1>1, <1>2, PTL DEF Spec

(* Once a protected response is stored, it is replaced by protected ones   *)
(* under the same password only, for any passwords and any number of       *)
(* overlapping decryptions.                                                *)
THEOREM PasswordReused == Spec => SamePasswordReused
<1> DEFINE A == stored.payload # NoPayload =>
                  /\ stored'.payload # NoPayload
                  /\ stored'.payload.key = stored.payload.key
<1>1. ASSUME TypeOK, KeysAgree, Next PROVE A
  <2>1. CASE Save
    <3>1. SUFFICES ASSUME stored.payload # NoPayload PROVE A
      OBVIOUS
    <3>2. ProtectedUpdate /\ shown.payload.key = stored.payload.key /\ ~Creating
      BY <1>1, <3>1 DEF KeysAgree, ProtectedUpdate, Creating
    <3>3. posted # NotPosted /\ stored' = PostedResponse
      BY <2>1, <3>2 DEF Save
    <3>4. posted.enabled /\ posted.payload # NoPayload
          /\ posted.payload.key = stored.payload.key
      BY <1>1, <3>2, <3>3 DEF KeysAgree
    <3>5. stored'.payload = posted.payload
      BY <3>3, <3>4 DEF PostedResponse, NoResponse
    <3>6. QED  BY <3>4, <3>5
  <2>2. CASE ~Save
    <3>1. stored' = stored
      BY <1>1, <2>2, NextCases, Edited
         DEF EditForm, FormOnly, Toggle, Submit, SubmitPlain, SubmitRefused,
             SubmitEncrypting, EncryptionStep, Encrypt, Encrypted,
             EncryptionFails, LoadStep, Refuse, SaveFails, Reload,
             DecryptRefused, TypeDecryptionPassword, DecryptForEditing,
             DecryptionStep, Decrypt, Decrypted, DecryptionFails
    <3>2. QED  BY <3>1
  <2>3. QED  BY <2>1, <2>2
<1>2. TypeOK /\ KeysAgree /\ [Next]_vars => [A]_vars
  BY <1>1
<1>3. QED  BY <1>2, Keys, PTL DEF Spec, SamePasswordReused

-----------------------------------------------------------------------------
(* What is posted.                                                         *)

LEMMA PostedOnly ==
  [Next]_vars /\ ~SubmitPlain /\ ~Encrypted =>
     posted' = posted \/ posted' = NotPosted
<1> SUFFICES ASSUME [Next]_vars, ~SubmitPlain, ~Encrypted
             PROVE  posted' = posted \/ posted' = NotPosted
  OBVIOUS
<1>1. CASE EditForm
  BY <1>1 DEF EditForm, TypeText, ClearSecret, TypeExtraPassword,
              TypeConfirmation, ChoosePreset, FormOnly
<1>2. CASE LoadStep
  BY <1>2 DEF LoadStep, Save, Refuse, SaveFails, Reload, Redisplay, LoadAfresh, Load
<1>3. QED
  BY <1>1, <1>2, NextCases
     DEF Toggle, Submit, SubmitRefused, FormOnly, SubmitEncrypting,
         EncryptionStep, Encrypt, EncryptionFails, DecryptRefused,
         TypeDecryptionPassword, DecryptForEditing, DecryptionStep, Decrypt,
         Decrypted, DecryptionFails, vars

\* The two ways a post comes about.
LEMMA Posts ==
  ASSUME TypeOK
  PROVE  /\ SubmitPlain =>
              ~posted'.enabled /\ posted'.payload = NoPayload
         /\ Encrypted =>
              /\ posted'.enabled = form.enabled /\ posted'.text = NoText
              /\ posted'.payload = EncryptSecret(task.text, task.key)
              /\ posted'.payload # NoPayload
<1>1. ASSUME SubmitPlain
      PROVE  ~posted'.enabled /\ posted'.payload = NoPayload
  BY <1>1 DEF SubmitPlain, PostOf, TypeOK, Form
<1>2. ASSUME Encrypted
      PROVE  /\ posted'.enabled = form.enabled /\ posted'.text = NoText
             /\ posted'.payload = EncryptSecret(task.text, task.key)
             /\ posted'.payload # NoPayload
  <2> DEFINE sealed == EncryptSecret(task.text, task.key)
  <2>1. sealed \in Payloads /\ sealed # NoPayload
    BY TaskTypes
  <2>2. posted' = PostOf(Closed(form, sealed)) /\ form \in Form
    BY <1>2 DEF Encrypted, TypeOK
  <2> HIDE DEF sealed
  <2>3. /\ posted'.enabled = form.enabled /\ posted'.text = NoText
        /\ posted'.payload = sealed
    BY <2>1, <2>2, ClosedTyped
  <2>4. QED  BY <2>1, <2>3 DEF sealed
<1>3. QED  BY <1>1, <1>2

(* No post carries a text beside its payload, or a checked box without a   *)
(* payload, whatever happens on the page while it encrypts.                *)
THEOREM NoPlaintextPosted == Spec => []PlaintextStays
<1>1. Init => PlaintextStays
  BY DEF Init, PlaintextStays
<1>2. TypeOK /\ PlaintextStays /\ [Next]_vars => PlaintextStays'
  BY PostedOnly, Posts DEF PlaintextStays
<1>3. QED  BY <1>1, <1>2, TypeCorrect, PTL DEF Spec

-----------------------------------------------------------------------------
(* What is encrypted is what was entered: the handler's locals against the *)
(* history variable, for any user and for one who waits.                   *)

Captured ==
  task.step # "idle" =>
    /\ ~Creating => task.key = entered.key
    /\ IF ProtectedUpdate THEN entered.key = shown.payload.key
       ELSE entered.key \in LongPasswords

AnyInFlight == \E a \in Attempts : attempts[a].step # "idle"

Undisturbed ==
  steady =>
    /\ task.step # "idle" => form.status = "working" /\ ~AnyInFlight
    /\ task.step = "frame" =>
          form.text = entered.text /\ (Creating => form.extra = entered.key)
    /\ task.step = "encrypting" => [text |-> task.text, key |-> task.key] = entered
    /\ AnyInFlight => panel.status = "working"
    /\ \A a, b \in Attempts :
          attempts[a].step # "idle" /\ attempts[b].step # "idle" => a = b

Sealing == Captured /\ Undisturbed /\ SealedAsEntered

LEMMA InitSealing == Init => Sealing
BY DEF Init, Sealing, Captured, Undisturbed, SealedAsEntered, AnyInFlight,
       IdleTask, IdleAttempt

LEMMA LoadSealing ==
  ASSUME TypeOK, LoadStep
  PROVE  Sealing'
<1>1. /\ task' = IdleTask /\ posted' = NotPosted
      /\ attempts' = [a \in Attempts |-> IdleAttempt]
  BY Loads DEF LoadStep, Load
<1>2. task'.step = "idle" /\ \A a \in Attempts : attempts'[a].step = "idle"
  BY <1>1 DEF IdleTask, IdleAttempt
<1>3. QED
  BY <1>1, <1>2 DEF Sealing, Captured, Undisturbed, AnyInFlight, SealedAsEntered

\* What leaves handlers and post alone, and the form too if the user waits.
LEMMA HandlersSame ==
  ASSUME Sealing, Kept, UNCHANGED <<task, attempts, posted, entered>>,
         steady => \/ task.step = "idle"
                   \/ form'.status = form.status /\ form'.text = form.text
                      /\ form'.extra = form.extra,
         steady => \/ ~AnyInFlight
                   \/ panel'.status = panel.status
  PROVE  Sealing'
<1>1. /\ kind' = kind /\ steady' = steady /\ shown' = shown
      /\ (Creating' <=> Creating) /\ (ProtectedUpdate' <=> ProtectedUpdate)
      /\ (AnyInFlight' <=> AnyInFlight)
  BY DEF Kept, setting, Creating, ProtectedUpdate, AnyInFlight
<1>2. Captured'
  BY <1>1 DEF Sealing, Captured
<1>3. Undisturbed'
  BY <1>1 DEF Sealing, Undisturbed
<1>4. SealedAsEntered'
  BY <1>1 DEF Sealing, SealedAsEntered
<1>5. QED  BY <1>2, <1>3, <1>4 DEF Sealing

\* A user who waits does nothing while a handler is at work.
LEMMA Waiting ==
  ASSUME Sealing, Free, steady
  PROVE  task.step = "idle" /\ ~AnyInFlight
BY DEF Sealing, Undisturbed, Free

LEMMA SubmitSealing ==
  ASSUME TypeOK, KeysAgree, Sealing, Submit
  PROVE  Sealing'
<1>0. Free
  BY DEF Submit, SubmitPlain, SubmitRefused, SubmitEncrypting
<1>1. Kept /\ attempts' = attempts /\ panel' = panel
  BY DEF Submit, SubmitPlain, SubmitRefused, SubmitEncrypting, FormOnly, Kept
<1>2. /\ steady' = steady /\ (Creating' <=> Creating)
      /\ (ProtectedUpdate' <=> ProtectedUpdate) /\ (AnyInFlight' <=> AnyInFlight)
      /\ shown' = shown
  BY <1>1 DEF Kept, setting, Creating, ProtectedUpdate, AnyInFlight
<1>3. CASE SubmitRefused
  BY <1>0, <1>1, <1>3, Waiting, HandlersSame DEF SubmitRefused, FormOnly
<1>4. CASE SubmitPlain
  <2>1. posted'.payload = NoPayload /\ task' = task /\ entered' = entered
    BY <1>4, Posts DEF SubmitPlain
  <2>2. steady => task.step = "idle" /\ ~AnyInFlight
    BY <1>0, Waiting
  <2>3. Captured'
    BY <1>2, <2>1 DEF Sealing, Captured
  <2>4. Undisturbed'
    BY <1>1, <1>2, <2>1, <2>2 DEF Sealing, Undisturbed
  <2>5. QED  BY <2>1, <2>3, <2>4 DEF Sealing, SealedAsEntered
<1>5. CASE SubmitEncrypting
  <2>1. /\ form' = [[form EXCEPT !.buttonsOff = TRUE] EXCEPT !.status = "working"]
        /\ task' = [step |-> "frame", text |-> NoText,
                    key |-> IF Creating THEN NoPassword ELSE PasswordForEncryption]
        /\ entered' = [text |-> form.text, key |-> PasswordForEncryption]
        /\ posted' = posted /\ posted = NotPosted
    BY <1>5 DEF SubmitEncrypting, SetStatus, Free
  <2>2. form'.status = "working" /\ form'.text = form.text /\ form'.extra = form.extra
    BY <2>1 DEF TypeOK, Form
  <2>3. ~ProtectedUpdate => remembered = NoPassword
    BY DEF TypeOK
  <2>4. IF ProtectedUpdate THEN PasswordForEncryption = shown.payload.key
        ELSE PasswordForEncryption = form.extra /\ form.extra \in LongPasswords
    <3>1. CASE ProtectedUpdate
      <4>1. ~Creating /\ ~ChoosesProtection
        BY <3>1 DEF ProtectedUpdate, Creating, ChoosesProtection
      <4>2. remembered # NoPassword
        BY <1>5, <4>1 DEF SubmitEncrypting, Encryptable, ResponseAccepted
      <4>3. QED  BY <3>1, <4>2 DEF PasswordForEncryption, KeysAgree
    <3>2. CASE ~ProtectedUpdate
      BY <1>5, <2>3, <3>2
         DEF SubmitEncrypting, Encryptable, ResponseAccepted, CreateAccepted,
             Confirmed, PasswordForEncryption
    <3>3. QED  BY <3>1, <3>2
  <2>5. Captured'
    BY <1>2, <2>1, <2>4 DEF Captured
  <2>6. steady => ~AnyInFlight
    BY <1>0, Waiting
  <2>7. Creating => PasswordForEncryption = form.extra
    BY <2>4 DEF Creating, ProtectedUpdate
  <2>8. Undisturbed'
    BY <1>1, <1>2, <2>1, <2>2, <2>6, <2>7 DEF Undisturbed, AnyInFlight
  <2>9. QED  BY <2>1, <2>5, <2>8 DEF Sealing, SealedAsEntered
<1>6. QED  BY <1>3, <1>4, <1>5 DEF Submit

LEMMA EncryptionSealing ==
  ASSUME TypeOK, Sealing, EncryptionStep
  PROVE  Sealing'
<1>1. Kept /\ attempts' = attempts /\ panel' = panel
  BY DEF EncryptionStep, Encrypt, Encrypted, EncryptionFails, Kept
<1>2. /\ steady' = steady /\ (Creating' <=> Creating)
      /\ (ProtectedUpdate' <=> ProtectedUpdate) /\ (AnyInFlight' <=> AnyInFlight)
      /\ shown' = shown
  BY <1>1 DEF Kept, setting, Creating, ProtectedUpdate, AnyInFlight
<1>3. CASE Encrypt
  <2>1. /\ task' = [step |-> "encrypting", text |-> form.text,
                    key |-> IF Creating THEN form.extra ELSE task.key]
        /\ form' = form /\ entered' = entered /\ posted' = posted
        /\ posted = NotPosted /\ task.step = "frame"
    BY <1>3 DEF Encrypt
  <2>2. Captured'
    BY <1>2, <2>1 DEF Sealing, Captured
  <2>3. entered = [text |-> entered.text, key |-> entered.key]
    BY DEF TypeOK
  <2>4. Undisturbed'
    BY <1>1, <1>2, <2>1, <2>3 DEF Sealing, Undisturbed, Captured
  <2>5. QED  BY <2>1, <2>2, <2>4 DEF Sealing, SealedAsEntered
<1>4. CASE Encrypted
  <2>1. task'.step = "idle" /\ entered' = entered /\ task.step = "encrypting"
    BY <1>4 DEF Encrypted, IdleTask
  <2>2. posted'.payload = [text |-> task.text, key |-> task.key]
    BY <1>4, Posts DEF EncryptSecret
  <2>3. SealedAsEntered'
    BY <1>2, <2>1, <2>2 DEF Sealing, SealedAsEntered, Captured, Undisturbed
  <2>4. Undisturbed'
    BY <1>1, <1>2, <2>1 DEF Sealing, Undisturbed
  <2>5. QED  BY <2>1, <2>3, <2>4 DEF Sealing, Captured
<1>5. CASE EncryptionFails
  <2>1. task'.step = "idle" /\ posted' = NotPosted
    BY <1>5 DEF EncryptionFails, IdleTask
  <2>2. Undisturbed'
    BY <1>1, <1>2, <2>1 DEF Sealing, Undisturbed
  <2>3. QED  BY <2>1, <2>2 DEF Sealing, Captured, SealedAsEntered
<1>6. QED  BY <1>3, <1>4, <1>5 DEF EncryptionStep

LEMMA DecryptionSealing ==
  ASSUME TypeOK, Sealing, NEW a \in Attempts, DecryptForEditing(a) \/ DecryptionStep(a)
  PROVE  Sealing'
<1>1. Kept /\ UNCHANGED <<task, posted, entered>>
  BY DEF DecryptForEditing, DecryptionStep, Decrypt, Decrypted, DecryptionFails, Kept
<1>2. /\ steady' = steady /\ shown' = shown
      /\ (Creating' <=> Creating) /\ (ProtectedUpdate' <=> ProtectedUpdate)
  BY <1>1 DEF Kept, setting, Creating, ProtectedUpdate
<1>3. Captured' /\ SealedAsEntered'
  BY <1>1, <1>2 DEF Sealing, Captured, SealedAsEntered
<1>4. ASSUME steady PROVE Undisturbed'
  <2>1. task.step = "idle"
    <3>1. CASE DecryptForEditing(a)
      BY <1>4, <3>1, Waiting DEF DecryptForEditing, AskToDecrypt
    <3>2. CASE DecryptionStep(a)
      <4>1. AnyInFlight
        BY <3>2 DEF DecryptionStep, Decrypt, Decrypted, DecryptionFails, AnyInFlight
      <4>2. QED  BY <1>4, <4>1 DEF Sealing, Undisturbed
    <3>3. QED  BY <3>1, <3>2
  <2>2. \A b \in Attempts : b # a => attempts[b].step = "idle" /\ attempts'[b] = attempts[b]
    <3>1. CASE DecryptForEditing(a)
      BY <1>4, <3>1, Waiting DEF DecryptForEditing, AskToDecrypt, AnyInFlight, TypeOK
    <3>2. CASE DecryptionStep(a)
      <4>1. attempts[a].step # "idle"
        BY <3>2 DEF DecryptionStep, Decrypt, Decrypted, DecryptionFails
      <4>2. \A b \in Attempts : b # a => attempts[b].step = "idle"
        BY <1>4, <4>1 DEF Sealing, Undisturbed
      <4>3. \A b \in Attempts : b # a => attempts'[b] = attempts[b]
        BY <3>2 DEF DecryptionStep, Decrypt, Decrypted, DecryptionFails, TypeOK
      <4>4. QED  BY <4>2, <4>3
    <3>3. QED  BY <3>1, <3>2
  <2>3. attempts'[a].step # "idle" => panel'.status = "working"
    <3>1. CASE DecryptForEditing(a)
      BY <3>1 DEF DecryptForEditing, SetStatus, TypeOK, Panel
    <3>2. CASE Decrypt(a)
      BY <1>4, <3>2 DEF Decrypt, Sealing, Undisturbed, AnyInFlight
    <3>3. CASE Decrypted(a) \/ DecryptionFails(a)
      BY <3>3 DEF Decrypted, DecryptionFails, IdleAttempt, TypeOK
    <3>4. QED  BY <3>1, <3>2, <3>3 DEF DecryptionStep
  <2>4. QED  BY <1>1, <2>1, <2>2, <2>3 DEF Undisturbed, AnyInFlight
<1>5. Undisturbed'
  BY <1>2, <1>4 DEF Undisturbed
<1>6. QED  BY <1>3, <1>5 DEF Sealing

LEMMA StepSealing ==
  TypeOK /\ KeysAgree /\ Sealing /\ [Next]_vars => Sealing'
<1> SUFFICES ASSUME TypeOK, KeysAgree, Sealing, [Next]_vars PROVE Sealing'
  OBVIOUS
<1>1. CASE EditForm
  <2>1. FormOnly /\ Free
    BY <1>1, Edited DEF EditForm
  <2>2. QED  BY <2>1, Waiting, HandlersSame DEF FormOnly, Kept
<1>2. CASE Toggle
  BY <1>2, Waiting, HandlersSame DEF Toggle, Kept
<1>3. CASE DecryptRefused \/ \E k \in PasswordValues : TypeDecryptionPassword(k)
  <2>1. Free /\ Kept /\ UNCHANGED <<form, task, attempts, posted, entered>>
    BY <1>3 DEF DecryptRefused, AskToDecrypt, TypeDecryptionPassword, Kept
  <2>2. QED  BY <2>1, Waiting, HandlersSame
<1>4. CASE UNCHANGED vars
  BY <1>4, HandlersSame DEF vars, Kept
<1>5. QED
  BY <1>1, <1>2, <1>3, <1>4, LoadSealing, SubmitSealing, EncryptionSealing,
     DecryptionSealing, NextCases

(* What is posted is what was entered when the form was submitted, under a *)
(* confirmed password or the one of the response that is updated.          *)
THEOREM SealsAsEntered == Spec => []SealedAsEntered
<1>1. Init => Sealing
  BY InitSealing
<1>2. Sealing => SealedAsEntered
  BY DEF Sealing
<1>3. QED  BY <1>1, <1>2, Keys, StepSealing, PTL DEF Spec

-----------------------------------------------------------------------------
(* What the screen shows, by its parts.                                    *)

FormTrue ==
  /\ form.counted = form.text
  /\ form.hours = form.preset
  /\ form.buttonsOff <=> task.step # "idle"
  /\ form.status = "working" => task.step # "idle"

PanelTrue == panel.status = "working" \/ panel.buttonOff => AnyInFlight

LEMMA ScreenParts == ScreenTrue <=> (posted = NotPosted => FormTrue /\ PanelTrue)
BY DEF ScreenTrue, FormTrue, PanelTrue, AnyInFlight

LEMMA InitScreen == Init => ScreenTrue
<1> SUFFICES ASSUME Init PROVE FormTrue /\ PanelTrue
  BY ScreenParts
<1> USE DEF Init
<1>1. PICK checked \in BOOLEAN, preset \in PresetsShown :
         form = SetClientEncryptionUi(
                    Rendered(NoResponse, checked, NoText, NoPayload, preset),
                    NoPassword)
  OBVIOUS
<1> DEFINE r == Rendered(NoResponse, checked, NoText, NoPayload, preset)
<1>2. r \in Form /\ r.counted = r.text /\ r.hours = r.preset
      /\ ~r.buttonsOff /\ r.status = "none"
  BY DEF Rendered, Form, NoResponse, TextValues, PasswordValues, Payloads,
         Statuses, PresetsShown
<1>3. form = SetClientEncryptionUi(r, NoPassword) /\ NoPassword \in PasswordValues
  BY <1>1 DEF PasswordValues
<1> HIDE DEF r
<1>4. /\ form.counted = form.text /\ form.hours = form.preset
      /\ ~form.buttonsOff /\ form.status = "none"
  BY <1>2, <1>3, UiKeeps
<1>5. QED  BY <1>4 DEF FormTrue, PanelTrue, IdleTask, IdlePanel

LEMMA LoadScreen ==
  ASSUME TypeOK, LoadStep
  PROVE  ScreenTrue'
<1>1. UNCHANGED setting
  BY Loads DEF LoadStep
<1>2. PICK response \in Response, checked \in BOOLEAN, text \in TextValues,
           payload \in Payloads, preset \in PresetsShown :
             Load(response, checked, text, payload, preset)
  BY Loads DEF LoadStep
<1>3. /\ form'.counted = form'.text /\ form'.hours = form'.preset
      /\ ~form'.buttonsOff /\ form'.status = "none"
  BY <1>1, <1>2, Loaded DEF TypeOK
<1>4. task'.step = "idle" /\ panel'.status = "none" /\ ~panel'.buttonOff
  BY <1>2 DEF Load, IdleTask, IdlePanel
<1>5. QED  BY <1>3, <1>4 DEF ScreenTrue

LEMMA StepScreen == TypeOK /\ ScreenTrue /\ [Next]_vars => ScreenTrue'
<1> SUFFICES ASSUME TypeOK, ScreenTrue, [Next]_vars PROVE ScreenTrue'
  OBVIOUS
<1>1. CASE LoadStep
  BY <1>1, LoadScreen
<1>2. CASE EditForm
  <2>1. /\ posted = NotPosted /\ UNCHANGED <<panel, task, attempts>>
        /\ form.counted = form.text => form'.counted = form'.text
        /\ form.hours = form.preset => form'.hours = form'.preset
        /\ form'.buttonsOff = form.buttonsOff /\ form'.status = form.status
    BY <1>2, Edited DEF EditForm, FormOnly, Free
  <2>2. FormTrue /\ PanelTrue
    BY <2>1, ScreenParts
  <2>3. FormTrue' /\ PanelTrue'
    BY <2>1, <2>2 DEF FormTrue, PanelTrue, AnyInFlight
  <2>4. QED  BY <2>3 DEF ScreenTrue, FormTrue, PanelTrue, AnyInFlight
<1>3. CASE Toggle
  <2> DEFINE f == [form EXCEPT !.enabled = ~@]
  <2>1. /\ f \in Form /\ f.text = form.text /\ f.counted = form.counted
        /\ f.hours = form.hours /\ f.preset = form.preset
        /\ f.buttonsOff = form.buttonsOff /\ f.status = form.status
    BY DEF TypeOK, Form
  <2>2. /\ form' = SetClientEncryptionUi(f, remembered)
        /\ remembered \in PasswordValues
        /\ posted = NotPosted /\ UNCHANGED <<panel, task, attempts>>
    BY <1>3 DEF Toggle, Free, TypeOK
  <2> HIDE DEF f
  <2>3. /\ form'.text = form.text /\ form'.counted = form.counted
        /\ form'.hours = form.hours /\ form'.preset = form.preset
        /\ form'.buttonsOff = form.buttonsOff
        /\ form'.status \in {form.status, "none"}
    BY <2>1, <2>2, UiKeeps
  <2>4. QED  BY <2>2, <2>3 DEF ScreenTrue
<1>4. CASE SubmitPlain
  <2>1. posted' = PostOf([form EXCEPT !.payload = NoPayload]) /\ form \in Form
    BY <1>4 DEF SubmitPlain, TypeOK
  <2>2. posted' \in Post
    BY <2>1 DEF PostOf, Form, Post, TextValues, Payloads
  <2>3. QED  BY <2>2, PostAssumption DEF ScreenTrue
<1>5. CASE SubmitRefused
  BY <1>5 DEF SubmitRefused, SetStatus, FormOnly, Free, ScreenTrue, TypeOK, Form
<1>6. CASE SubmitEncrypting
  <2>1. /\ form' = [[form EXCEPT !.buttonsOff = TRUE] EXCEPT !.status = "working"]
        /\ task'.step = "frame" /\ posted = NotPosted
        /\ UNCHANGED <<panel, attempts>>
    BY <1>6 DEF SubmitEncrypting, SetStatus, Free
  <2>2. /\ form'.buttonsOff = TRUE /\ form'.text = form.text
        /\ form'.counted = form.counted
        /\ form'.hours = form.hours /\ form'.preset = form.preset
    BY <2>1 DEF TypeOK, Form
  <2>3. QED  BY <2>1, <2>2 DEF ScreenTrue
<1>7. CASE Encrypt
  BY <1>7 DEF Encrypt, ScreenTrue
<1>8. CASE Encrypted
  <2> DEFINE sealed == EncryptSecret(task.text, task.key)
  <2>1. sealed \in Payloads /\ posted' = PostOf(Closed(form, sealed)) /\ form \in Form
    BY <1>8, TaskTypes DEF Encrypted, TypeOK
  <2> HIDE DEF sealed
  <2>2. posted' \in Post
    BY <2>1, ClosedTyped
  <2>3. QED  BY <2>2, PostAssumption DEF ScreenTrue
<1>9. CASE EncryptionFails
  <2>1. /\ form'.text = form.text /\ form'.counted = form.counted
        /\ form'.preset = form.preset /\ form'.hours = form.hours
        /\ ~form'.buttonsOff /\ form'.status = "error"
    BY <1>9, Reopened DEF EncryptionFails, TypeOK
  <2>2. task'.step = "idle" /\ posted = NotPosted /\ UNCHANGED <<panel, attempts>>
    BY <1>9 DEF EncryptionFails, IdleTask
  <2>3. QED  BY <2>1, <2>2 DEF ScreenTrue
<1>10. CASE DecryptRefused \/ \E k \in PasswordValues : TypeDecryptionPassword(k)
  <2>1. /\ posted = NotPosted /\ UNCHANGED <<form, task, attempts>>
        /\ panel'.buttonOff = panel.buttonOff
        /\ panel'.status = panel.status \/ panel'.status = "error"
    BY <1>10 DEF DecryptRefused, AskToDecrypt, Free, TypeDecryptionPassword,
                 SetStatus, TypeOK, Panel
  <2>2. QED  BY <2>1 DEF ScreenTrue
<1>11. ASSUME NEW a \in Attempts, DecryptForEditing(a) \/ DecryptionStep(a)
       PROVE  ScreenTrue'
  <2>1. posted = NotPosted /\ task' = task
    BY <1>11 DEF DecryptForEditing, AskToDecrypt, Free, DecryptionStep, Decrypt,
                 Decrypted, DecryptionFails
  <2>2. FormTrue /\ PanelTrue
    BY <2>1, ScreenParts
  <2>3. FormTrue'
    <3>1. CASE Decrypted(a)
      BY <2>1, <2>2, <3>1, DecryptedForm DEF FormTrue
    <3>2. CASE ~Decrypted(a)
      BY <1>11, <2>1, <2>2, <3>2
         DEF DecryptForEditing, DecryptionStep, Decrypt, DecryptionFails, FormTrue
    <3>3. QED  BY <3>1, <3>2
  <2>4. PanelTrue'
    <3>1. CASE DecryptForEditing(a) \/ Decrypt(a)
      <4>1. attempts'[a].step # "idle"
        BY <3>1 DEF DecryptForEditing, Decrypt, TypeOK
      <4>2. QED  BY <4>1 DEF PanelTrue, AnyInFlight
    <3>2. CASE Decrypted(a)
      BY <3>2 DEF Decrypted, SetStatus, IdlePanel, PanelTrue
    <3>3. CASE DecryptionFails(a)
      BY <3>3 DEF DecryptionFails, SetStatus, TypeOK, Panel, PanelTrue
    <3>4. QED  BY <1>11, <3>1, <3>2, <3>3 DEF DecryptionStep
  <2>5. QED  BY <2>3, <2>4 DEF ScreenTrue, FormTrue, PanelTrue, AnyInFlight
<1>12. CASE UNCHANGED vars
  BY <1>12 DEF vars, ScreenTrue
<1>13. QED
  BY <1>1, <1>2, <1>3, <1>4, <1>5, <1>6, <1>7, <1>8, <1>9, <1>10, <1>11, <1>12,
     NextCases DEF Submit, EncryptionStep

(* The counter, the expiry, the buttons and the statuses of the page are   *)
(* true in every state in which the page is not being left.                *)
THEOREM ScreenIsTrue == Spec => []ScreenTrue
BY InitScreen, StepScreen, TypeCorrect, PTL DEF Spec
=============================================================================

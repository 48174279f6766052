# A TLA+ model of sharepassword (Sekura)

sharepassword is an ASP.NET Core application that hands over credentials by
link and access code (*secure shares*), collects them from partners
(*information requests*), and keeps local users, metrics and settings in a SQL
database through Entity Framework Core. Its pages hold JavaScript that encrypts
and decrypts secrets in the browser, checks and generates passwords, and runs
passkey ceremonies. This directory holds TLA+ modules for the stateful parts,
the TLC instances that check them, and theorems TLAPS proves. Paths below are
relative to the repository; `S/` is `sekura/Services/`, `C/` is
`sekura/Controllers/`, `J/` is `sekura/wwwroot/js/`.

## 1. Inventory

| Component | State | Operations | What makes it correct |
|---|---|---|---|
| Secure shares (`C/ShareController`, `C/AdminController`, `S/DbShareStore`) | one row per share: expiry, failed attempts, pause, last access | create, access, delete after retrieve, revoke | no access after expiry; removal is final; failures counted; a pause lasts; an opening is recorded before the secret is shown |
| Information requests (`C/InformationRequestController`, `C/InformationRequestsController`, `S/DbInformationRequestStore`) | one row per request: expiry, response, attempts, pause | create, partner access, submit, extend, revoke | a response or an extension is not undone by another request; as for shares |
| Cleanup (`S/ExpiredShareCleanupService`) | none of its own; a background loop | one pass per interval over both tables | every expired row goes in the end; what it reports is what it did |
| Database runner (`S/DatabaseResilience`) | attempt number of the running operation | retry transient failures up to `MaxAttempts` | an operation repeated after a lost answer has no second effect |
| Local users (`S/DbLocalUserService`, `C/UsersController`) | one row per user: roles, disabled, TOTP secrets, counters | create, update, delete, reset, TOTP setup, confirm, verify, remove | one enabled administrator remains; a TOTP step is used once; statistics add up |
| Sign-in (`C/AccountController`) | session cookie: none, pending second factor, signed in | login, TOTP, passkey, logout | a session is complete only after a second factor that counts when it is completed; an app is replaced only by its owner |
| Passkeys (`J/passkey.js`, `S/PasskeyService`, `C/AccountController`) | passkey rows: counter, last use; the challenge in a cookie; the button and status of each tab | registration and assertion from the click to the answer, remove | a genuine passkey is accepted; the counter never locks it out; the limit holds but for overlaps; every ceremony ends with its outcome told |
| Encrypting forms (`J/share-client-encryption.js`) | fields, protection box, posted payload, remembered password, handlers at an await | edit, encrypt and submit, decrypt to edit | no plaintext beside the payload; the payload is what was entered; the password of a response is kept; the controls come back |
| Secret panel (`J/site.js`, `J/share-client-encryption.js`) | the value, what is on screen, decryptions and copies in flight, the label's timer | show and hide, decrypt, copy | only Show brings plaintext into sight; "Copied" is true |
| Password fields (`J/site.js`) | fields, meter, verdicts, the generator's loop | type, fill, generate, submit | generated passwords pass both policies; what is posted was checked as posted |
| Login throttle (`S/LoginThrottleService`) | in-memory entry per user name | pause query, failure, success, prune | the attempt limit pauses; the table is bounded |
| Usage metrics (`S/DbUsageMetricsService`) | counters and events | record, snapshot | each counter is the sum of its events |
| System configuration (`S/DbSystemConfigurationService`) | one row behind a semaphore | read, three updates, create on first use | an update changes only its own section |
| Audit (`S/AuditLogger`, sinks) | append-only log | best-effort write | no failure of it reaches the caller |
| Platform (`S/PlatformInitializationService`, `Program.cs`, `Data/`) | migrations, seeded administrator | once per start | idempotent |
| Azure backend (`S/KeyVaultStore`, `S/AuditTableStore`) | vault secrets, tables | the store interfaces without the database | as the SQL stores |
| Cryptography and codes (`S/PasswordCryptoService`, `S/AccessCodeService`, `S/AdminPasswordHash`, `S/TotpService`), views, options, time zone, mail | none that operations share | pure functions, rendering, I/O | inverse functions, formats |

**How they interact.** Every operation runs inside one HTTP request or in the
cleanup loop. Requests run concurrently, in one process or several; they meet
only in the database (and, in one process, in the throttle table and the
configuration semaphore). A handler reads rows through a store
(`AsNoTracking`), decides on the copy, and later hands the copy back to the
store. A store operation runs as a lambda under `DatabaseOperationRunner`, on a
context of its own; there is no transaction around a read and the write that
follows and no concurrency token in the schema.

In the browser there is one thread, and a handler runs to its next `await`:
the frame after "encrypting", the Web Crypto call, the clipboard, the
authenticator, the network. Everything else on the page can happen there, a
second run of the same handler included. The tabs of a browser meet in its
cookies (the session, and the TempData cookie that carries a passkey
challenge), and a page is rebuilt from what the server last stored or refused.

**What is hard.** Interleaving of read, decision and write; copies that are
stale when saved; saves that mix columns of copies of different age; an insert
after a concurrent delete; repeating a statement that was committed before its
answer was lost; a restart between two writes; a pass of the cleanup that fails
halfway; counters at their limit; fields that change, or a second click, while
a handler waits; answers of two tabs out of order. `PROJECT.json` lists each at its line.

## 2. Plan

In the order they were built, the most important behaviour first:

1. `ShareLifecycle`, `ShareAccess`: the core. Shares, their two controllers,
   the store statement by statement, the runner's retries, the cleanup.
2. `RequestLifecycle`, `InformationRequests`: the partner's two-step submission
   against extend, revoke and cleanup. `RowStore` holds what both stores share.
3. `LoginThrottle`: failures, pauses, pruning, the cap.
4. `UserDirectory`, `LocalUsers`: administrators, the last-administrator rule,
   the built-in administrator of a start.
5. `EncryptingForm`: the two forms that encrypt in the browser, from the first
   key stroke to the page after the next.
6. `SecretPanel`: showing, decrypting and copying a secret.
7. `PasswordFields`: policy, confirmation and generator.
8. `Base64Url`, `Passkeys`: ceremonies of several tabs with the server.
9. `AuthenticatorLifecycle`, `Authenticators`: sessions and the authenticator
   app, from its setup to its reset.
10. Proofs, beside each of 1-9.

What is left is small or only displayed (section 6): the settings' semaphore,
the usage counters.

Each module takes its parameters as CONSTANTS and has one action per operation,
statement or stretch between two awaits. No module has a RECURSIVE operator, so
that it can be proved about. Runs stay few: one for the program as it is, one
for operations that do not overlap, where both are within TLC's reach.

## 3. Modules

| Module | Models | Uses |
|---|---|---|
| `RowStore` | how a store saves a copy over a row selected again | |
| `ShareLifecycle` | abstract: a share as one atomic object | |
| `ShareAccess` | shares, their store, the cleanup's first half | `RowStore`, implements `ShareLifecycle` |
| `RequestLifecycle` | abstract: an information request as one atomic object | |
| `InformationRequests` | requests, their store, the cleanup's second half | `RowStore`, implements `RequestLifecycle` |
| `LoginThrottle` | the throttle's table and entries, used by overlapping sign-ins | |
| `UserDirectory` | abstract: accounts known by their names | |
| `LocalUsers` | the administration of users and the start | `RowStore`, implements `UserDirectory` |
| `AuthenticatorLifecycle` | abstract: an authenticator app as one atomic object | |
| `Authenticators` | sign-in sessions, setup, codes and reset of the app | `RowStore`, implements `AuthenticatorLifecycle` |
| `EncryptingForm` | the create form and the response form of a browser | |
| `SecretPanel` | a page that shows a secret | |
| `PasswordFields` | a page with a new password | |
| `Base64Url` | the byte conversions of `passkey.js` and of the server | |
| `Passkeys` | passkey ceremonies in several tabs of one browser, and the server | `Base64Url` |
| `MC*` | instances for TLC: symmetry and sets a `.cfg` cannot write | the module named |
| `*_proofs` | theorems | the module named; `SiteScripts_proofs` both `SecretPanel` and `PasswordFields` |

### ShareLifecycle
The promise of `DESIGN.md:131-140` with one atomic step per operation: a share
is published once, opened or missed any number of times outside a pause, paused
when the failures reach the limit, and removed for good.

### ShareAccess
| Model | Code |
|---|---|
| `row[s]` | a row of `SecureShares`: `ExpiresAtUtc`, `FailedAccessAttempts`, `AccessPausedUntilUtc`, `LastAccessedAtUtc`; the columns that never change are left out |
| `request[h]` | the local variables of one request: the copy `share`, the row EF selected, how far it is |
| `cleanup` | the local variables of one pass |
| `Create`, `AccessRead` ... `Reveal` | `AdminController.Create`; `ShareController.Access` cut at every database statement and clock reading |
| `UpsertSelect`, `UpsertSucceeds`, `UpsertConflicts`, `UpsertBreaks` | `DbShareStore.UpsertShareAsync` under the runner: select, then insert or update of the changed columns; the constraint or missing-row error; a transient error before or after the commit |
| `RemovalRead`, `DeleteSucceeds`, `DeleteBreaks` | `DeleteAfterRetrieve`, `Revoke`, the delete of an expired share |
| `CleanupStart` ... `CleanupBreaks` | one pass of `ExpiredShareCleanupService` over the shares |
| `Tick`, `Restart` | the clock; the end of the process, which loses what was not saved |

What a posted form may contain (signed in or not, which email, which code,
valid or not) is enumerated in `Submissions`, and `Verdict` translates the
checks of `Access` to what happens next. Wrong codes are not told apart.
Time counts in one unit for lifetimes and pauses; only the order matters.
`expiry`, `removed`, `counted` are history variables: no guard that models code
reads them except `expiry` in `Create`, where it stands for "the id was never
used" (ids are fresh GUIDs).

`Overlap = FALSE` restricts the model to executions in which no two operations
on one share overlap. It is the assumption under which the code keeps all its
promises; `Overlap = TRUE` is the program as it is.

### RowStore
`UpsertShareAsync` and `UpsertInformationRequestAsync` select the stored row
again, copy every property of the handler's copy onto it, and let EF Core write
the columns that changed. `Column` says what becomes of one column, `Saves`
when the statement finds its row or its free key. `LocalUsers` uses `Column`
too: there the row is selected in the operation itself.

### RequestLifecycle, InformationRequests
`row`, `request` and `cleanup` as in `ShareAccess`. A partner's request is
`Read`, then one of `PartnerExpired`, `PartnerRefused`, `PartnerLapsed`,
`PartnerOpen` (`ValidatePartnerAccessAsync`), the judgement of the code, and
`Show` or `Update`; a submission therefore saves the row twice. The requester's
`Extend` reads, computes from the later of the expiration and now, and saves.
Expired links (`PartnerExpired`) are deleted from a copy, without looking again. The responses
are model values, two encryptions being never equal (`Fresh`); the encryption
mode is a column of its own, so a save can mix it with another response.
`stored` is a history variable for `ResponseKept` only. A pass of the cleanup
comes to the requests after the shares (`CleanupShares`), and not at all when
the shares' part failed.

### LoginThrottle
| Model | Code |
|---|---|
| `table[k]` | `_entries`: which entry object account `k` has |
| `entry[e]` | the fields of a `ThrottleEntry`; 0 stands for a null time |
| `request[h]` | a sign-in: the account, the entry it holds, the time `RecordFailure` was entered, what a pruning has still to enumerate |
| `SignIn`, `Paused`, `Proceed` | `GetPauseExpiryUtc`: look the entry up, then lock and read it |
| `WrongCredentials`, `PruneIfNeeded` ... `PruneEnd`, `Get`, `Add`, `RecordFailure` | `RecordFailure`: the time, the pruning entry by entry, `GetOrAdd`, the work under the lock |
| `RecordSuccess`, `Abandon` | the password was right; the sign-in ended without a verdict |

Entries are objects: one that was taken from the table lives on in the requests
that hold it, which is where stale counts come from. `Add` picks an entry that
nobody refers to. `streak` is a history variable: the failures of an account
since its last success, counted up to the limit.

### UserDirectory, LocalUsers
| Model | Code |
|---|---|
| `row[u]` | a row of `LocalUsers`: name, password, roles, disabled, seeded |
| `task[h]` | one operation of `DbLocalUserService`: what was asked for, the row it selected, the attempt |
| `server`, `configured` | whether `PlatformInitializationService` has finished; `AdminAuth:Username` of this process (`NoName` when none is configured) |
| `CreateUser` ... `EnsureBuiltInAdmin` | the controller's call, the start |
| `Select`, `SelectConfigured`, `CheckName`, `CountAdmins`, `Save` | the statements of the operation, in the code's order |
| `Break` | a statement fails, before or after it took effect; the operation starts over or is given up |

`UserDirectory` knows no ids: an account is what a name maps to, and each
operation is one step that keeps an enabled administrator. The refinement
mapping reads the rows by name, so it only exists while names are unique. The
change of one's own password takes the steps of `ResetPassword`. Left out: the
columns for TOTP (`Authenticators`) and statistics, and display data.

`Overlap = FALSE` lets an operation begin only when none is running.

### AuthenticatorLifecycle, Authenticators
| Model | Code |
|---|---|
| `row` | the TOTP columns of one account: secret and whether it is confirmed, last step matched, pending secret, whether a second factor is required |
| `session[b]` | the cookie of browser `b`: none, waiting for the second factor, signed in |
| `request[h]` | one request: the cookie it was sent with, the code, the row selected, the setup its page shows, the attempt |
| `passkey` | whether the account has a passkey |
| `Login`, `Totp`, `OpenTotpSetup`, `PostTotpSetup`, `PasskeyAssertionVerify`, `PasskeyRegister`, `RemoveTotp` | the handlers of `AccountController` and `UsersController` |
| `Authenticate`, `HasPasskeys`, `CheckSignIn`, `EnsureTotpSetup`, `SaveOffer`, `VerifyTotp`, `SaveAccepted`, `CompleteAssertion`, `CompleteRegistration`, `SelectForRemoval`, `SaveErased`, `CompleteLocalSignIn` | their statements, in order |
| `Break`, `Restart`, `Tick`, `Logout`, `Require`, `RemovePasskeys` | a statement that fails before or after it took effect; the end of the process; the clock; a cookie that goes; the edit that requires a second factor; the removal of the last passkey |

A code is a secret and a time step. The owner may type any code of a secret
that was on a page (`seen`), of any age up to a step ahead of the server, or a
wrong one. Secrets are numbered as they are generated.

A sign-in that waits for its second factor is completed by a code, by a passkey,
or by the registration of a passkey or of an app: `PasskeyRegister` asks for no
factor the account has, so the model does not either. Of a ceremony it only
matters here that it can end well when there is a passkey (`CompleteAssertion`)
or adds one (`CompleteRegistration`); `Passkeys` has the ceremonies.

`spent`, `admitted` and `overtaken` are history variables: the codes that were
saved as accepted, those that completed a sign-in, and the requests that were in
flight when another one changed the account. What the last have read may be old,
and the properties that hold with overlap say so. `AuthenticatorLifecycle` has a
step for a sign-in, too: a code that was accepted completes one, while its setup
is in force, or none.

### EncryptingForm
| Model | Code |
|---|---|
| `kind`, `webCrypto`, `steady` | which page it is; whether the browser has Web Crypto; whether this user leaves the page alone while it says "encrypting" or "decrypting" |
| `stored` | the response or share the server has |
| `shown`, `form`, `panel` | what the page was rendered with; the fields and the box; the decryption panel |
| `remembered` | the password of the response, kept for its update |
| `task`, `attempts` | the submit handler and the decryptions in flight, each at an await |
| `posted`, `entered` | what reached the server; history: text and password when the submit was clicked |
| `TypeText`, `ClearSecret`, `TypeExtraPassword`, `TypeConfirmation`, `ChoosePreset`, `Toggle`, `TypeDecryptionPassword` | the user and the input listeners |
| `SubmitPlain`, `SubmitRefused`, `SubmitEncrypting`, `Encrypt`, `Encrypted`, `EncryptionFails` | the submit handler, cut at the frame and at the Web Crypto call |
| `DecryptRefused`, `DecryptForEditing`, `Decrypt`, `Decrypted`, `DecryptionFails` | the panel's handler, of which several can be under way |
| `Save`, `Refuse`, `SaveFails`, `Reload` | the server's three answers and the page rebuilt from them; leaving the page |

A payload is a text sealed under a password; decrypting with another password
fails. A form refused for a field the protection does not concern changes
nothing and is a stuttering step.

### SecretPanel
Initial states, steps and type invariant of this module and the next carry the
prefixes `Panel` and `Field`, so that one module can prove about both.

`encrypted`, `webCrypto` and `secure` say what the page holds and what the
browser can do; `raw` is the hidden plaintext, `screen` what is visible,
`buttonsOff` whether Show and Copy are disabled; `panel` is the password field
and its status; `attempts` are the decryptions in flight, `copies` the clipboard
writes, each with the value it read at the click, which a decryption that fails
may have emptied when the write is answered; `clipboard` is what was written;
`copyButton` is the label and its timer. `ToggleSecret`, `Copy`, `Copied`, `CopyFails`,
`RestoreLabel`, `TypePassword`, `DecryptRefused`, `DecryptFromInput`, `Decrypt`,
`Decrypted`, `DecryptionFails` are the handlers between awaits.

### PasswordFields
`page` says which of the three pages it is; `target`, `confirm`, `meter` and
`shown` are the fields and what is said about them, `generator` the locals of
the generator. `PickFour`, `PickMore`, `StartShuffle`, `ShuffleCharacters` and
`SetGeneratedPassword` run it with every random draw; `EnterPassword`,
`EnterConfirmation`, `FillSilently`, `Submit` and `Load` are the user, a
password manager, the submit handler and a new page. `silent` is a history
variable: a field was filled without an event.

### Base64Url, Passkeys
| Model | Code |
|---|---|
| `tabs[t]` | one tab: the step of its ceremony, button, status, the locals of `passkey.js` |
| `cookie`, `auth` | the TempData cookie and the session, shared by the tabs; a request has both as they were when it was sent |
| `stored`, `counter` | the passkey rows and their signature counters |
| `made`, `signed` | the authenticator: credentials it made, how often each signed |
| `issued`, `crossed` | bound of challenges; history: what else happened since a ceremony began |
| `Click`, `OptionsAnswered`, `OptionsRefused`, `Assert`, `Attest`, `PromptRejected`, `Succeeds`, `Refused`, `ResponseLost` | `passkey.js`, cut at every await |
| `TurnedAway`, `SessionExpired`, `LoadPasskey`, `AssertionFails`, `CompleteAssertion`, `VerifyAttestation`, `CountPasskeys`, `AddPasskey` | `AccountController` and `PasskeyService`, statement by statement |
| `Open`, `Shown` | a page is requested; its answer, which for `Readers` (the profile, and any page that looks for a status message in TempData) writes the whole cookie back as it was sent |
| `SignInAgain`, `RemovePasskey`, `RemoveAllPasskeys` | the password step, removals |
| `ServerFails` | the insertion of a passkey took effect and its answer was lost: the runner's repetition counts again and meets the limit or the unique index |

Ids and challenges are byte sequences. `Base64Url` has the conversions of
both sides (`bufferToBase64Url`, `base64UrlToBuffer` and the server's), and
`ToPage`, `ToServer` are the round trips through them, so a wrong padding
refuses a genuine passkey in the model, too.

## 4. Runs

| Run | Instance | What it shows |
|---|---|---|
| `share_overlap` | 1 share behind Entra ID, 2 overlapping requests, fair cleanup, limit 1, pause 1, clock 1..2, one retry, one restart | `NoAccessAfterExpiry`; `PauseHorizon`: a pause never exceeds the configured length; `RemovalFinalWhenFree`: a removed row returns only from a copy still in flight; `ExpiredIsRemovedForGood`: and in the end never again |
| `share_serial` | 1 share, 2 requests (`Overlap = FALSE`), limit 2, one retry, one restart, clock 1..4 | `RevealOnRecord`, `RemovedStaysRemoved`, `FailuresCounted`, and the refinement `Lifecycle` of `ShareLifecycle` |
| `request_serial` | 1 request, 2 handlers (`Overlap = FALSE`), a server-side and a client-side response, one retry, one restart, clock 1..4 | `ResponseKept`, and the refinement `Lifecycle` of `RequestLifecycle` |
| `request_cleanup` | 1 request, 2 overlapping handlers, fair cleanup, one restart, clock 1..3, no submissions, no retry | `OnlyExpiredDeleted`: a request is deleted before its time by a revocation, or from a copy that an extension overtook; `ExpiredNeverLingers` |
| `throttle_overlap` | 1 account, 2 overlapping sign-ins, 3 entries, limit 2, pause 3, window 1, cap 1, clock 1..4 | `PauseHorizon`, `LimitPauses`, `OnlyConsecutiveCounted`, `PauseKept` |
| `users_serial` | 3 ids, 2 names, 2 passwords, one operation at a time, one retry, any number of restarts under three configurations | `AdminRemains`, `StartRestores`, the refinement `DirectorySpec` of `UserDirectory` |
| `authenticators_serial` | 1 account, 2 browsers and an administrator, one request at a time, 2 setups, time steps 1..2, one retry, any number of restarts | `TypeOK`; `LastIsNewest`: the last step matched is the newest accepted with the setup in force; `SecondFactorPassed`: a sign-in is completed by a factor of the account as it is at that moment, or by none where it has and needs none; `OwnerReplaces`: a sign-in that waits for its second factor replaces no app; the refinement `Lifecycle` of `AuthenticatorLifecycle` |
| `authenticators_prompt` | 1 browser, one request at a time, 1 setup, no retry | violated: `FactorPrompted`, what `docs/FEATURES.md:66` says (section 6) |
| `encrypting_form` | both forms, one text and the empty field, one short and two long passwords, two decryptions in flight, two presets | `PlaintextStays`, `SealedAsEntered`, `ScreenTrue`, `SamePasswordReused`, `ControlsReturn` |
| `secret_panel` | a right and a wrong password, two decryptions and two copies in flight | `PanelConsistent`, `CopiedIsSecret`, `OnlyToggleReveals`, `SettlesDown` |
| `password_fields` | one character of each class and an accented one, passwords of 4 and a generated one of 5 | `GeneratedIsStrong`, `SubmittedIsSound`, `VerdictsFresh` |
| `passkeys` | two tabs, three credentials (one that counts), two challenges of 1 and 3 bytes, limit 1, counts up to 2 | `GenuineAccepted`, `CounterBehind`, `CapOvershoot`, `CeremonySettles` |

The type invariants of the other modules are proved (section 5) and not checked
again by TLC.

**What needs `Overlap = FALSE`.** The program does not serialize operations.
With `Overlap = TRUE` TLC finds that some promises of the serial runs fail when
two operations meet on one row, because a save writes what an older copy says,
and with them the refinements:

* `RemovedStaysRemoved`: an access that read a share before it was deleted or
  revoked inserts it again (`S/DbShareStore.cs:78`), although
  `Views/Share/Deleted.cshtml:8` says it "can no longer be accessed". Two
  failures count once (`FailuresCounted`), and a pause that an older copy saves
  between an opening and the page is still there when the secret is shown
  (`RevealOnRecord`).
* `ResponseKept`: an extension saves an older response back.
* `LastIsNewest`: of two codes verified at once the older one may be saved
  last, and the newer one is accepted again later.

Other properties name the exception instead, and hold whatever overlaps:

* `OnlyExpiredDeleted`: a partner whose copy has expired deletes a request that
  was extended since (`C/InformationRequestController.cs:216`).
* `AdminRemains`: an operation takes the last administrator away when its count
  is stale, or the row it selected; two requests that remove one of two
  administrators each can so remove both.
* `SecondFactorPassed` and `OwnerReplaces`: a request that another one overtook
  acts on what it has read; the check at `C/AccountController.cs:562`, say, is
  stale when a setup is confirmed before this request saves its own.

`OnlyExpiredDeleted` is checked with overlap; the other three are checked on one
operation at a time, where the exceptions cannot occur and the properties are
the plain promises, and proved with overlap (section 5): two operations at a
time on these instances are beyond TLC's reach. `share_overlap`,
`request_cleanup`, `throttle_overlap` and the four runs of the browser check the
program as it is.

**Bounds.** Two requests and the cleanup are three writers; each hazard needs
two. One share, request or account suffices where they do not interact; the
last-administrator rule needs two users (the third id of `users_serial` is for a
new account beside them). The clock reaches the expiry and, in the serial runs,
passes two pauses. In `throttle_overlap` the pause (3) is longer than the window
(1), so an entry can be old and still paused when it is pruned, and the cap (1)
makes every failure prune. Two setups are a setup and its change, or a setup
after a reset; with time steps 1..2 codes are of the step before, the same and
the next. `MaxTime`, `MaxRestarts`, `MaxCounted` and `MaxSetups` only stop
counters; `MaxAttempts` is a setting of the code (3 by default, 1 and 2 here:
without and with a repetition). `request_cleanup` leaves the submissions out,
which change no expiration. In `share_overlap` a pause ends with the clock; one
that lapses occurs in `share_serial`.

In the forms two passwords long enough tell "the same password" from "another
one", and a short one is refused; two decryptions in flight are what a click and
Enter start. In `password_fields` one character stands for each class, because
the policy asks only for classes; the lengths 4 and 5 stand for 12 and 20: the
four classes and one more character, so that the shuffle can move each of them.
`Again = FALSE` lets a page generate once. The challenges of `passkeys` have 1
and 3 bytes, one with padding and one without, and both with a character that is
replaced; when both are issued the instance stops, hence `CHECK_DEADLOCK FALSE` there. `MaxPasskeys`
is 10 in the code and 1 here, so that two tabs meet the limit.

**Deadlock** is checked in every other run: a request or a pass can always go
on, so nothing waits for anything.

**Fairness.** `FairSpec` of `ShareAccess` and `InformationRequests` asks that
the loop of the cleanup goes on (weak fairness of `CleanupStart` and
`CleanupReport`: `ExecuteAsync` catches every exception and loops) and that a
statement attempted again and again succeeds in the end (strong fairness of the
statements of a pass): without it the database may fail for ever and nothing is
ever deleted. No fairness is assumed of requests or of the clock. In the
browser modules, a handler that waits goes on: frames come while the tab is in
sight, Web Crypto and the clipboard resolve or reject, the prompt for a passkey
times out, a request is answered or fails, a timer fires once the user stops
clicking. Nothing is assumed of the user, nor of the server of a posted form:
`ControlsReturn` accepts a page that is being left.

## 5. Proofs

For any finite or infinite sets and any limits and bounds the named ASSUMEs of
the module allow. Each module has its type invariant as `TypeCorrect`
(`PanelTypesCorrect`, `FieldTypesCorrect`).

`ShareAccess_proofs`, whatever overlaps:

* `ExpiryRespected`: `Spec => []NoAccessAfterExpiry`. Not inductive by itself:
  a request is judged on its copy, and copies go back into the table.
  `ExpiryInv` adds that every stored row, every copy and every selected row
  that is not empty carries the expiry the share was created with, and that a
  request past the check arrived before it.
* `PausesEnd` (`PauseHorizon`), because every pause in a row, a copy or a
  selected row is one that was bounded when it was set (`PauseInv`).
* `RemovalFinal`: `Spec => RemovalFinalWhenFree`, from the type invariant and
  the fact that only a request working on a share writes its row, except to
  delete it or to create it once.
* `GoneForGood`: `Spec => [](Gone(s) => []Gone(s))`, where `Gone(s)` says that
  the row of `s` was removed and that nothing but deletions is under way at it.
  Only a copy in flight can bring a row back, so a removal is final as soon as
  there is none.

and under `~Overlap`, from one invariant (`SerialInv`: a handler past its read
is alone on its share, and its copy is the stored row but for what the handler
is about to change: a lapsed pause, an opening, a failure):

* `RevealRecorded`, and `ImplementsLifecycle`: `Spec => Lifecycle`. Each save
  maps to one step of `ShareLifecycle`, each repetition of it to a stutter.

`InformationRequests_proofs`: `PausesEnd`, whatever overlaps, is the bound on
pauses for information requests: no run checks it, the shares' `PauseHorizon`
being the same question. `DeletedWhenExpired` (`OnlyExpiredDeleted`), whatever
overlaps, too: `HeldInv` says that a partner's request about to delete has a
copy whose expiration has passed, and that a pass of the cleanup compares with
a time that has, so only a stale copy is deleted early. Under `~Overlap` and
with the same argument as for shares: `ResponsesKept`, `ImplementsLifecycle`.

`LoginThrottle_proofs`:

* `PausesEnd` (`PauseHorizon`) and `LimitReached` (`LimitPauses`) from one
  inductive invariant, `PauseInv`: besides the properties, the time a request
  took lies in the past, so the pause it starts ends within `PauseMinutes` of
  now.
* `ConsecutiveOnly` (`OnlyConsecutiveCounted`). `CountInv` adds that no two
  accounts share an entry, and that a request about to count in an entry of the
  table counts for the account which has it there. An entry removed by a
  success may still be counted in, but nobody will find it again.
* `PausesAreKept` (`PauseKept`), action by action.

`LocalUsers_proofs` (users are assumed finite, as the rows of a table are):

* `AdminStays`: `Spec => AdminRemains`, whatever overlaps. The rule is checked
  when administrators are counted and can only be broken when the row is saved.
  `SoloInv` carries it from there to here: an operation about to take an enabled
  administrator away has counted another one, so at its save there is one left,
  or fewer than it counted, or the row is not the one it selected; and one that
  runs alone still has the row and the count.
* `ImplementsDirectory`: `~Overlap` implies `Spec => DirectorySpec`. `NameInv`
  adds what the mapping needs: a row is absent or has a name of its own, and an
  operation asks for what a form may contain.
* `FallbackRestored`: `Spec => StartRestores`, for any `Overlap`, because the
  process serves nobody until the start is over.

`EncryptingForm_proofs`: `NoPlaintextPosted` (`PlaintextStays`),
`PasswordReused` (`SamePasswordReused`), `SealsAsEntered` (`SealedAsEntered`),
`ScreenIsTrue` (`ScreenTrue`). The invariant comes in layers: the types; that
the remembered password, when there is one, opens the response on the page and
that page and server agree on its key (`KeysAgree`); what the submit handler
carries over its awaits (`Sealing`); what the controls show.

`SiteScripts_proofs`: `PanelAgrees` (`PanelConsistent`), `CopiesAreTrue`
(`CopiedIsSecret`), `ShownByToggle` (`OnlyToggleReveals`) for the panel. A copy
under way carries the plaintext, because Copy can be clicked only while there is
one (`PanelConsistent`), whatever becomes of the field afterwards. Then
`GeneratesStrong`, `SubmitsSound`, `VerdictsAreFresh` for the password fields,
for every alphabet and both lengths: a swap moves characters and loses none.

`Authenticators_proofs`, whatever overlaps: `TypeCorrect`,
`SecondFactorIsPassed` (`SecondFactorPassed`) and `ReplacedByOwner`
(`OwnerReplaces`); and under `~Overlap` (with it TLC refutes both)
`LastStepNewest` (`LastIsNewest`) and `ImplementsLifecycle`. One invariant,
`IInv`, carries them: a request that no other one has overtaken is informed
(`Knows`). The row it selected is the stored one when it saves; the code it is
about to save is of the secret in force and newer than the last step; a sign-in
about to be completed has had a factor that counts, or needs none; one that
waits for its second factor and is setting up an app found none. Every step of
another request either leaves the account alone or overtakes this one. A
confirmation whose answer was lost is the exception that has to be carried
along: its repetition finds an app its sign-in did not know of, and nothing left
to confirm. Under `~Overlap` nothing is ever overtaken, and `Tallied` adds that
the last step is that of the newest code accepted with the setup in force, and
that a setup on offer has had none.

`Passkeys_proofs`, for any tabs, credentials, byte sequences and limit:

* `RoundTrip`: for every sequence of bytes, the server reads back what
  `bufferToBase64Url` wrote, and `base64UrlToBuffer` reads back what the server
  wrote. Three bytes and four characters are the same number; a last group that
  is short is one with zeros, which the padding says. Each group is proved by
  itself, so no induction over the length is needed.
* `LimitOvershoot` (`CapOvershoot`): a tab that has counted and not yet added
  counts as one that may, whatever else happens.
* `CountersBehind` (`CounterBehind`), with the types: counts in a page, a
  request, a loaded row or the table are counts the authenticator has reached.
* `GenuineCeremonies` (`GenuineAccepted`). `FreshInv` says what a ceremony that
  nothing has crossed holds: its challenge is the one in the cookie, or in the
  cookie its request was sent with, a credential it asserts is stored and one
  it registers is not, and its count is ahead of the counter. Whatever could
  change that under another tab's ceremony crosses it; a page load, when its
  answer writes the cookie back as it had been. `RoundTrip` then makes
  the server find the challenge and the credential it expects.

Left to TLC: the five liveness properties (`ExpiredIsRemovedForGood`,
`ExpiredNeverLingers`, `ControlsReturn`, `SettlesDown`, `CeremonySettles`),
because TLAPS proves neither ENABLED nor liveness under fairness; and
`RemovedStaysRemoved` and `FailuresCounted`, which hold only while operations on
a share do not overlap (section 4). Every other property of a passing run is stated by a theorem.

## 6. Not modelled

* `Authenticators` and `Passkeys` are not composed. `Authenticators` has accounts
  with an app and passkeys, and lets a ceremony end in either way; `Passkeys` has
  the ceremonies, and leaves the app out, because no step of one depends on it.
  The chooser between the two (`SecondFactor`, `SecondFactorSetup`) redirects
  or shows a page and changes nothing.
* Single sign-on (a library) and the configured administrator without a
  database, whose sign-in changes nothing but the throttle's entry, which
  `LoginThrottle` has.
* System configuration: one row of settings behind a semaphore. The models take
  limits and pauses as any value an administrator may have set.
* Usage metrics and the counters of an account: displayed and read by no other
  operation.
* Audit sinks (best effort, never read back), the Azure backend (no database;
  its semantics are outside the repository), mail, time zones, rendering,
  options, generated migrations.
* Cryptography and hashing are pure functions of libraries; a code, a password,
  a payload are right or wrong.
* The eye button of a password field and the jQuery shim, which change nothing
  a property could be about.

Where the code and a reader's expectation part, besides the overlaps of section
4, the models follow the code:

* "Any registered passkey or confirmed TOTP always enforces the second-factor
  prompt" (`docs/FEATURES.md:66`), and a comment calls the registration of a
  passkey by a sign-in that waits the completion of a "forced enrollment"
  (`C/AccountController.cs:462-463`). `PasskeyRegister` (436-465) does not look
  whether the account has a factor already: such a sign-in registers a passkey
  and is completed without a prompt of the app. `authenticators_prompt` has the
  trace; it is the one finding of `PROJECT.json`.
* "Confirmed authenticator setup details are never shown again"
  (`sekura/README.md:197`): when the save of a confirmation is committed and its
  answer lost, the repetition finds no pending setup, and the page comes back
  with the setup that has just been confirmed (`C/AccountController.cs:588-594`).
  In the same way a code accepted by a save whose answer was lost is refused.
* The throttle's table can outgrow its "hard cap"
  (`S/LoginThrottleService.cs:20-21, 54`), when no entry can be pruned; one
  entry for each account that failed recently.
* Registrations that overlap exceed the limit of passkeys, by as many as there
  are other tabs (`CapOvershoot`); a second tab's ceremony, or a page that it
  loads, replaces or deletes the challenge of the first; a passkey removed after it was loaded is still
  accepted.
* The password of a response, once known, is forgotten by a later attempt that
  fails (`J/share-client-encryption.js:634`); `DESIGN.md:157` says it is held.
  The update is then refused until it is typed again.
* The create form reads text and password again after a frame
  (`J/share-client-encryption.js:317`): a user who goes on typing posts what was
  typed last (`SealedAsEntered` is for one who waits).
* A save that fails redisplays the response as an update of one the server does
  not have, with its protection locked on.
* After a second decryption the button still says "Hide" over masked text; an
  attempt that fails leaves revealed plaintext on screen with the button
  disabled; outside a secure context "Copied" is said without looking.
* A passkey's counter is saved without comparing: of two sign-ins the older
  count may be saved last, which refuses nobody (`CounterBehind`).
* The page's password policy counts ASCII letters, the server's any letter; a
  password of other letters is refused by the page alone.

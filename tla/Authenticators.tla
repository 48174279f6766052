--------------------------- MODULE Authenticators ---------------------------
(***************************************************************************)
(* The second factors of one local account: the setup of its authenticator *)
(* app, the change of the app and the reset by an administrator, and the   *)
(* sign-ins that a code, a passkey or neither completes (AccountController,*)
(* UsersController, DbLocalUserService, TotpService).                      *)
(*                                                                         *)
(* A request works with the session its cookie had when it was sent.  Each *)
(* operation of DbLocalUserService selects the row and saves the columns   *)
(* it changed, without a transaction, and is run again by                  *)
(* DatabaseOperationRunner when a statement fails transiently.  Of the     *)
(* passkeys it matters here whether there are any (Passkeys has their      *)
(* ceremonies).                                                            *)
(***************************************************************************)
EXTENDS RowStore

CONSTANTS
    Browsers,       \* browsers the account's owner signs in with
    Handlers,       \* web requests in flight at one time
    NoBrowser,      \* the browser of an administrator, who is signed in
    MaxSetups,      \* bound: secrets generated
    MaxTime,        \* bound: the time, in steps of 30 seconds
    MaxAttempts,    \* DatabaseResilienceOptions.MaxAttempts
    Overlap         \* FALSE: requests of the account never overlap

ASSUME BrowsersAssumption == NoBrowser \notin Browsers
ASSUME BoundsAssumption == MaxSetups \in Nat /\ MaxTime \in Nat \ {0}
ASSUME AttemptsAssumption == MaxAttempts \in Nat \ {0}
ASSUME OverlapAssumption == Overlap \in BOOLEAN

VARIABLES
    row,        \* the TOTP columns of the account
    passkey,    \* it has a passkey
    session,    \* session[b]: what the cookie of b says
    request,    \* request[h]: the locals of the request h handles
    generated,  \* how many secrets were generated
    seen,       \* secrets that were on a page: an app may have scanned them
    now,        \* the time step of the server
    spent,      \* history: the codes a save accepted
    admitted,   \* history: the codes that completed a sign-in
    overtaken   \* history: requests in flight when another changed the account

vars == <<row, passkey, session, request, generated, seen, now, spent, admitted,
          overtaken>>

-----------------------------------------------------------------------------
(* Secrets are numbered in the order they are generated; no two are equal. *)
NoSecret == 0

Secrets == 1..MaxSetups

(* A phone may be a step ahead.                                            *)
TimeSteps == 1..(MaxTime + 1)

Codes == [secret: Secrets, step: TimeSteps]

(* Six digits no app shows, or no six digits.                              *)
WrongCode == [secret |-> NoSecret, step |-> 0]

Row == [secret: {NoSecret} \cup Secrets, confirmed: BOOLEAN,
        last: {0} \cup TimeSteps, pending: {NoSecret} \cup Secrets,
        required: BOOLEAN]

NoSetup == [secret |-> NoSecret, confirmed |-> FALSE, last |-> 0,
            pending |-> NoSecret, required |-> FALSE]

HasConfirmedTotp(r) == r.secret # NoSecret /\ r.confirmed

(* Mutant: only accounts that are required to are asked for a code.        *)
RequiresTotpByRuleOnly(r) == r.required

RequiresTotp(r) == r.required \/ HasConfirmedTotp(r)

(* VerificationWindow.RfcSpecifiedNetworkDelay and the last step matched.  *)
VerifyCode(secret, code, last) ==
    /\ code.secret = secret
    /\ code.step \in (now - 1)..(now + 1)
    /\ code.step > last

-----------------------------------------------------------------------------
(* Requests.                                                               *)

Ops == {"none", "login", "verify", "open", "confirm", "remove", "assert", "register"}

(* The statements on the row, and those that ask for passkeys.             *)
ReadSteps == {"authenticating", "asking", "checking", "ensuring", "verifying",
              "removing"}
SaveSteps == {"offering", "accepting", "erasing"}
PasskeySteps == {"asserting", "registering"}
StepNames == {"idle", "completing"} \cup ReadSteps \cup SaveSteps \cup PasskeySteps

Request == [op: Ops, step: StepNames, browser: Browsers \cup {NoBrowser},
            cookie: {"none", "pending", "full"}, code: Codes \cup {WrongCode},
            selected: Row, setup: {NoSecret} \cup Secrets, tries: Nat]

Idle == [op |-> "none", step |-> "idle", browser |-> NoBrowser,
         cookie |-> "none", code |-> WrongCode, selected |-> NoSetup,
         setup |-> NoSecret, tries |-> 0]

At(h, step) == request[h].step = step

Set(h, r) == request' = [request EXCEPT ![h] = r]

(* The account changes; what other requests in flight have read is old.    *)
Overtakes(own) ==
    overtaken' = overtaken \cup {g \in Handlers \ own : ~At(g, "idle")}

(* An operation of the service begins.                                     *)
GoTo(h, step) == Set(h, [request[h] EXCEPT !.step = step, !.tries = 1])

Begin(h, op, step, b, code) ==
    /\ At(h, "idle")
    /\ Overlap \/ \A g \in Handlers : At(g, "idle")
    /\ Set(h, [Idle EXCEPT !.op = op, !.step = step, !.browser = b,
                           !.cookie = IF b = NoBrowser THEN "full" ELSE session[b],
                           !.code = code, !.tries = 1])
    /\ overtaken' = overtaken \ {h}
    /\ UNCHANGED <<row, passkey, session, generated, seen, now, spent, admitted>>

(* What the owner may type: a code of an app that scanned a secret, of any *)
(* time up to that of a phone which is ahead, or a wrong one.              *)
Typed == {c \in Codes : c.secret \in seen /\ c.step <= now + 1} \cup {WrongCode}

(* The password is right (LoginThrottle has the other case).               *)
Login(h) == \E b \in Browsers : Begin(h, "login", "authenticating", b, WrongCode)

Totp(h) ==
    \E b \in Browsers, c \in Typed :
        session[b] = "pending" /\ Begin(h, "verify", "verifying", b, c)

(* A sign-in that waits for its second factor is looked at first; a page   *)
(* of the profile is not.                                                  *)
FirstStep(b) == IF session[b] = "pending" THEN "checking" ELSE "ensuring"

OpenTotpSetup(h) ==
    \E b \in Browsers :
        session[b] # "none" /\ Begin(h, "open", FirstStep(b), b, WrongCode)

PostTotpSetup(h) ==
    \E b \in Browsers, c \in Typed :
        session[b] # "none" /\ Begin(h, "confirm", FirstStep(b), b, c)

\* A passkey is used by a sign-in that waits, and added by any.
PasskeyAssertionVerify(h) ==
    \E b \in Browsers :
        session[b] = "pending" /\ Begin(h, "assert", "asserting", b, WrongCode)

PasskeyRegister(h) ==
    \E b \in Browsers :
        session[b] # "none" /\ Begin(h, "register", "registering", b, WrongCode)

RemoveTotp(h) == Begin(h, "remove", "removing", NoBrowser, WrongCode)

-----------------------------------------------------------------------------
(* The statements of a request.                                            *)

SignInPending(h) ==
    /\ session' = [session EXCEPT ![request[h].browser] = "pending"]
    /\ Set(h, Idle)

(* HasPasskeysAsync runs in either case, but matters in the second.        *)
Authenticate(h) ==
    /\ At(h, "authenticating")
    /\ IF RequiresTotp(row) THEN SignInPending(h)
                           ELSE GoTo(h, "asking") /\ UNCHANGED session
    /\ UNCHANGED <<row, generated, seen, now, spent, admitted, passkey, overtaken>>

HasPasskeys(h) ==
    /\ At(h, "asking")
    /\ IF passkey THEN SignInPending(h)
                  ELSE GoTo(h, "completing") /\ UNCHANGED session
    /\ UNCHANGED <<row, generated, seen, now, spent, admitted, passkey, overtaken>>

(* The signature is genuine, or not.                                       *)
CompleteAssertion(h) ==
    /\ At(h, "asserting")
    /\ (passkey /\ GoTo(h, "completing")) \/ Set(h, Idle)
    /\ UNCHANGED <<row, session, generated, seen, now, spent, admitted, passkey, overtaken>>

(* The passkey is added, which completes a sign-in that waits; or it is    *)
(* refused.  When the answer to its insertion is lost, the repetition      *)
(* meets the unique index, and the request ends.                           *)
CompleteRegistration(h) ==
    /\ At(h, "registering")
    /\ \/ /\ passkey' = TRUE /\ Overtakes({h})
          /\ \/ request[h].cookie = "pending" /\ GoTo(h, "completing")
             \/ Set(h, Idle)
       \/ Set(h, Idle) /\ UNCHANGED <<passkey, overtaken>>
    /\ UNCHANGED <<row, session, generated, seen, now, spent, admitted>>

(* Mutant: a sign-in that waits may set up an app in any case.             *)
AnySignIn(h) ==
    /\ At(h, "checking")
    /\ GoTo(h, "ensuring")
    /\ UNCHANGED <<row, session, generated, seen, now, spent, admitted, passkey, overtaken>>

(* A sign-in of an account with an app is sent to the page for its codes.  *)
CheckSignIn(h) ==
    /\ At(h, "checking")
    /\ IF HasConfirmedTotp(row) THEN Set(h, Idle) ELSE GoTo(h, "ensuring")
    /\ UNCHANGED <<row, session, generated, seen, now, spent, admitted, passkey, overtaken>>

(* The setup is known: the page is shown, or the code is judged first.     *)
Ensured(h, s) ==
    IF request[h].op = "open"
    THEN /\ Set(h, Idle) /\ seen' = seen \cup {s}
    ELSE /\ Set(h, [request[h] EXCEPT !.step = "verifying", !.setup = s, !.tries = 1])
         /\ UNCHANGED seen

EnsureTotpSetup(h) ==
    /\ At(h, "ensuring")
    /\ \/ /\ row.pending # NoSecret
          /\ Ensured(h, row.pending) /\ UNCHANGED generated
       \/ /\ row.pending = NoSecret /\ generated < MaxSetups
          /\ generated' = generated + 1
          /\ Set(h, [request[h] EXCEPT !.step = "offering", !.selected = row,
                                       !.setup = generated'])
          /\ UNCHANGED seen
    /\ UNCHANGED <<row, session, now, spent, admitted, passkey, overtaken>>

Offered(h) == row' = [row EXCEPT !.pending = request[h].setup]

SaveOffer(h) ==
    /\ At(h, "offering")
    /\ Offered(h) /\ Ensured(h, request[h].setup) /\ Overtakes({h})
    /\ UNCHANGED <<session, generated, now, spent, admitted, passkey>>

(* The code is judged by the pending setup, whatever its step, or by the   *)
(* confirmed one.  A code refused brings its page back, with the setup.    *)
Genuine(r, columns) ==
    IF r.op = "confirm"
    THEN columns.pending # NoSecret /\ VerifyCode(columns.pending, r.code, 0)
    ELSE HasConfirmedTotp(columns) /\ VerifyCode(columns.secret, r.code, columns.last)

Refuse(h) ==
    /\ Set(h, Idle)
    /\ seen' = IF request[h].op = "confirm" THEN seen \cup {request[h].setup} ELSE seen

VerifyTotp(h) ==
    /\ At(h, "verifying")
    /\ IF Genuine(request[h], row)
       THEN /\ Set(h, [request[h] EXCEPT !.step = "accepting", !.selected = row])
            /\ UNCHANGED seen
       ELSE Refuse(h)
    /\ UNCHANGED <<row, session, generated, now, spent, admitted, passkey, overtaken>>

(* Mutant: the step of the code that confirms a setup is not kept.         *)
AcceptedUncounted(r) ==
    IF r.op = "confirm"
    THEN [row EXCEPT !.secret = r.selected.pending, !.confirmed = TRUE,
                     !.pending = NoSecret, !.last = 0]
    ELSE [row EXCEPT !.last = r.code.step]

(* Mutant: the step accepted with the setup before is kept.                *)
AcceptedKeepingLast(r) ==
    IF r.op = "confirm"
    THEN [row EXCEPT !.secret = r.selected.pending, !.confirmed = TRUE,
                     !.pending = NoSecret, !.last = IF @ = 0 THEN r.code.step ELSE @]
    ELSE [row EXCEPT !.last = r.code.step]

(* The columns VerifyTotpCoreAsync changes; the time of the confirmation   *)
(* is always another, so a confirmation writes it.                         *)
Accepted(r) ==
    LET columns == [row EXCEPT !.last = Column(@, r.selected.last, r.code.step)]
    IN  IF r.op = "confirm"
        THEN [columns EXCEPT !.secret = r.selected.pending, !.confirmed = TRUE,
                             !.pending = NoSecret]
        ELSE columns

Accept(h) ==
    /\ row' = Accepted(request[h])
    /\ spent' = spent \cup {request[h].code}

SaveAccepted(h) ==
    /\ At(h, "accepting")
    /\ Accept(h) /\ Overtakes({h})
    /\ IF request[h].cookie = "pending" THEN GoTo(h, "completing") ELSE Set(h, Idle)
    /\ UNCHANGED <<session, generated, seen, now, admitted, passkey>>

SelectForRemoval(h) ==
    /\ At(h, "removing")
    /\ Set(h, [request[h] EXCEPT !.step = "erasing", !.selected = row])
    /\ UNCHANGED <<row, session, generated, seen, now, spent, admitted, passkey, overtaken>>

(* Mutant: the time of the confirmation stays.                             *)
ErasedSecretOnly(h) ==
    row' = [row EXCEPT !.secret = NoSecret, !.last = 0, !.pending = NoSecret]

Erased(h) ==
    LET selected == request[h].selected
    IN  row' = [row EXCEPT !.secret = Column(@, selected.secret, NoSecret),
                           !.confirmed = Column(@, selected.confirmed, FALSE),
                           !.last = Column(@, selected.last, 0),
                           !.pending = Column(@, selected.pending, NoSecret)]

SaveErased(h) ==
    /\ At(h, "erasing")
    /\ Erased(h) /\ Set(h, Idle) /\ Overtakes({h})
    /\ UNCHANGED <<session, generated, seen, now, spent, admitted, passkey>>

(* CompleteLocalSignInAsync: the cookie goes out with the answer, which    *)
(* may be lost.                                                            *)
CompleteLocalSignIn(h) ==
    /\ At(h, "completing")
    /\ LET r == request[h]
       IN  \/ /\ session' = [session EXCEPT ![r.browser] = "full"]
              /\ admitted' = admitted \cup ({r.code} \ {WrongCode})
           \/ UNCHANGED <<session, admitted>>
    /\ Set(h, Idle)
    /\ UNCHANGED <<row, generated, seen, now, spent, passkey, overtaken>>

-----------------------------------------------------------------------------
(* A statement fails, before or after it took effect: the operation starts *)
(* over, or the request ends with a message.                               *)

StartsOver(step) ==
    CASE step = "offering"  -> "ensuring"
      [] step = "accepting" -> "verifying"
      [] step = "erasing"   -> "removing"
      [] OTHER              -> step

TakesEffect(h) ==
    \/ At(h, "offering") /\ Offered(h) /\ UNCHANGED spent
    \/ At(h, "accepting") /\ Accept(h)
    \/ At(h, "erasing") /\ Erased(h) /\ UNCHANGED spent

(* A confirmation that fails brings its page back, too.                    *)
GiveUp(h) ==
    IF At(h, "verifying") \/ At(h, "accepting")
    THEN Refuse(h)
    ELSE Set(h, Idle) /\ UNCHANGED seen

Break(h) ==
    /\ request[h].step \in ReadSteps \cup SaveSteps
    /\ \/ TakesEffect(h) /\ Overtakes({h})
       \/ UNCHANGED <<row, spent, overtaken>>
    /\ \/ /\ request[h].tries < MaxAttempts
          /\ Set(h, [request[h] EXCEPT !.step = StartsOver(@), !.selected = NoSetup,
                                       !.tries = @ + 1])
          /\ UNCHANGED seen
       \/ GiveUp(h)
    /\ UNCHANGED <<session, generated, now, admitted, passkey>>

-----------------------------------------------------------------------------
(* An administrator changes whether the account needs a second factor;     *)
(* this is the last statement of an edit, which writes the one column.     *)
Require ==
    /\ Overlap \/ \A h \in Handlers : At(h, "idle")
    /\ row' = [row EXCEPT !.required = ~@]
    /\ Overtakes({})
    /\ UNCHANGED <<session, request, generated, seen, now, spent, admitted, passkey>>

(* The owner removes the last passkey, or an administrator all.            *)
RemovePasskeys ==
    /\ Overlap \/ \A h \in Handlers : At(h, "idle")
    /\ passkey /\ passkey' = FALSE
    /\ Overtakes({})
    /\ UNCHANGED <<row, session, request, generated, seen, now, spent, admitted>>

(* The owner signs out, or the cookie expires.                             *)
Logout(b) ==
    /\ session[b] # "none"
    /\ session' = [session EXCEPT ![b] = "none"]
    /\ UNCHANGED <<row, request, generated, seen, now, spent, admitted, passkey, overtaken>>

Tick ==
    /\ now < MaxTime
    /\ now' = now + 1
    /\ UNCHANGED <<row, session, request, generated, seen, spent, admitted, passkey, overtaken>>

(* The process ends; cookies stay valid.                                   *)
Restart ==
    /\ request' = [h \in Handlers |-> Idle]
    /\ UNCHANGED <<row, session, generated, seen, now, spent, admitted, passkey, overtaken>>

Init ==
    /\ row = NoSetup /\ passkey = FALSE
    /\ session = [b \in Browsers |-> "none"]
    /\ request = [h \in Handlers |-> Idle]
    /\ generated = 0 /\ seen = {} /\ now = 1
    /\ spent = {} /\ admitted = {} /\ overtaken = {}

Start(h) ==
    \/ Login(h) \/ Totp(h) \/ OpenTotpSetup(h) \/ PostTotpSetup(h)
    \/ RemoveTotp(h) \/ PasskeyAssertionVerify(h) \/ PasskeyRegister(h)

Run(h) ==
    \/ Authenticate(h) \/ HasPasskeys(h) \/ CompleteAssertion(h)
    \/ CompleteRegistration(h) \/ CheckSignIn(h) \/ EnsureTotpSetup(h) \/ SaveOffer(h)
    \/ VerifyTotp(h) \/ SaveAccepted(h) \/ SelectForRemoval(h) \/ SaveErased(h)
    \/ CompleteLocalSignIn(h) \/ Break(h)

Next ==
    \/ \E h \in Handlers : Start(h) \/ Run(h)
    \/ \E b \in Browsers : Logout(b)
    \/ Require \/ RemovePasskeys \/ Tick \/ Restart

Spec == Init /\ [][Next]_vars

-----------------------------------------------------------------------------
(* Properties.                                                             *)

(* Type invariant of the columns and the requests' locals.  A secret is    *)
(* stored exactly when it is confirmed, and it has been on a page.         *)
TypeOK ==
    /\ row \in Row /\ passkey \in BOOLEAN
    /\ session \in [Browsers -> {"none", "pending", "full"}]
    /\ request \in [Handlers -> Request]
    /\ generated \in 0..MaxSetups /\ seen \subseteq 1..generated
    /\ now \in 1..MaxTime
    /\ spent \subseteq Codes /\ admitted \subseteq spent
    /\ overtaken \subseteq Handlers
    /\ row.confirmed <=> row.secret # NoSecret
    /\ row.confirmed => row.secret \in seen
    /\ row.pending <= generated

(* What LastTotpTimeStepMatched is for: it is the newest step accepted     *)
(* with the setup in force.  Were it older, a code would be accepted       *)
(* again; were it newer (that of an earlier setup, or of a code that was   *)
(* not accepted), the owner would be locked out.  It holds through changes *)
(* of the app, resets, and saves repeated after their answer was lost.     *)
LastIsNewest ==
    LET steps == {c.step : c \in {d \in spent : d.secret = row.secret}}
    IN  row.confirmed => row.last \in steps /\ \A n \in steps : n <= row.last

(* The sign-in of b that h completes has passed the second factor, as the  *)
(* account stands now.                                                     *)
Passed(r) ==
    \/ r.op = "login" /\ ~row.required /\ ~row.confirmed /\ ~passkey
    \/ /\ r.op \in {"verify", "confirm"}
       /\ row.confirmed /\ r.code \in spent /\ r.code.secret = row.secret
    \/ r.op \in {"assert", "register"} /\ passkey

Completes(h, b) ==
    At(h, "completing") /\ request[h].browser = b /\ request'[h].step = "idle"

(* A browser is signed in only by a password where the account needs no    *)
(* second factor and has none, by a code that was accepted and is of the   *)
(* setup in force, or with a passkey of the account, be it the one that    *)
(* the sign-in has just registered.  This is so at the moment the cookie   *)
(* is set, several statements after the factor was judged; only a request  *)
(* that another one overtook may rely on what has changed meanwhile        *)
(* (AccountController.cs:106-148, 405-465, 588-609).                       *)
SecondFactorPassed ==
    [][\A b \in Browsers :
          session[b] # "full" /\ session'[b] = "full" =>
             \E h \in Handlers :
                 Completes(h, b) /\ (h \in overtaken \/ Passed(request[h]))]_vars

(* "any registered passkey or confirmed TOTP always enforces the           *)
(* second-factor prompt" (docs/FEATURES.md:66): while an app is confirmed, *)
(* a sign-in is completed by an answer to a prompt of an existing factor.  *)
(* The code does otherwise: a sign-in that waits may register a passkey,   *)
(* which completes it, also when the account has an app already            *)
(* (AccountController.cs:298-318, 436-465).                                *)
FactorPrompted ==
    [][\A b \in Browsers :
          session[b] # "full" /\ session'[b] = "full" /\ row.confirmed =>
             \E h \in Handlers :
                 Completes(h, b) /\ request[h].op \in {"verify", "confirm", "assert"}]_vars

(* An app is replaced only by a sign-in that was completed, by whatever    *)
(* SecondFactorPassed admits: one that still waits for its second factor   *)
(* sets up the first app and no other, also when its page was opened       *)
(* before the account had one and its save is repeated                     *)
(* (AccountController.cs:562).  Its check and its save are statements of   *)
(* their own, and a request that another one overtook may replace the app  *)
(* which that one confirmed between them.                                  *)
OwnerReplaces ==
    [][row.confirmed /\ row'.confirmed /\ row'.secret # row.secret =>
          \E h \in Handlers :
              At(h, "accepting") /\ (request[h].cookie = "full" \/ h \in overtaken)]_vars

(* Each operation, with its repetitions, has the effect of one step of     *)
(* AuthenticatorLifecycle, once or not at all: the old setup stays active  *)
(* until a code of the new one is verified, and a code counts once.        *)
Promise ==
    INSTANCE AuthenticatorLifecycle WITH
        Steps <- TimeSteps, active <- row.secret, offered <- row.pending

Lifecycle == Promise!Spec
=============================================================================

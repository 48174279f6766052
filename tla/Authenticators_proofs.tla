----------------------- MODULE Authenticators_proofs -----------------------
(***************************************************************************)
(* Proofs about Authenticators, for every set of browsers and of requests  *)
(* in flight and every number of setups, of time steps and of attempts.    *)
(***************************************************************************)
EXTENDS Authenticators, TLAPS

-----------------------------------------------------------------------------
(* Types.                                                                  *)

(* What the locals of a request look like when n secrets were generated,   *)
(* those in shown were on a page and the codes in used were accepted.      *)
Fits(r, n, shown, used) ==
  /\ r.setup <= n
  /\ r.code # WrongCode => r.code.secret \in shown
  /\ r.selected.confirmed <=> r.selected.secret # NoSecret
  /\ r.op \in {"login", "assert", "register"} => r.code = WrongCode
  /\ r.step \in {"authenticating", "asking"} => r.op = "login"
  /\ r.step = "asserting" => r.op = "assert"
  /\ r.step = "registering" => r.op = "register"
  /\ r.step \in {"checking", "ensuring", "offering"} => r.op \in {"open", "confirm"}
  /\ r.step \in {"verifying", "accepting"} =>
        \/ r.op = "verify"
        \/ r.op = "confirm" /\ r.setup # NoSecret
  /\ r.step = "offering" => r.setup # NoSecret
  /\ r.step = "accepting" => r.code # WrongCode
  /\ r.step = "accepting" /\ r.op = "confirm" => r.code.secret = r.selected.pending
  /\ r.step = "completing" =>
        \/ r.op \in {"login", "assert", "register"}
        \/ r.op \in {"verify", "confirm"} /\ r.code \in used

RowInv ==
  /\ row \in Row
  /\ row.confirmed <=> row.secret # NoSecret
  /\ row.confirmed => row.secret \in seen
  /\ row.pending <= generated

TablesInv ==
  /\ session \in [Browsers -> {"none", "pending", "full"}]
  /\ generated \in 0..MaxSetups /\ seen \subseteq 1..generated
  /\ now \in 1..MaxTime
  /\ spent \subseteq Codes /\ admitted \subseteq spent

RequestsInv ==
  /\ request \in [Handlers -> Request]
  /\ \A h \in Handlers : Fits(request[h], generated, seen, spent)

TypeInv == RowInv /\ TablesInv /\ RequestsInv

ContextInv == passkey \in BOOLEAN /\ overtaken \subseteq Handlers

LEMMA TypeInvTypeOK == TypeInv /\ ContextInv => TypeOK
BY DEF TypeInv, RowInv, TablesInv, RequestsInv, ContextInv, TypeOK

LEMMA ConstantTypes ==
  /\ NoSetup \in Row /\ Idle \in Request
  /\ WrongCode \notin Codes
  /\ \A n \in Nat : \A shown, used : Fits(Idle, n, shown, used)
<1>1. NoSetup \in Row
  BY DEF NoSetup, Row
<1>2. Idle \in Request
  BY <1>1 DEF Idle, Request, Ops, StepNames
<1>3. WrongCode \notin Codes
  BY BoundsAssumption DEF WrongCode, Codes, Secrets, NoSecret
<1>4. ASSUME NEW n \in Nat, NEW shown, NEW used
      PROVE  Fits(Idle, n, shown, used)
  <2>1. /\ Idle.step = "idle" /\ Idle.code = WrongCode /\ Idle.setup = 0
        /\ Idle.selected.confirmed = FALSE /\ Idle.selected.secret = NoSecret
    BY DEF Idle, NoSetup, NoSecret
  <2>2. QED  BY <1>4, <2>1 DEF Fits
<1>5. QED  BY <1>1, <1>2, <1>3, <1>4

LEMMA TypeInvInit == Init => TypeInv
<1> SUFFICES ASSUME Init PROVE TypeInv
  OBVIOUS
<1>1. RowInv
  <2>1. /\ row \in Row /\ row.confirmed = FALSE /\ row.secret = NoSecret
        /\ row.pending = 0 /\ generated = 0
    BY ConstantTypes DEF Init, NoSetup, NoSecret
  <2>2. QED  BY <2>1 DEF RowInv
<1>2. TablesInv
  BY BoundsAssumption DEF Init, TablesInv
<1>3. RequestsInv
  BY ConstantTypes DEF Init, RequestsInv
<1>4. QED  BY <1>1, <1>2, <1>3 DEF TypeInv

(* What fits goes on fitting as secrets and codes are added.               *)
LEMMA FitsOn ==
  ASSUME NEW r \in Request, NEW n \in Nat, NEW m \in Nat, n <= m,
         NEW shown, NEW more, shown \subseteq more,
         NEW used, NEW later, used \subseteq later, Fits(r, n, shown, used)
  PROVE  Fits(r, m, more, later)
<1>1. r.setup \in Int
  BY BoundsAssumption DEF Request, Secrets, NoSecret
<1>2. QED  BY <1>1 DEF Fits

(* What a request leaves behind: locals that fit, and tables that grew.    *)
Grown ==
  /\ generated' \in Nat /\ generated <= generated'
  /\ seen \subseteq seen' /\ spent \subseteq spent'

LEMMA RequestsOn ==
  ASSUME TypeInv, Grown, NEW h \in Handlers,
         \E r \in Request : Set(h, r) /\ Fits(r, generated', seen', spent')
  PROVE  RequestsInv'
<1>1. PICK r \in Request : Set(h, r) /\ Fits(r, generated', seen', spent')
  OBVIOUS
<1>2. request' \in [Handlers -> Request]
  BY <1>1 DEF TypeInv, RequestsInv, Set
<1>3. ASSUME NEW g \in Handlers
      PROVE  Fits(request'[g], generated', seen', spent')
  <2>1. CASE g = h
    BY <1>1, <2>1 DEF TypeInv, RequestsInv, Set
  <2>2. CASE g # h
    <3>1. request'[g] = request[g] /\ request[g] \in Request
      BY <1>1, <2>2 DEF TypeInv, RequestsInv, Set
    <3>2. Fits(request[g], generated, seen, spent) /\ generated \in Nat
      BY DEF TypeInv, RequestsInv, TablesInv
    <3>3. QED  BY <3>1, <3>2, FitsOn DEF Grown
  <2>3. QED  BY <2>1, <2>2
<1>4. QED  BY <1>2, <1>3 DEF RequestsInv

LEMMA RowOn ==
  ASSUME TypeInv, Grown, row' = row
  PROVE  RowInv'
<1>1. row.pending \in Int /\ generated \in Int
  BY BoundsAssumption DEF TypeInv, RowInv, TablesInv, Row, Secrets, NoSecret
<1>2. QED  BY <1>1 DEF TypeInv, RowInv, Grown

-----------------------------------------------------------------------------
(* Every step keeps the types.                                             *)

LEMMA RequestFacts ==
  ASSUME TypeInv, NEW h \in Handlers
  PROVE  /\ request[h] \in Request /\ Fits(request[h], generated, seen, spent)
         /\ generated \in Nat /\ row \in Row
         /\ \A r : Set(h, r) => request' = [request EXCEPT ![h] = r]
BY DEF TypeInv, RowInv, TablesInv, RequestsInv, Set

(* A request that only moves changes neither columns nor tables.           *)
LEMMA Quiet ==
  ASSUME TypeInv, NEW h \in Handlers,
         \E r \in Request : Set(h, r) /\ Fits(r, generated, seen, spent),
         UNCHANGED <<row, generated, seen, now, spent>>,
         session' \in [Browsers -> {"none", "pending", "full"}],
         admitted' \subseteq spent
  PROVE  TypeInv'
<1>1. generated \in Nat
  BY DEF TypeInv, TablesInv
<1>2. Grown
  BY <1>1 DEF Grown
<1>3. RowInv' /\ TablesInv'
  BY <1>2, RowOn DEF TypeInv, TablesInv
<1>4. \E r \in Request : Set(h, r) /\ Fits(r, generated', seen', spent')
  OBVIOUS
<1>5. RequestsInv'
  BY <1>2, <1>4, RequestsOn
<1>6. QED  BY <1>3, <1>5 DEF TypeInv

LEMMA StartType ==
  ASSUME TypeInv, NEW h \in Handlers, Start(h)
  PROVE  TypeInv'
<1> DEFINE new(op, step, b, code) ==
             [Idle EXCEPT !.op = op, !.step = step, !.browser = b,
                          !.cookie = IF b = NoBrowser THEN "full" ELSE session[b],
                          !.code = code, !.tries = 1]
<1>1. ASSUME NEW op \in Ops, NEW step \in StepNames, NEW b \in Browsers \cup {NoBrowser},
             NEW code \in Codes \cup {WrongCode}, Begin(h, op, step, b, code),
             code # WrongCode => code.secret \in seen,
             step \in {"authenticating", "checking", "ensuring", "verifying", "removing",
                       "asserting", "registering"},
             op \in {"login", "assert", "register"} => code = WrongCode,
             step = "authenticating" => op = "login",
             step \in {"checking", "ensuring"} => op \in {"open", "confirm"},
             step = "verifying" => op = "verify",
             step = "asserting" => op = "assert",
             step = "registering" => op = "register"
      PROVE  TypeInv'
  <2>1. new(op, step, b, code) \in Request
    <3>1. (IF b = NoBrowser THEN "full" ELSE session[b]) \in {"none", "pending", "full"}
      BY DEF TypeInv, TablesInv
    <3> DEFINE cookie == IF b = NoBrowser THEN "full" ELSE session[b]
    <3>2. Idle \in Request /\ 1 \in Nat
      BY ConstantTypes
    <3>3. new(op, step, b, code) =
            [Idle EXCEPT !.op = op, !.step = step, !.browser = b,
                         !.cookie = cookie, !.code = code, !.tries = 1]
      OBVIOUS
    <3> HIDE DEF new, cookie
    <3>4. cookie \in {"none", "pending", "full"}
      BY <3>1 DEF cookie
    <3>5. QED  BY <1>1, <3>2, <3>3, <3>4 DEF Request
  <2>2. Fits(new(op, step, b, code), generated, seen, spent)
    <3> DEFINE r == new(op, step, b, code)
    <3>1. /\ r.op = op /\ r.step = step /\ r.code = code /\ r.setup = 0
          /\ r.selected.confirmed = FALSE /\ r.selected.secret = NoSecret
      BY DEF Idle, NoSetup, NoSecret
    <3>2. generated \in Nat
      BY DEF TypeInv, TablesInv
    <3> HIDE DEF new
    <3>3. QED  BY <1>1, <3>1, <3>2 DEF Fits
  <2>3. /\ Set(h, new(op, step, b, code))
        /\ UNCHANGED <<row, session, generated, seen, now, spent, admitted>>
    BY <1>1 DEF Begin
  <2> HIDE DEF new
  <2>4. QED  BY <2>1, <2>2, <2>3, Quiet DEF TypeInv, TablesInv
<1> HIDE DEF new
<1>2. \A c \in Typed : c \in Codes \cup {WrongCode} /\ (c # WrongCode => c.secret \in seen)
  BY DEF Typed
<1> USE DEF Ops, StepNames, ReadSteps, SaveSteps, PasskeySteps
<1>3. CASE Login(h)
  <2>1. PICK b \in Browsers : Begin(h, "login", "authenticating", b, WrongCode)
    BY <1>3 DEF Login
  <2>2. QED  BY <1>1, <2>1
<1>4. CASE Totp(h)
  <2>1. PICK b \in Browsers, c \in Typed : Begin(h, "verify", "verifying", b, c)
    BY <1>4 DEF Totp
  <2>2. QED  BY <1>1, <1>2, <2>1
<1>5. CASE OpenTotpSetup(h)
  <2>1. PICK b \in Browsers : Begin(h, "open", FirstStep(b), b, WrongCode)
    BY <1>5 DEF OpenTotpSetup
  <2>2. FirstStep(b) \in {"checking", "ensuring"}
    BY DEF FirstStep
  <2>3. QED  BY <1>1, <2>1, <2>2
<1>6. CASE PostTotpSetup(h)
  <2>1. PICK b \in Browsers, c \in Typed : Begin(h, "confirm", FirstStep(b), b, c)
    BY <1>6 DEF PostTotpSetup
  <2>2. FirstStep(b) \in {"checking", "ensuring"}
    BY DEF FirstStep
  <2>3. QED  BY <1>1, <1>2, <2>1, <2>2
<1>7. CASE RemoveTotp(h)
  <2>1. Begin(h, "remove", "removing", NoBrowser, WrongCode)
    BY <1>7 DEF RemoveTotp
  <2>2. QED  BY <1>1, <2>1
<1>8. CASE PasskeyAssertionVerify(h)
  <2>1. PICK b \in Browsers : Begin(h, "assert", "asserting", b, WrongCode)
    BY <1>8 DEF PasskeyAssertionVerify
  <2>2. QED  BY <1>1, <2>1
<1>9. CASE PasskeyRegister(h)
  <2>1. PICK b \in Browsers : Begin(h, "register", "registering", b, WrongCode)
    BY <1>9 DEF PasskeyRegister
  <2>2. QED  BY <1>1, <2>1
<1>10. QED  BY <1>3, <1>4, <1>5, <1>6, <1>7, <1>8, <1>9 DEF Start

(* What the three statements that save leave in the row.                   *)
LEMMA OfferedRow ==
  ASSUME TypeInv, NEW h \in Handlers, At(h, "offering"), Offered(h), Grown
  PROVE  RowInv'
<1> DEFINE r == request[h]
<1>1. /\ r \in Request /\ r.setup <= generated /\ row \in Row /\ generated \in Nat
      /\ r.setup \in {NoSecret} \cup Secrets
  BY RequestFacts DEF Fits, Request
<1>2. row' = [row EXCEPT !.pending = r.setup]
  BY DEF Offered
<1> HIDE DEF r
<1>3. row' \in Row /\ row'.confirmed = row.confirmed /\ row'.secret = row.secret
  BY <1>1, <1>2 DEF Row
<1>4. row'.pending <= generated'
  <2>1. row'.pending = r.setup /\ r.setup \in Int
    BY <1>1, <1>2, BoundsAssumption DEF Row, Secrets, NoSecret
  <2>2. QED  BY <1>1, <2>1 DEF Grown
<1>5. QED  BY <1>3, <1>4 DEF TypeInv, RowInv, Grown

LEMMA AcceptedRow ==
  ASSUME TypeInv, NEW h \in Handlers, At(h, "accepting"), Accept(h), Grown
  PROVE  RowInv' /\ request[h].code \in spent' /\ spent' \subseteq Codes
<1> DEFINE r == request[h]
<1>1. /\ r \in Request /\ r.step = "accepting" /\ r.code \in Codes
      /\ r.code.secret \in seen /\ r.code.step \in TimeSteps
      /\ r.op \in {"verify", "confirm"}
      /\ r.op = "confirm" => r.code.secret = r.selected.pending
  BY RequestFacts DEF Fits, Request, At, Codes
<1>2. spent' = spent \cup {r.code} /\ spent \subseteq Codes /\ row' = Accepted(r)
  BY DEF Accept, TypeInv, TablesInv
<1>3. row \in Row /\ r.selected \in Row
  BY <1>1, RequestFacts DEF Request
<1> DEFINE last == Column(row.last, r.selected.last, r.code.step)
<1>4. last \in {0} \cup TimeSteps
  BY <1>1, <1>3 DEF Row, Column
<1> HIDE DEF r, last
<1>5. CASE r.op = "confirm"
  <2>1. row' = [row EXCEPT !.last = last, !.secret = r.selected.pending,
                           !.confirmed = TRUE, !.pending = NoSecret]
    BY <1>2, <1>3, <1>5 DEF Accepted, last, Row
  <2>2. /\ row'.confirmed = TRUE /\ row'.secret = r.code.secret /\ row'.pending = 0
    BY <1>1, <1>3, <1>5, <2>1 DEF Row, NoSecret
  <2>3. r.selected.pending \in {NoSecret} \cup Secrets
    BY <1>3 DEF Row
  <2>4. row' \in Row
    BY <1>3, <1>4, <2>1, <2>3 DEF Row
  <2>5. r.code.secret # NoSecret /\ r.code.secret \in seen'
    BY <1>1, BoundsAssumption DEF Grown, Codes, Secrets, NoSecret
  <2>6. QED  BY <1>1, <1>2, <2>2, <2>4, <2>5 DEF RowInv, r, Grown
<1>6. CASE r.op # "confirm"
  <2>1. row' = [row EXCEPT !.last = last]
    BY <1>2, <1>6 DEF Accepted, last
  <2>2. /\ row' \in Row /\ row'.confirmed = row.confirmed
        /\ row'.secret = row.secret /\ row'.pending = row.pending
    BY <1>3, <1>4, <2>1 DEF Row
  <2>3. row.pending \in Int /\ generated \in Int
    BY <1>3, RequestFacts, BoundsAssumption DEF Row, Secrets, NoSecret
  <2>4. QED  BY <1>1, <1>2, <2>2, <2>3 DEF RowInv, r, Grown, TypeInv
<1>7. QED  BY <1>5, <1>6

LEMMA ErasedRow ==
  ASSUME TypeInv, NEW h \in Handlers, At(h, "erasing"), Erased(h), Grown
  PROVE  RowInv'
<1> DEFINE r == request[h]
           secret == Column(row.secret, r.selected.secret, NoSecret)
           confirmed == Column(row.confirmed, r.selected.confirmed, FALSE)
           last == Column(row.last, r.selected.last, 0)
           pending == Column(row.pending, r.selected.pending, NoSecret)
<1>1. /\ row \in Row /\ r.selected \in Row
      /\ r.selected.confirmed <=> r.selected.secret # NoSecret
  BY RequestFacts DEF Fits, Request
<1>2. row' = [row EXCEPT !.secret = secret, !.confirmed = confirmed,
                         !.last = last, !.pending = pending]
  BY DEF Erased
<1>3. /\ secret \in {row.secret, NoSecret} /\ confirmed \in {row.confirmed, FALSE}
      /\ last \in {row.last, 0} /\ pending \in {row.pending, NoSecret}
  BY DEF Column
<1>4. \/ secret = row.secret /\ confirmed = row.confirmed
      \/ secret = NoSecret /\ confirmed = FALSE
  <2>1. CASE r.selected.confirmed
    BY <1>1, <2>1 DEF Column, Row
  <2>2. CASE ~r.selected.confirmed
    BY <1>1, <2>2 DEF Column, Row
  <2>3. QED  BY <2>1, <2>2
<1> HIDE DEF r, secret, confirmed, last, pending
<1>5. /\ row' \in Row /\ row'.secret = secret /\ row'.confirmed = confirmed
      /\ row'.pending = pending
  BY <1>1, <1>2, <1>3 DEF Row
<1>6. row'.pending <= generated'
  <2>1. row.pending \in Int /\ generated \in Int
    BY <1>1, RequestFacts, BoundsAssumption DEF Row, Secrets, NoSecret
  <2>2. QED  BY <1>3, <1>5, <2>1 DEF TypeInv, RowInv, Grown, NoSecret
<1>7. QED  BY <1>4, <1>5, <1>6 DEF TypeInv, RowInv, Grown

(* The locals a step changes.                                              *)
Altered(r, step, selected, setup, tries) ==
  [r EXCEPT !.step = step, !.selected = selected, !.setup = setup, !.tries = tries]

LEMMA AlteredFields ==
  ASSUME NEW r \in Request, NEW step \in StepNames, NEW selected \in Row,
         NEW setup \in {NoSecret} \cup Secrets, NEW tries \in Nat
  PROVE  LET q == Altered(r, step, selected, setup, tries)
         IN  /\ q \in Request
             /\ q.op = r.op /\ q.code = r.code /\ q.browser = r.browser
             /\ q.cookie = r.cookie
             /\ q.step = step /\ q.selected = selected /\ q.setup = setup
BY DEF Altered, Request

LEMMA NextForm ==
  ASSUME NEW r \in Request, NEW step, NEW tries
  PROVE  [r EXCEPT !.step = step, !.tries = tries]
            = Altered(r, step, r.selected, r.setup, tries)
BY DEF Altered, Request

LEMMA SaveForm ==
  ASSUME NEW r \in Request, NEW step, NEW selected
  PROVE  [r EXCEPT !.step = step, !.selected = selected]
            = Altered(r, step, selected, r.setup, r.tries)
BY DEF Altered, Request

LEMMA OfferForm ==
  ASSUME NEW r \in Request, NEW step, NEW selected, NEW setup
  PROVE  [r EXCEPT !.step = step, !.selected = selected, !.setup = setup]
            = Altered(r, step, selected, setup, r.tries)
BY DEF Altered, Request

(* The locals after a step fit, when what matters at the next step is so.  *)
LEMMA AlteredFits ==
  ASSUME NEW r \in Request, NEW step \in StepNames, NEW selected \in Row,
         NEW setup \in {NoSecret} \cup Secrets, NEW tries \in Nat,
         NEW n \in Nat, NEW shown, NEW used, Fits(r, n, shown, used),
         selected.confirmed <=> selected.secret # NoSecret,
         setup <= n,
         step \in {"authenticating", "asking"} => r.op = "login",
         step \notin PasskeySteps,
         step \in {"checking", "ensuring", "offering"} => r.op \in {"open", "confirm"},
         step \in {"verifying", "accepting"} =>
            r.op = "verify" \/ (r.op = "confirm" /\ setup # NoSecret),
         step = "offering" => setup # NoSecret,
         step = "accepting" => r.code # WrongCode,
         step = "accepting" /\ r.op = "confirm" => r.code.secret = selected.pending,
         step = "completing" =>
            \/ r.op \in {"login", "assert", "register"}
            \/ r.op \in {"verify", "confirm"} /\ r.code \in used
  PROVE  LET q == Altered(r, step, selected, setup, tries)
         IN  q \in Request /\ Fits(q, n, shown, used)
<1> DEFINE q == Altered(r, step, selected, setup, tries)
<1>1. /\ q \in Request
      /\ q.op = r.op /\ q.code = r.code
      /\ q.step = step /\ q.selected = selected /\ q.setup = setup
  BY AlteredFields
<1> HIDE DEF q
<1>2. Fits(q, n, shown, used)
  BY <1>1 DEF Fits, PasskeySteps
<1>3. QED  BY <1>1, <1>2 DEF q

(* A step that moves a request to its next step and adds to the tables.    *)
LEMMA Moved ==
  ASSUME TypeInv, Grown, RowInv', TablesInv', NEW h \in Handlers,
         NEW step \in StepNames, NEW selected \in Row,
         NEW setup \in {NoSecret} \cup Secrets, NEW tries \in Nat,
         Set(h, Altered(request[h], step, selected, setup, tries)),
         selected.confirmed <=> selected.secret # NoSecret,
         setup <= generated',
         step \in {"authenticating", "asking"} => request[h].op = "login",
         step \notin PasskeySteps,
         step \in {"checking", "ensuring", "offering"} =>
            request[h].op \in {"open", "confirm"},
         step \in {"verifying", "accepting"} =>
            \/ request[h].op = "verify"
            \/ request[h].op = "confirm" /\ setup # NoSecret,
         step = "offering" => setup # NoSecret,
         step = "accepting" => request[h].code # WrongCode,
         step = "accepting" /\ request[h].op = "confirm" =>
            request[h].code.secret = selected.pending,
         step = "completing" =>
            \/ request[h].op \in {"login", "assert", "register"}
            \/ request[h].op \in {"verify", "confirm"} /\ request[h].code \in spent'
  PROVE  TypeInv'
<1>1. request[h] \in Request /\ generated' \in Nat
  BY RequestFacts DEF Grown
<1>2. Fits(request[h], generated', seen', spent')
  BY <1>1, RequestFacts, FitsOn DEF Grown
<1> DEFINE q == Altered(request[h], step, selected, setup, tries)
<1>3. q \in Request /\ Fits(q, generated', seen', spent')
  BY <1>1, <1>2, AlteredFits
<1> HIDE DEF q
<1>4. Set(h, q)
  BY DEF q
<1>5. RequestsInv'
  BY <1>3, <1>4, RequestsOn
<1>6. QED  BY <1>5 DEF TypeInv

LEMMA Ended ==
  ASSUME TypeInv, Grown, RowInv', TablesInv', NEW h \in Handlers, Set(h, Idle)
  PROVE  TypeInv'
<1>1. Idle \in Request /\ Fits(Idle, generated', seen', spent')
  BY ConstantTypes DEF Grown
<1>2. RequestsInv'
  BY <1>1, RequestsOn
<1>3. QED  BY <1>2 DEF TypeInv

LEMMA SameTables ==
  ASSUME TypeInv, UNCHANGED <<generated, spent, now>>, seen' \subseteq 1..generated,
         seen \subseteq seen',
         session' \in [Browsers -> {"none", "pending", "full"}],
         admitted' \subseteq spent
  PROVE  Grown /\ TablesInv'
BY DEF TypeInv, TablesInv, Grown

LEMMA PendingType ==
  ASSUME TypeInv, NEW h \in Handlers, SignInPending(h),
         UNCHANGED <<row, generated, seen, now, spent, admitted>>
  PROVE  TypeInv'
<1>1. Set(h, Idle) /\ session' = [session EXCEPT ![request[h].browser] = "pending"]
  BY DEF SignInPending
<1>2. Grown /\ TablesInv'
  BY <1>1, SameTables DEF TypeInv, TablesInv
<1>3. QED  BY <1>1, <1>2, RowOn, Ended

\* A request goes on to ask for passkeys or to complete the sign-in.
LEMMA GoesType ==
  ASSUME TypeInv, NEW h \in Handlers, NEW step \in {"asking", "completing"},
         GoTo(h, step), UNCHANGED <<row, session, generated, seen, now, spent, admitted>>,
         step = "asking" => request[h].op = "login",
         request[h].op \in {"login", "assert", "register"}
  PROVE  TypeInv'
<1> DEFINE r == request[h]
<1>1. r \in Request /\ Fits(r, generated, seen, spent)
  BY RequestFacts
<1>2. Grown /\ TablesInv'
  BY SameTables DEF TypeInv, TablesInv
<1>3. Set(h, Altered(r, step, r.selected, r.setup, 1))
  BY <1>1, NextForm DEF GoTo
<1>4. step \in StepNames /\ step \notin PasskeySteps
  BY DEF StepNames, ReadSteps, PasskeySteps
<1>5. QED  BY <1>1, <1>2, <1>3, <1>4, RowOn, Moved DEF Request, Fits

LEMMA AuthenticateType ==
  ASSUME TypeInv, NEW h \in Handlers, Authenticate(h)
  PROVE  TypeInv'
<1>1. request[h].op = "login"
  BY RequestFacts DEF Authenticate, At, Fits
<1>2. QED  BY <1>1, PendingType, GoesType DEF Authenticate

LEMMA HasPasskeysType ==
  ASSUME TypeInv, NEW h \in Handlers, HasPasskeys(h)
  PROVE  TypeInv'
<1>1. request[h].op = "login"
  BY RequestFacts DEF HasPasskeys, At, Fits
<1>2. QED  BY <1>1, PendingType, GoesType DEF HasPasskeys

LEMMA PasskeyType ==
  ASSUME TypeInv, NEW h \in Handlers, CompleteAssertion(h) \/ CompleteRegistration(h)
  PROVE  TypeInv'
<1>1. request[h].op \in {"assert", "register"}
  BY RequestFacts DEF CompleteAssertion, CompleteRegistration, At, Fits
<1>2. UNCHANGED <<row, session, generated, seen, now, spent, admitted>>
  BY DEF CompleteAssertion, CompleteRegistration
<1>3. CASE GoTo(h, "completing")
  BY <1>1, <1>2, <1>3, GoesType
<1>4. CASE Set(h, Idle)
  BY <1>2, <1>4, SameTables, RowOn, Ended DEF TypeInv, TablesInv
<1>5. QED  BY <1>3, <1>4 DEF CompleteAssertion, CompleteRegistration

LEMMA CheckSignInType ==
  ASSUME TypeInv, NEW h \in Handlers, CheckSignIn(h)
  PROVE  TypeInv'
<1> DEFINE r == request[h]
<1>1. /\ r \in Request /\ Fits(r, generated, seen, spent)
      /\ r.step = "checking" /\ r.op \in {"open", "confirm"}
  BY RequestFacts DEF CheckSignIn, At, Fits
<1>2. UNCHANGED <<row, session, generated, seen, now, spent, admitted>>
  BY DEF CheckSignIn
<1>3. Grown /\ TablesInv' /\ RowInv'
  BY <1>2, SameTables, RowOn DEF TypeInv, TablesInv
<1>4. CASE HasConfirmedTotp(row)
  BY <1>3, <1>4, Ended DEF CheckSignIn
<1>5. CASE ~HasConfirmedTotp(row)
  <2>1. Set(h, Altered(r, "ensuring", r.selected, r.setup, 1))
    BY <1>1, <1>5, NextForm DEF CheckSignIn, GoTo
  <2>2. QED
    BY <1>1, <1>2, <1>3, <2>1, Moved
       DEF Request, StepNames, ReadSteps, PasskeySteps, Fits
<1>6. QED  BY <1>4, <1>5

(* The setup s is known.                                                   *)
LEMMA EnsuredType ==
  ASSUME TypeInv, NEW h \in Handlers, request[h].op \in {"open", "confirm"},
         generated' \in 0..MaxSetups, generated <= generated',
         NEW s \in Secrets, s <= generated', Ensured(h, s), RowInv',
         UNCHANGED <<session, now, spent, admitted>>
  PROVE  TypeInv'
<1> DEFINE r == request[h]
<1>1. r \in Request /\ Fits(r, generated, seen, spent)
  BY RequestFacts
<1>2. /\ generated \in Nat /\ generated' \in Nat /\ s \in 1..generated'
      /\ s # NoSecret /\ seen \subseteq 1..generated
  BY BoundsAssumption DEF TypeInv, TablesInv, Secrets, NoSecret
<1>3. seen' = seen \/ seen' = seen \cup {s}
  BY DEF Ensured
<1>4. seen \subseteq seen' /\ seen' \subseteq 1..generated'
  <2>1. 1..generated \subseteq 1..generated'
    BY <1>2
  <2>2. QED  BY <1>2, <1>3, <2>1
<1>5. Grown /\ TablesInv'
  BY <1>2, <1>4 DEF Grown, TypeInv, TablesInv
<1>6. CASE r.op = "open"
  BY <1>5, <1>6, Ended DEF Ensured
<1>7. CASE r.op = "confirm"
  <2>1. Set(h, [r EXCEPT !.step = "verifying", !.setup = s, !.tries = 1])
    BY <1>7 DEF Ensured
  <2> DEFINE q == [r EXCEPT !.step = "verifying", !.setup = s, !.tries = 1]
  <2>2. Set(h, Altered(r, "verifying", r.selected, s, 1))
    <3>1. q = Altered(r, "verifying", r.selected, s, 1)
      BY <1>1 DEF Altered, Request
    <3>2. QED  BY <2>1, <3>1
  <2> HIDE DEF q
  <2>3. r.selected \in Row /\ "verifying" \in StepNames \ PasskeySteps
    BY <1>1 DEF Request, StepNames, ReadSteps, PasskeySteps
  <2>4. r.selected.confirmed <=> r.selected.secret # NoSecret
    BY <1>1 DEF Fits
  <2>5. QED  BY <1>2, <1>5, <1>7, <2>2, <2>3, <2>4, Moved
<1>8. QED  BY <1>6, <1>7

LEMMA EnsureTotpSetupType ==
  ASSUME TypeInv, NEW h \in Handlers, EnsureTotpSetup(h)
  PROVE  TypeInv'
<1> DEFINE r == request[h]
<1>1. /\ r \in Request /\ Fits(r, generated, seen, spent)
      /\ r.step = "ensuring" /\ r.op \in {"open", "confirm"}
  BY RequestFacts DEF EnsureTotpSetup, At, Fits
<1>2. /\ row \in Row
      /\ row.confirmed <=> row.secret # NoSecret
      /\ row.pending <= generated /\ generated \in 0..MaxSetups
      /\ row.pending \in {NoSecret} \cup Secrets
  BY DEF TypeInv, RowInv, TablesInv, Row
<1>3. UNCHANGED <<row, session, now, spent, admitted>>
  BY DEF EnsureTotpSetup
<1>4. CASE row.pending # NoSecret /\ Ensured(h, row.pending) /\ UNCHANGED generated
  <2>1. row.pending \in Secrets /\ row.pending <= generated'
    BY <1>2, <1>4
  <2>2. RowInv'
    BY <1>3, <1>4 DEF TypeInv, RowInv, Ensured
  <2>3. QED  BY <1>1, <1>2, <1>3, <1>4, <2>1, <2>2, EnsuredType
<1>5. CASE /\ row.pending = NoSecret /\ generated < MaxSetups
           /\ generated' = generated + 1 /\ UNCHANGED seen
           /\ Set(h, [r EXCEPT !.step = "offering", !.selected = row,
                               !.setup = generated'])
  <2>1. /\ generated' \in 0..MaxSetups /\ generated' \in Secrets
        /\ generated <= generated' /\ generated' # NoSecret
    BY <1>2, <1>5, BoundsAssumption DEF Secrets, NoSecret
  <2>2. Set(h, Altered(r, "offering", row, generated', r.tries))
    BY <1>1, <1>5, OfferForm
  <2>3. Grown /\ TablesInv'
    BY <1>2, <1>3, <1>5, <2>1 DEF Grown, TypeInv, TablesInv
  <2>4. RowInv'
    BY <1>3, <2>3, RowOn
  <2>5. r.tries \in Nat /\ "offering" \in StepNames \ PasskeySteps
    BY <1>1 DEF Request, StepNames, SaveSteps, PasskeySteps
  <2> DEFINE s == generated'
  <2>6. PICK q \in Secrets : q = generated'
    BY <2>1
  <2>7. Set(h, Altered(r, "offering", row, q, r.tries))
    BY <2>2, <2>6
  <2>8. q <= generated' /\ q # NoSecret
    BY <2>1, <2>6
  <2>9. QED  BY <1>1, <1>2, <2>3, <2>4, <2>5, <2>7, <2>8, Moved
<1>6. QED  BY <1>4, <1>5 DEF EnsureTotpSetup

LEMMA SaveOfferType ==
  ASSUME TypeInv, NEW h \in Handlers, SaveOffer(h)
  PROVE  TypeInv'
<1> DEFINE r == request[h]
<1>1. /\ r \in Request /\ Fits(r, generated, seen, spent)
      /\ r.step = "offering" /\ r.op \in {"open", "confirm"}
      /\ r.setup \in {NoSecret} \cup Secrets /\ r.setup # NoSecret
      /\ r.setup <= generated
  BY RequestFacts DEF SaveOffer, At, Fits, Request
<1>2. /\ UNCHANGED <<session, generated, now, spent, admitted>>
      /\ Offered(h) /\ Ensured(h, r.setup) /\ At(h, "offering")
  BY DEF SaveOffer
<1>3. generated \in 0..MaxSetups /\ seen \subseteq seen'
  BY <1>2 DEF TypeInv, TablesInv, Ensured
<1>4. r.setup \in Secrets /\ r.setup <= generated'
  BY <1>1, <1>2
<1>5. Grown
  BY <1>2, <1>3 DEF Grown
<1>6. RowInv'
  BY <1>2, <1>5, OfferedRow
<1>7. PICK s \in Secrets : s = r.setup
  BY <1>4
<1>8. Ensured(h, s) /\ s <= generated'
  BY <1>2, <1>4, <1>7
<1>9. QED  BY <1>1, <1>2, <1>3, <1>6, <1>8, EnsuredType

(* A code refused ends its request.                                        *)
LEMMA RefuseType ==
  ASSUME TypeInv, NEW h \in Handlers, At(h, "verifying") \/ At(h, "accepting"),
         Refuse(h), UNCHANGED <<session, generated, now, admitted>>,
         spent \subseteq spent', spent' \subseteq Codes,
         Grown => RowInv'
  PROVE  TypeInv'
<1> DEFINE r == request[h]
<1>1. /\ r \in Request /\ r.setup <= generated /\ generated \in 0..MaxSetups
      /\ r.op = "confirm" => r.setup # NoSecret
      /\ r.setup \in {NoSecret} \cup Secrets
  BY RequestFacts DEF At, Fits, TypeInv, TablesInv, Request
<1>2. r.op = "confirm" => r.setup \in 1..generated
  BY <1>1, BoundsAssumption DEF Secrets, NoSecret
<1>3. seen \subseteq seen' /\ seen' \subseteq 1..generated' /\ Set(h, Idle)
  BY <1>2 DEF Refuse, TypeInv, TablesInv
<1>4. Grown /\ TablesInv'
  BY <1>1, <1>3 DEF Grown, TypeInv, TablesInv
<1>5. QED  BY <1>3, <1>4, Ended

LEMMA VerifyTotpType ==
  ASSUME TypeInv, NEW h \in Handlers, VerifyTotp(h)
  PROVE  TypeInv'
<1> DEFINE r == request[h]
<1>1. /\ r \in Request /\ Fits(r, generated, seen, spent) /\ r.step = "verifying"
      /\ row \in Row
      /\ row.confirmed <=> row.secret # NoSecret
  BY RequestFacts DEF VerifyTotp, At, TypeInv, RowInv
<1>2. UNCHANGED <<row, session, generated, now, spent, admitted>>
  BY DEF VerifyTotp
<1>3. CASE ~Genuine(r, row)
  <2>1. Refuse(h) /\ At(h, "verifying")
    BY <1>3 DEF VerifyTotp
  <2>2. spent \subseteq spent' /\ spent' \subseteq Codes
    BY <1>2 DEF TypeInv, TablesInv
  <2>3. Grown => RowInv'
    BY <1>2, RowOn
  <2>4. QED  BY <1>2, <2>1, <2>2, <2>3, RefuseType
<1>4. CASE Genuine(r, row)
  <2>1. /\ Set(h, [r EXCEPT !.step = "accepting", !.selected = row])
        /\ UNCHANGED seen
    BY <1>4 DEF VerifyTotp
  <2>2. Set(h, Altered(r, "accepting", row, r.setup, r.tries))
    BY <1>1, <2>1, SaveForm
  <2>3. /\ r.op = "confirm" => r.code.secret = row.pending /\ row.pending # NoSecret
        /\ r.op # "confirm" => r.code.secret = row.secret /\ row.secret # NoSecret
    BY <1>4 DEF Genuine, VerifyCode, HasConfirmedTotp
  <2>4. r.code # WrongCode
    BY <2>3 DEF WrongCode
  <2>5. Grown /\ TablesInv' /\ RowInv'
    BY <1>2, <2>1, SameTables, RowOn DEF TypeInv, TablesInv
  <2>6. r.tries \in Nat /\ "accepting" \in StepNames \ PasskeySteps
        /\ r.setup \in {NoSecret} \cup Secrets
    BY <1>1 DEF Request, StepNames, SaveSteps, PasskeySteps
  <2>7. r.setup <= generated' /\ (r.op = "verify" \/ (r.op = "confirm" /\ r.setup # NoSecret))
    BY <1>1, <1>2 DEF Fits
  <2>8. QED  BY <1>1, <2>2, <2>3, <2>4, <2>5, <2>6, <2>7, Moved
<1>5. QED  BY <1>3, <1>4

LEMMA SaveAcceptedType ==
  ASSUME TypeInv, NEW h \in Handlers, SaveAccepted(h)
  PROVE  TypeInv'
<1> DEFINE r == request[h]
<1>1. /\ r \in Request /\ Fits(r, generated, seen, spent) /\ r.selected \in Row
      /\ r.setup \in {NoSecret} \cup Secrets
  BY RequestFacts DEF Request
<1>2. /\ At(h, "accepting") /\ Accept(h)
      /\ UNCHANGED <<session, generated, seen, now, admitted>>
  BY DEF SaveAccepted
<1>3. Grown
  BY <1>2, RequestFacts DEF Grown, Accept
<1>4. RowInv' /\ r.code \in spent' /\ spent' \subseteq Codes
  BY <1>2, <1>3, AcceptedRow
<1>5. TablesInv'
  BY <1>2, <1>3, <1>4 DEF TypeInv, TablesInv, Grown
<1>6. CASE r.cookie = "pending"
  <2>1. Set(h, Altered(r, "completing", r.selected, r.setup, 1))
    BY <1>1, <1>6, NextForm DEF SaveAccepted, GoTo
  <2>2. /\ "completing" \in StepNames \ PasskeySteps /\ r.setup <= generated'
        /\ r.op \in {"verify", "confirm"}
    BY <1>1, <1>2 DEF StepNames, PasskeySteps, Fits, At
  <2>3. r.selected.confirmed <=> r.selected.secret # NoSecret
    BY <1>1 DEF Fits
  <2>4. QED  BY <1>1, <1>3, <1>4, <1>5, <2>1, <2>2, <2>3, Moved
<1>7. CASE r.cookie # "pending"
  BY <1>3, <1>4, <1>5, <1>7, Ended DEF SaveAccepted
<1>8. QED  BY <1>6, <1>7

LEMMA SelectForRemovalType ==
  ASSUME TypeInv, NEW h \in Handlers, SelectForRemoval(h)
  PROVE  TypeInv'
<1> DEFINE r == request[h]
<1>1. /\ r \in Request /\ Fits(r, generated, seen, spent) /\ row \in Row
      /\ r.setup \in {NoSecret} \cup Secrets /\ r.tries \in Nat
  BY RequestFacts DEF Request
<1>2. row.confirmed <=> row.secret # NoSecret
  BY DEF TypeInv, RowInv
<1>3. UNCHANGED <<row, session, generated, seen, now, spent, admitted>>
  BY DEF SelectForRemoval
<1>4. Grown /\ TablesInv' /\ RowInv'
  BY <1>3, SameTables, RowOn DEF TypeInv, TablesInv
<1>5. Set(h, Altered(r, "erasing", row, r.setup, r.tries))
  BY <1>1, SaveForm DEF SelectForRemoval
<1>6. "erasing" \in StepNames \ PasskeySteps /\ r.setup <= generated'
  BY <1>1, <1>3 DEF StepNames, SaveSteps, PasskeySteps, Fits
<1>7. QED  BY <1>1, <1>2, <1>4, <1>5, <1>6, Moved

LEMMA SaveErasedType ==
  ASSUME TypeInv, NEW h \in Handlers, SaveErased(h)
  PROVE  TypeInv'
<1>1. /\ At(h, "erasing") /\ Erased(h) /\ Set(h, Idle)
      /\ UNCHANGED <<session, generated, seen, now, spent, admitted>>
  BY DEF SaveErased
<1>2. Grown /\ TablesInv'
  BY <1>1, SameTables DEF TypeInv, TablesInv
<1>3. QED  BY <1>1, <1>2, ErasedRow, Ended

LEMMA CompleteType ==
  ASSUME TypeInv, NEW h \in Handlers, CompleteLocalSignIn(h)
  PROVE  TypeInv'
<1> DEFINE r == request[h]
<1>1. /\ Set(h, Idle) /\ r.step = "completing"
      /\ UNCHANGED <<row, generated, seen, now, spent>>
  BY DEF CompleteLocalSignIn, At
<1>2. r.code = WrongCode \/ r.code \in spent
  BY <1>1, RequestFacts DEF Fits
<1>3. session' \in [Browsers -> {"none", "pending", "full"}]
  BY DEF CompleteLocalSignIn, TypeInv, TablesInv
<1>4. admitted' \subseteq spent
  BY <1>2 DEF CompleteLocalSignIn, TypeInv, TablesInv
<1>5. Grown /\ TablesInv' /\ RowInv'
  BY <1>1, <1>3, <1>4, SameTables, RowOn DEF TypeInv, TablesInv
<1>6. QED  BY <1>1, <1>5, Ended

LEMMA BreakType ==
  ASSUME TypeInv, NEW h \in Handlers, Break(h)
  PROVE  TypeInv'
<1> DEFINE r == request[h]
<1>1. /\ r \in Request /\ Fits(r, generated, seen, spent)
      /\ r.setup \in {NoSecret} \cup Secrets /\ r.tries \in Nat
      /\ r.step \in ReadSteps \cup SaveSteps
  BY RequestFacts DEF Request, Break
<1>2. UNCHANGED <<session, generated, now, admitted>>
  BY DEF Break
<1>3. spent \subseteq spent'
  BY DEF Break, TakesEffect, Accept
<1>4. seen \subseteq seen' => Grown
  BY <1>2, <1>3, RequestFacts DEF Grown
<1>5. Grown => RowInv' /\ spent' \subseteq Codes
  <2> SUFFICES ASSUME Grown PROVE RowInv' /\ spent' \subseteq Codes
    OBVIOUS
  <2>1. CASE UNCHANGED <<row, spent>>
    BY <2>1, RowOn DEF TypeInv, TablesInv
  <2>2. CASE At(h, "offering") /\ Offered(h) /\ UNCHANGED spent
    BY <2>2, OfferedRow DEF TypeInv, TablesInv
  <2>3. CASE At(h, "accepting") /\ Accept(h)
    BY <2>3, AcceptedRow
  <2>4. CASE At(h, "erasing") /\ Erased(h) /\ UNCHANGED spent
    BY <2>4, ErasedRow DEF TypeInv, TablesInv
  <2>5. QED  BY <2>1, <2>2, <2>3, <2>4 DEF Break, TakesEffect
<1>6. seen = seen' => Grown /\ RowInv' /\ TablesInv'
  BY <1>2, <1>3, <1>4, <1>5 DEF TypeInv, TablesInv
<1>7. CASE GiveUp(h)
  <2>1. CASE At(h, "verifying") \/ At(h, "accepting")
    <3>1. Refuse(h)
      BY <1>7, <2>1 DEF GiveUp
    <3>2. seen \subseteq seen'
      BY <3>1 DEF Refuse
    <3>3. QED  BY <1>2, <1>3, <1>4, <1>5, <2>1, <3>1, <3>2, RefuseType
  <2>2. CASE ~(At(h, "verifying") \/ At(h, "accepting"))
    BY <1>6, <1>7, <2>2, Ended DEF GiveUp
  <2>3. QED  BY <2>1, <2>2
<1>8. CASE /\ Set(h, [r EXCEPT !.step = StartsOver(@), !.selected = NoSetup,
                               !.tries = @ + 1])
           /\ UNCHANGED seen
  <2> DEFINE step == StartsOver(r.step)
  <2>1. /\ step \in ReadSteps
        /\ step \in {"authenticating", "asking"} => r.step \in {"authenticating", "asking"}
        /\ step \in {"checking", "ensuring"} =>
              r.step \in {"checking", "ensuring", "offering"}
        /\ step = "verifying" => r.step \in {"verifying", "accepting"}
    BY <1>1 DEF StartsOver, ReadSteps, SaveSteps
  <2>2. Set(h, [r EXCEPT !.step = step, !.selected = NoSetup, !.tries = r.tries + 1])
    BY <1>1, <1>8 DEF Request
  <2> HIDE DEF step
  <2>3. Set(h, Altered(r, step, NoSetup, r.setup, r.tries + 1))
    BY <1>1, <2>2 DEF Altered, Request
  <2>4. NoSetup \in Row /\ (NoSetup.confirmed <=> NoSetup.secret # NoSecret)
    BY ConstantTypes DEF NoSetup
  <2>5. /\ step \in StepNames /\ r.tries + 1 \in Nat /\ r.setup <= generated'
        /\ step \notin {"offering", "accepting", "completing"} \cup PasskeySteps
    BY <1>1, <1>2, <2>1 DEF StepNames, ReadSteps, PasskeySteps, Fits
  <2>6. step \in {"authenticating", "asking"} => r.op = "login"
    BY <1>1, <2>1 DEF Fits
  <2>7. step \in {"checking", "ensuring"} => r.op \in {"open", "confirm"}
    BY <1>1, <2>1 DEF Fits
  <2>8. step = "verifying" => r.op = "verify" \/ (r.op = "confirm" /\ r.setup # NoSecret)
    BY <1>1, <2>1 DEF Fits
  <2>9. Grown /\ RowInv' /\ TablesInv'
    BY <1>6, <1>8
  <2>10. QED
    BY <1>1, <2>3, <2>4, <2>5, <2>6, <2>7, <2>8, <2>9, Moved
<1>9. QED  BY <1>7, <1>8 DEF Break

LEMMA RunType ==
  ASSUME TypeInv, NEW h \in Handlers, Run(h)
  PROVE  TypeInv'
BY AuthenticateType, HasPasskeysType, PasskeyType, CheckSignInType, EnsureTotpSetupType, SaveOfferType,
   VerifyTotpType, SaveAcceptedType, SelectForRemovalType, SaveErasedType,
   CompleteType, BreakType DEF Run

LEMMA RestType ==
  ASSUME TypeInv,
         \/ \E b \in Browsers : Logout(b)
         \/ Require \/ RemovePasskeys \/ Tick \/ Restart
         \/ UNCHANGED vars
  PROVE  TypeInv'
<1>1. /\ UNCHANGED <<generated, seen, spent, admitted>>
      /\ row' = row \/ row' = [row EXCEPT !.required = ~@]
  BY DEF Logout, Require, RemovePasskeys, Tick, Restart, vars
<1>2. RowInv'
  <2>1. CASE row' = row
    BY <1>1, <2>1 DEF TypeInv, RowInv
  <2>2. CASE row' = [row EXCEPT !.required = ~@]
    <3>1. /\ row' \in Row /\ row'.confirmed = row.confirmed
          /\ row'.secret = row.secret /\ row'.pending = row.pending
      BY <2>2 DEF TypeInv, RowInv, Row
    <3>2. QED  BY <1>1, <3>1 DEF TypeInv, RowInv
  <2>3. QED  BY <1>1, <2>1, <2>2
<1>3. session' \in [Browsers -> {"none", "pending", "full"}] /\ now' \in 1..MaxTime
  BY BoundsAssumption DEF Logout, Require, RemovePasskeys, Tick, Restart, vars, TypeInv, TablesInv
<1>4. TablesInv'
  BY <1>1, <1>3 DEF TypeInv, TablesInv
<1>5. RequestsInv'
  <2>1. CASE request' = request
    BY <1>1, <2>1 DEF TypeInv, RequestsInv
  <2>2. CASE request' = [h \in Handlers |-> Idle]
    <3>1. generated' \in Nat
      BY <1>4 DEF TablesInv
    <3>2. QED  BY <2>2, <3>1, ConstantTypes DEF RequestsInv
  <2>3. QED  BY <2>1, <2>2 DEF Logout, Require, RemovePasskeys, Tick, Restart, vars
<1>6. QED  BY <1>2, <1>4, <1>5 DEF TypeInv

LEMMA TypeInvStep == TypeInv /\ [Next]_vars => TypeInv'
BY StartType, RunType, RestType DEF Next

LEMMA ContextStep == ContextInv /\ [Next]_vars => ContextInv'
<1> SUFFICES ASSUME ContextInv, [Next]_vars PROVE ContextInv'
  OBVIOUS
<1> USE DEF ContextInv
<1>1. ASSUME NEW h \in Handlers, Start(h) PROVE ContextInv'
  BY <1>1 DEF Start, Login, Totp, OpenTotpSetup, PostTotpSetup, RemoveTotp,
              PasskeyAssertionVerify, PasskeyRegister, Begin
<1>2. ASSUME NEW h \in Handlers, Run(h) PROVE ContextInv'
  <2>1. CASE SaveOffer(h) \/ SaveAccepted(h) \/ SaveErased(h)
    BY <2>1 DEF SaveOffer, SaveAccepted, SaveErased, Overtakes
  <2>2. CASE CompleteRegistration(h) \/ Break(h)
    BY <2>2 DEF CompleteRegistration, Break, Overtakes
  <2>3. CASE UNCHANGED <<passkey, overtaken>>
    BY <2>3
  <2>4. QED
    BY <1>2, <2>1, <2>2, <2>3
       DEF Run, Authenticate, HasPasskeys, CompleteAssertion, CheckSignIn,
           EnsureTotpSetup, VerifyTotp, SelectForRemoval, CompleteLocalSignIn
<1>3. CASE Require \/ RemovePasskeys
  BY <1>3 DEF Require, RemovePasskeys, Overtakes
<1>4. ASSUME NEW b \in Browsers, Logout(b) PROVE ContextInv'
  BY <1>4 DEF Logout
<1>5. CASE Tick \/ Restart \/ UNCHANGED vars
  BY <1>5 DEF Tick, Restart, vars
<1>6. QED  BY <1>1, <1>2, <1>3, <1>4, <1>5 DEF Next

(* The types, whatever overlaps: a secret is stored exactly when it is     *)
(* confirmed, and a confirmed one was on a page (DbLocalUserService        *)
(* changes the two columns together).                                      *)
THEOREM TypeCorrect == Spec => []TypeOK
<1>1. Init => ContextInv
  BY DEF Init, ContextInv
<1>2. Spec => [](TypeInv /\ ContextInv)
  BY <1>1, TypeInvInit, TypeInvStep, ContextStep, PTL DEF Spec
<1>3. QED  BY <1>2, TypeInvTypeOK, PTL

-----------------------------------------------------------------------------
(* What a request in flight can rely on, until another one overtakes it.   *)

(* What it knows of the columns, of the passkeys, of the codes used and of *)
(* those that completed a sign-in.  Only the repetition of a confirmation  *)
(* whose answer was lost finds an app confirmed that the sign-in did not   *)
(* know of, and no setup to confirm any more.                              *)
Knows(r, columns, key, used, admissions) ==
  /\ r.step \in SaveSteps => r.selected = columns
  /\ r.step = "asking" => ~columns.required /\ ~columns.confirmed
  /\ r.step = "offering" =>
        /\ columns.pending = NoSecret
        /\ ~Overlap => \A c \in used : c.secret # r.setup
  /\ r.step = "accepting" =>
        \/ r.op = "confirm" /\ r.code.secret = columns.pending
        \/ /\ r.op = "verify" /\ columns.confirmed
           /\ r.code.secret = columns.secret /\ r.code.step > columns.last
  /\ r.step = "completing" =>
        \/ r.op = "login" /\ ~columns.required /\ ~columns.confirmed /\ ~key
        \/ /\ r.op \in {"verify", "confirm"} /\ columns.confirmed
           /\ r.code \in used /\ r.code.secret = columns.secret
           /\ ~Overlap => r.code \notin admissions
        \/ r.op \in {"assert", "register"} /\ key
  /\ /\ r.op \in {"open", "confirm"} /\ r.cookie # "full"
     /\ r.step \in {"ensuring", "offering", "verifying", "accepting"}
     => \/ ~columns.confirmed
        \/ r.step = "verifying" /\ columns.pending = NoSecret

Informed(h) == Knows(request[h], row, passkey, spent, admitted)

KnowsInv == \A h \in Handlers \ overtaken : Informed(h)

(* When requests do not overlap, at most one is in flight.                 *)
Solo == \A g, h \in Handlers : At(g, "idle") \/ At(h, "idle") \/ g = h

(* The last step is that of a code accepted, and no later one was.  The    *)
(* codes used are of setups that were shown, none of them of the setup     *)
(* which waits for its first code.                                         *)
Tallied(columns, used, shown) ==
  /\ columns.confirmed =>
        /\ \E c \in used : c.secret = columns.secret /\ c.step = columns.last
        /\ \A c \in used : c.secret = columns.secret => c.step <= columns.last
  /\ \A c \in used : c.secret \in shown /\ c.secret # columns.pending

SerialInv == Solo /\ overtaken = {} /\ Tallied(row, spent, seen)

IInv == TypeInv /\ ContextInv /\ KnowsInv /\ (~Overlap => SerialInv)

\* An idle request knows nothing.
LEMMA IdleKnows ==
  ASSUME NEW r, r.step = "idle",
         NEW columns, NEW key, NEW used, NEW admissions
  PROVE  Knows(r, columns, key, used, admissions)
BY DEF Knows, SaveSteps

LEMMA IInvInit == Init => IInv
<1> SUFFICES ASSUME Init PROVE IInv
  OBVIOUS
<1>1. \A h \in Handlers : request[h] = Idle /\ Idle.step = "idle"
  BY DEF Init, Idle
<1>2. KnowsInv
  BY <1>1, IdleKnows DEF KnowsInv, Informed
<1>3. Solo
  BY <1>1 DEF Solo, At
<1>4. Tallied(row, spent, seen)
  BY DEF Init, Tallied, NoSetup
<1>5. ContextInv /\ overtaken = {}
  BY DEF Init, ContextInv
<1>6. QED  BY <1>2, <1>3, <1>4, <1>5, TypeInvInit DEF IInv, SerialInv

LEMMA FlightFacts ==
  ASSUME IInv, NEW h \in Handlers
  PROVE  /\ request[h] \in Request /\ Fits(request[h], generated, seen, spent)
         /\ row \in Row
         /\ row.confirmed <=> row.secret # NoSecret
         /\ row.pending \in {NoSecret} \cup Secrets
         /\ ~Overlap => Tallied(row, spent, seen)
BY RequestFacts DEF IInv, SerialInv, TypeInv, RowInv, Row

(* What a step of h does to what other requests rely on: nothing, or they  *)
(* are overtaken.                                                          *)
Steady(h) ==
  /\ overtaken \ {h} \subseteq overtaken' /\ spent \subseteq spent'
  /\ \/ UNCHANGED <<row, passkey>>
     \/ \A g \in Handlers \ {h} : At(g, "idle") \/ g \in overtaken'

Alone(h) == \A g \in Handlers \ {h} : At(g, "idle")

LEMMA KnowsOn ==
  ASSUME IInv, NEW h \in Handlers, Steady(h), Alone(h) \/ Overlap, NEW r, Set(h, r),
         h \in overtaken' \/ Knows(r, row', passkey', spent', admitted')
  PROVE  KnowsInv'
<1>1. request'[h] = r /\ \A g \in Handlers \ {h} : request'[g] = request[g]
  BY DEF Set, IInv, TypeInv, RequestsInv
<1>2. ASSUME NEW g \in Handlers \ {h}, g \notin overtaken'
      PROVE  Knows(request[g], row', passkey', spent', admitted')
  <2>1. CASE At(g, "idle")
    BY <2>1, IdleKnows DEF At
  <2>2. CASE ~At(g, "idle")
    <3>1. UNCHANGED <<row, passkey>> /\ spent \subseteq spent' /\ Overlap
      BY <1>2, <2>2 DEF Steady, Alone
    <3>2. Knows(request[g], row, passkey, spent, admitted)
      BY <1>2 DEF Steady, IInv, KnowsInv, Informed
    <3>3. QED  BY <3>1, <3>2 DEF Knows
  <2>3. QED  BY <2>1, <2>2
<1>3. QED  BY <1>1, <1>2 DEF KnowsInv, Informed

-----------------------------------------------------------------------------
(* What happens to the columns and to the codes accepted.                  *)

SameSetup ==
  /\ row'.secret = row.secret /\ row'.confirmed = row.confirmed
  /\ row'.last = row.last /\ row'.pending = row.pending
  /\ spent' = spent

Offers(h) == At(h, "offering") /\ Offered(h) /\ spent' = spent

Accepts(h) == At(h, "accepting") /\ Accept(h)

Erases(h) == At(h, "erasing") /\ Erased(h) /\ spent' = spent

LEMMA Effects ==
  ASSUME TypeInv, [Next]_vars
  PROVE  /\ seen \subseteq seen'
         /\ \/ SameSetup
            \/ \E h \in Handlers : Offers(h) \/ Accepts(h) \/ Erases(h)
         /\ \/ admitted' = admitted
            \/ \E h \in Handlers : CompleteLocalSignIn(h) /\ SameSetup
<1> USE DEF SameSetup
<1>1. ASSUME NEW h \in Handlers, Start(h)
      PROVE  SameSetup /\ UNCHANGED <<seen, admitted>>
  BY <1>1 DEF Start, Login, Totp, OpenTotpSetup, PostTotpSetup, RemoveTotp,
              PasskeyAssertionVerify, PasskeyRegister, Begin
<1>2. ASSUME NEW h \in Handlers, Run(h)
      PROVE  /\ seen \subseteq seen'
             /\ SameSetup \/ Offers(h) \/ Accepts(h) \/ Erases(h)
             /\ admitted' = admitted \/ (CompleteLocalSignIn(h) /\ SameSetup)
  <2>1. CASE Authenticate(h) \/ HasPasskeys(h)
    BY <2>1 DEF Authenticate, HasPasskeys
  <2>2. CASE CompleteAssertion(h) \/ CompleteRegistration(h) \/ CheckSignIn(h)
    BY <2>2 DEF CompleteAssertion, CompleteRegistration, CheckSignIn
  <2>3. CASE EnsureTotpSetup(h)
    BY <2>3 DEF EnsureTotpSetup, Ensured
  <2>4. CASE SaveOffer(h)
    BY <2>4 DEF SaveOffer, Offers, Ensured
  <2>5. CASE VerifyTotp(h)
    BY <2>5 DEF VerifyTotp, Refuse
  <2>6. CASE SaveAccepted(h)
    BY <2>6 DEF SaveAccepted, Accepts
  <2>7. CASE SelectForRemoval(h)
    BY <2>7 DEF SelectForRemoval
  <2>8. CASE SaveErased(h)
    BY <2>8 DEF SaveErased, Erases
  <2>9. CASE CompleteLocalSignIn(h)
    BY <2>9 DEF CompleteLocalSignIn
  <2>10. CASE Break(h)
    <3>1. seen \subseteq seen' /\ admitted' = admitted
      BY <2>10 DEF Break, GiveUp, Refuse
    <3>2. SameSetup \/ Offers(h) \/ Accepts(h) \/ Erases(h)
      BY <2>10 DEF Break, TakesEffect, Offers, Accepts, Erases
    <3>3. QED  BY <3>1, <3>2
  <2>11. QED
    BY <1>2, <2>1, <2>2, <2>3, <2>4, <2>5, <2>6, <2>7, <2>8, <2>9, <2>10 DEF Run
<1>3. ASSUME RemovePasskeys \/ Tick \/ Restart \/ UNCHANGED vars
      PROVE  SameSetup /\ UNCHANGED <<seen, admitted>>
  BY <1>3 DEF RemovePasskeys, Tick, Restart, vars
<1>4. ASSUME NEW b \in Browsers, Logout(b)
      PROVE  SameSetup /\ UNCHANGED <<seen, admitted>>
  BY <1>4 DEF Logout
<1>5. CASE Require
  BY <1>5 DEF Require, TypeInv, RowInv, Row
<1>6. QED  BY <1>1, <1>2, <1>3, <1>4, <1>5 DEF Next

(* A setup is offered that no code was of.                                 *)
LEMMA OfferEffect ==
  ASSUME IInv, ~Overlap, NEW h \in Handlers, Offers(h)
  PROVE  /\ row' = [row EXCEPT !.pending = request[h].setup]
         /\ row.pending = NoSecret
         /\ \A c \in spent : c.secret # request[h].setup
         /\ row.secret # request[h].setup
         /\ request[h].setup \in Secrets
<1> DEFINE r == request[h]
<1>1. /\ r \in Request /\ Fits(r, generated, seen, spent) /\ r.step = "offering"
      /\ Informed(h) /\ Tallied(row, spent, seen)
  BY FlightFacts DEF IInv, SerialInv, KnowsInv, Offers, At
<1>2. row.pending = NoSecret /\ \A c \in spent : c.secret # r.setup
  BY <1>1 DEF Informed, Knows
<1>3. r.setup \in Secrets /\ r.setup # NoSecret
  BY <1>1 DEF Fits, Request
<1>4. row.secret # r.setup
  <2>1. row.confirmed => row.secret # r.setup
    BY <1>1, <1>2 DEF Tallied
  <2>2. QED  BY <1>3, <2>1, FlightFacts
<1>5. QED  BY <1>2, <1>3, <1>4 DEF Offers, Offered

(* What the save of an informed request leaves.                            *)
LEMMA AcceptColumns ==
  ASSUME IInv, NEW h \in Handlers, Accepts(h), Informed(h)
  PROVE  LET r == request[h]
         IN  /\ r.code \in Codes /\ r.code.secret \in seen
             /\ spent' = spent \cup {r.code}
             /\ \/ /\ r.op = "confirm" /\ r.code.secret = row.pending
                   /\ row' = [row EXCEPT !.last = r.code.step, !.secret = row.pending,
                                         !.confirmed = TRUE, !.pending = NoSecret]
                \/ /\ r.op = "verify" /\ r.code.secret = row.secret /\ row.confirmed
                   /\ r.code.step > row.last
                   /\ row' = [row EXCEPT !.last = r.code.step]
<1> DEFINE r == request[h]
<1>1. /\ r \in Request /\ Fits(r, generated, seen, spent) /\ r.step = "accepting"
      /\ Knows(r, row, passkey, spent, admitted)
  BY FlightFacts DEF Accepts, At, Informed
<1>2. /\ r.code \in Codes /\ r.code.secret \in seen /\ r.selected = row /\ row \in Row
      /\ r.op \in {"verify", "confirm"}
  BY <1>1, FlightFacts DEF Fits, Knows, SaveSteps, Request
<1>3. row' = Accepted(r) /\ spent' = spent \cup {r.code}
  BY DEF Accepts, Accept
<1>4. Column(row.last, r.selected.last, r.code.step) = r.code.step
  BY <1>2 DEF Column
<1>5. CASE r.op = "confirm"
  <2>1. r.code.secret = row.pending
    BY <1>1, <1>5 DEF Knows
  <2>2. row' = [row EXCEPT !.last = r.code.step, !.secret = row.pending,
                           !.confirmed = TRUE, !.pending = NoSecret]
    BY <1>2, <1>3, <1>4, <1>5 DEF Accepted, Row
  <2>3. QED  BY <1>2, <1>3, <1>5, <2>1, <2>2
<1>6. CASE r.op = "verify"
  <2>1. /\ r.code.secret = row.secret /\ row.confirmed /\ r.code.step > row.last
    BY <1>1, <1>6 DEF Knows
  <2>2. row' = [row EXCEPT !.last = r.code.step]
    BY <1>3, <1>4, <1>6 DEF Accepted
  <2>3. QED  BY <1>2, <1>3, <1>6, <2>1, <2>2
<1>7. QED  BY <1>2, <1>5, <1>6

(* A code is accepted that was not accepted before and is later than every *)
(* code of the setup in force; it is then of the setup in force.           *)
LEMMA AcceptEffect ==
  ASSUME IInv, ~Overlap, NEW h \in Handlers, Accepts(h)
  PROVE  LET r == request[h]
         IN  /\ r.code \in Codes /\ r.code \notin spent /\ r.code.secret \in seen
             /\ spent' = spent \cup {r.code}
             /\ \/ /\ r.op = "confirm" /\ r.code.secret = row.pending
                   /\ row' = [row EXCEPT !.last = r.code.step, !.secret = row.pending,
                                         !.confirmed = TRUE, !.pending = NoSecret]
                \/ /\ r.op = "verify" /\ r.code.secret = row.secret /\ row.confirmed
                   /\ \A c \in spent : c.secret = row.secret => c.step < r.code.step
                   /\ row' = [row EXCEPT !.last = r.code.step]
<1> DEFINE r == request[h]
<1>1. Informed(h) /\ Tallied(row, spent, seen) /\ row \in Row /\ spent \subseteq Codes
  BY FlightFacts DEF IInv, SerialInv, KnowsInv, TypeInv, TablesInv
<1>2. /\ r.code \in Codes /\ r.code.secret \in seen /\ spent' = spent \cup {r.code}
  BY <1>1, AcceptColumns
<1>3. /\ row.last \in Int /\ r.code.step \in Int
      /\ \A c \in spent : c.step \in Int
  BY <1>1, <1>2, BoundsAssumption DEF Row, Codes, TimeSteps
<1>4. CASE /\ r.op = "confirm" /\ r.code.secret = row.pending
           /\ row' = [row EXCEPT !.last = r.code.step, !.secret = row.pending,
                                 !.confirmed = TRUE, !.pending = NoSecret]
  <2>1. r.code \notin spent
    BY <1>1, <1>4 DEF Tallied
  <2>2. QED  BY <1>2, <1>4, <2>1
<1>5. CASE /\ r.op = "verify" /\ r.code.secret = row.secret /\ row.confirmed
           /\ r.code.step > row.last
           /\ row' = [row EXCEPT !.last = r.code.step]
  <2>1. \A c \in spent : c.secret = row.secret => c.step < r.code.step
    <3>1. \A c \in spent : c.secret = row.secret => c.step <= row.last
      BY <1>1, <1>5 DEF Tallied
    <3>2. QED  BY <1>3, <1>5, <3>1
  <2>2. r.code \notin spent
    BY <1>3, <1>5, <2>1
  <2>3. QED  BY <1>2, <1>5, <2>1, <2>2
<1>6. QED  BY <1>1, <1>4, <1>5, AcceptColumns

LEMMA EraseEffect ==
  ASSUME NEW h \in Handlers, Erases(h), Informed(h)
  PROVE  row' = [row EXCEPT !.secret = NoSecret, !.confirmed = FALSE,
                            !.last = 0, !.pending = NoSecret]
<1>1. request[h].selected = row
  BY DEF Informed, Knows, Erases, At, SaveSteps
<1>2. /\ Column(row.secret, row.secret, NoSecret) = NoSecret
      /\ Column(row.confirmed, row.confirmed, FALSE) = FALSE
      /\ Column(row.last, row.last, 0) = 0
      /\ Column(row.pending, row.pending, NoSecret) = NoSecret
  BY DEF Column
<1>3. QED  BY <1>1, <1>2 DEF Erases, Erased

LEMMA TalliedStep ==
  ASSUME IInv, ~Overlap, [Next]_vars
  PROVE  Tallied(row', spent', seen')
<1>0. TypeInv /\ \A h \in Handlers : Informed(h)
  BY DEF IInv, SerialInv, KnowsInv
<1>1. seen \subseteq seen'
  BY <1>0, Effects
<1>2. Tallied(row, spent, seen)
  BY DEF IInv, SerialInv
<1>3. row \in Row /\ \A c \in spent : c \in Codes
  BY <1>0 DEF TypeInv, RowInv, TablesInv
<1>4. CASE SameSetup
  BY <1>1, <1>2, <1>4 DEF SameSetup, Tallied
<1>5. ASSUME NEW h \in Handlers, Offers(h)
      PROVE  Tallied(row', spent', seen')
  <2>1. /\ row'.secret = row.secret /\ row'.confirmed = row.confirmed
        /\ row'.last = row.last /\ row'.pending = request[h].setup
    BY <1>3, <1>5, OfferEffect DEF Row
  <2>2. spent' = spent /\ \A c \in spent : c.secret # request[h].setup
    BY <1>5, OfferEffect DEF Offers
  <2>3. QED  BY <1>1, <1>2, <2>1, <2>2 DEF Tallied
<1>6. ASSUME NEW h \in Handlers, Accepts(h)
      PROVE  Tallied(row', spent', seen')
  <2> DEFINE code == request[h].code
  <2>1. /\ code \in Codes /\ code.secret \in seen /\ spent' = spent \cup {code}
    BY <1>6, AcceptEffect
  <2>2. code.step \in Int
    BY <2>1, BoundsAssumption DEF Codes, TimeSteps
  <2>3. CASE /\ code.secret = row.pending
             /\ row' = [row EXCEPT !.last = code.step, !.secret = row.pending,
                                   !.confirmed = TRUE, !.pending = NoSecret]
    <3>1. /\ row'.secret = code.secret /\ row'.last = code.step /\ row'.pending = NoSecret
      BY <1>3, <2>3 DEF Row
    <3>2. \A c \in spent' : c.secret \in seen' /\ c.secret # NoSecret
      BY <1>1, <1>2, <1>3, <2>1, BoundsAssumption
         DEF Tallied, Codes, Secrets, NoSecret
    <3>3. \A c \in spent' : c.secret = code.secret => c = code
      BY <1>2, <2>1, <2>3 DEF Tallied
    <3>4. QED  BY <2>1, <2>2, <3>1, <3>2, <3>3 DEF Tallied
  <2>4. CASE /\ code.secret = row.secret /\ row.confirmed
             /\ \A c \in spent : c.secret = row.secret => c.step < code.step
             /\ row' = [row EXCEPT !.last = code.step]
    <3>1. /\ row'.secret = code.secret /\ row'.last = code.step
          /\ row'.pending = row.pending
      BY <1>3, <2>4 DEF Row
    <3>2. \A c \in spent' : c.secret = code.secret => c.step <= code.step
      BY <1>3, <2>1, <2>4, <2>2, BoundsAssumption DEF Codes, TimeSteps
    <3>3. \E c \in spent : c.secret = row.secret
      BY <1>2, <2>4 DEF Tallied
    <3>4. code.secret # row.pending
      BY <1>2, <2>4, <3>3 DEF Tallied
    <3>5. QED  BY <1>1, <1>2, <2>1, <3>1, <3>2, <3>4 DEF Tallied
  <2>5. QED  BY <1>6, <2>3, <2>4, AcceptEffect
<1>7. ASSUME NEW h \in Handlers, Erases(h)
      PROVE  Tallied(row', spent', seen')
  <2>1. row'.confirmed = FALSE /\ row'.pending = NoSecret
    BY <1>0, <1>3, <1>7, EraseEffect DEF Row
  <2>2. spent' = spent /\ \A c \in spent : c.secret # NoSecret
    BY <1>3, <1>7, BoundsAssumption DEF Erases, Codes, Secrets, NoSecret
  <2>3. QED  BY <1>1, <1>2, <2>1, <2>2 DEF Tallied
<1>8. QED  BY <1>0, <1>4, <1>5, <1>6, <1>7, Effects

-----------------------------------------------------------------------------
(* Every step of a request keeps it informed.                              *)

Leads(h) == \E q : Set(h, q) /\ Knows(q, row', passkey', spent', admitted')

LEMMA EndLeads ==
  ASSUME NEW h \in Handlers, Set(h, Idle)
  PROVE  Leads(h)
<1>1. Idle.step = "idle"
  BY DEF Idle
<1>2. Knows(Idle, row', passkey', spent', admitted')
  BY <1>1, IdleKnows
<1>3. QED  BY <1>2 DEF Leads

LEMMA ReadKnows ==
  ASSUME NEW r, r.step \in ReadSteps \cup PasskeySteps,
         NEW columns, NEW key, NEW used, NEW admissions,
         r.step = "asking" => ~columns.required /\ ~columns.confirmed,
         /\ r.op \in {"open", "confirm"} /\ r.cookie # "full"
         /\ r.step \in {"ensuring", "verifying"}
         => \/ ~columns.confirmed
            \/ r.step = "verifying" /\ columns.pending = NoSecret
  PROVE  Knows(r, columns, key, used, admissions)
BY DEF Knows, SaveSteps, ReadSteps, PasskeySteps

LEMMA LoginLeads ==
  ASSUME IInv, NEW h \in Handlers, Authenticate(h) \/ HasPasskeys(h), Informed(h)
  PROVE  Leads(h)
<1> DEFINE r == request[h]
           q(step) == [r EXCEPT !.step = step, !.tries = 1]
<1>1. r \in Request /\ r.step \in {"authenticating", "asking"} /\ r.op = "login"
  BY FlightFacts DEF Authenticate, HasPasskeys, At, Fits
<1>2. CASE SignInPending(h)
  BY <1>2, EndLeads DEF SignInPending
<1>3. \A step : q(step).step = step /\ q(step).op = "login"
  BY <1>1 DEF Request
<1>4. CASE Authenticate(h) /\ ~RequiresTotp(row)
  <2>1. Set(h, q("asking")) /\ row' = row
    BY <1>4 DEF Authenticate, GoTo
  <2>2. ~row.required /\ ~row.confirmed
    BY <1>4, FlightFacts DEF RequiresTotp, HasConfirmedTotp
  <2> HIDE DEF q
  <2>3. Knows(q("asking"), row', passkey', spent', admitted')
    BY <1>3, <2>1, <2>2 DEF Knows, SaveSteps
  <2>4. QED  BY <2>1, <2>3 DEF Leads
<1>5. CASE HasPasskeys(h) /\ ~passkey
  <2>1. Set(h, q("completing")) /\ row' = row /\ passkey' = passkey
    BY <1>5 DEF HasPasskeys, GoTo
  <2>2. ~row.required /\ ~row.confirmed
    BY <1>5 DEF HasPasskeys, At, Informed, Knows
  <2> HIDE DEF q
  <2>3. Knows(q("completing"), row', passkey', spent', admitted')
    BY <1>3, <1>5, <2>1, <2>2 DEF Knows, SaveSteps
  <2>4. QED  BY <2>1, <2>3 DEF Leads
<1>6. QED  BY <1>2, <1>4, <1>5 DEF Authenticate, HasPasskeys

LEMMA PasskeyLeads ==
  ASSUME IInv, NEW h \in Handlers, CompleteAssertion(h) \/ CompleteRegistration(h)
  PROVE  Leads(h)
<1> DEFINE r == request[h]
           q == [r EXCEPT !.step = "completing", !.tries = 1]
<1>1. r \in Request /\ r.op \in {"assert", "register"}
  BY FlightFacts DEF CompleteAssertion, CompleteRegistration, At, Fits
<1>2. CASE Set(h, Idle)
  BY <1>2, EndLeads
<1>3. CASE GoTo(h, "completing") /\ passkey'
  <2>1. Set(h, q)
    BY <1>3 DEF GoTo
  <2>2. q.step = "completing" /\ q.op = r.op
    BY <1>1 DEF Request
  <2> HIDE DEF q
  <2>3. Knows(q, row', passkey', spent', admitted')
    BY <1>1, <1>3, <2>2 DEF Knows, SaveSteps
  <2>4. QED  BY <2>1, <2>3 DEF Leads
<1>4. QED  BY <1>2, <1>3 DEF CompleteAssertion, CompleteRegistration

LEMMA CheckSignInLeads ==
  ASSUME IInv, NEW h \in Handlers, CheckSignIn(h)
  PROVE  Leads(h)
<1> DEFINE r == request[h]
<1>1. r \in Request /\ row' = row
  BY FlightFacts DEF CheckSignIn
<1>2. CASE HasConfirmedTotp(row)
  BY <1>2, EndLeads DEF CheckSignIn
<1>3. CASE ~HasConfirmedTotp(row)
  <2> DEFINE q == [r EXCEPT !.step = "ensuring", !.tries = 1]
  <2>1. Set(h, q) /\ q.step = "ensuring"
    BY <1>1, <1>3 DEF CheckSignIn, GoTo, Request
  <2>2. ~row.confirmed
    BY <1>3, FlightFacts DEF HasConfirmedTotp
  <2> HIDE DEF q
  <2>3. Knows(q, row', passkey', spent', admitted')
    BY <1>1, <2>1, <2>2, ReadKnows DEF ReadSteps
  <2>4. QED  BY <2>1, <2>3 DEF Leads
<1>4. QED  BY <1>2, <1>3

(* The setup s is known to a request, the app still as the sign-in knew.   *)
LEMMA EnsuredLeads ==
  ASSUME IInv, NEW h \in Handlers, NEW s, Ensured(h, s), Informed(h),
         request[h].step \in {"ensuring", "offering"},
         row'.confirmed = row.confirmed
  PROVE  Leads(h)
<1> DEFINE r == request[h]
<1>1. r \in Request /\ r.op \in {"open", "confirm"}
  BY FlightFacts DEF Fits
<1>2. r.cookie = "full" \/ ~row.confirmed
  BY <1>1 DEF Informed, Knows
<1>3. CASE r.op = "open"
  BY <1>3, EndLeads DEF Ensured
<1>4. CASE r.op = "confirm"
  <2> DEFINE q == [r EXCEPT !.step = "verifying", !.setup = s, !.tries = 1]
  <2>1. Set(h, q)
    BY <1>4 DEF Ensured
  <2>2. q.step = "verifying" /\ q.cookie = r.cookie
    BY <1>1 DEF Request
  <2> HIDE DEF q
  <2>3. Knows(q, row', passkey', spent', admitted')
    BY <1>2, <2>2, ReadKnows DEF ReadSteps
  <2>4. QED  BY <2>1, <2>3 DEF Leads
<1>5. QED  BY <1>1, <1>3, <1>4

LEMMA EnsureTotpSetupLeads ==
  ASSUME IInv, NEW h \in Handlers, EnsureTotpSetup(h), Informed(h)
  PROVE  Leads(h)
<1> DEFINE r == request[h]
<1>1. /\ r \in Request /\ r.step = "ensuring" /\ UNCHANGED <<row, spent>>
      /\ r.op \in {"open", "confirm"}
  BY FlightFacts DEF EnsureTotpSetup, At, Fits
<1>2. CASE Ensured(h, row.pending)
  BY <1>1, <1>2, EnsuredLeads
<1>3. CASE /\ row.pending = NoSecret /\ generated' = generated + 1
           /\ Set(h, [r EXCEPT !.step = "offering", !.selected = row,
                               !.setup = generated'])
  <2> DEFINE q == [r EXCEPT !.step = "offering", !.selected = row, !.setup = generated']
  <2>1. /\ Set(h, q) /\ q.step = "offering" /\ q.selected = row /\ q.cookie = r.cookie
        /\ q.setup = generated'
    BY <1>1, <1>3 DEF Request
  <2>2. r.cookie = "full" \/ ~row.confirmed
    BY <1>1 DEF Informed, Knows
  <2>3. ASSUME ~Overlap
        PROVE  \A c \in spent : c.secret # generated'
    <3>1. \A c \in spent : c.secret \in 1..generated
      BY <2>3, FlightFacts DEF Tallied, IInv, TypeInv, TablesInv
    <3>2. generated \in Nat
      BY DEF IInv, TypeInv, TablesInv
    <3>3. QED  BY <1>3, <3>1, <3>2
  <2> HIDE DEF q
  <2>4. Knows(q, row', passkey', spent', admitted')
    BY <1>1, <1>3, <2>1, <2>2, <2>3 DEF Knows
  <2>5. QED  BY <2>1, <2>4 DEF Leads
<1>4. QED  BY <1>2, <1>3 DEF EnsureTotpSetup

LEMMA SaveOfferLeads ==
  ASSUME IInv, NEW h \in Handlers, SaveOffer(h), Informed(h)
  PROVE  Leads(h)
<1>1. /\ Ensured(h, request[h].setup) /\ request[h].step = "offering"
      /\ row' = [row EXCEPT !.pending = request[h].setup]
  BY DEF SaveOffer, Offered, At
<1>2. row'.confirmed = row.confirmed
  BY <1>1, FlightFacts DEF Row
<1>3. QED  BY <1>1, <1>2, EnsuredLeads

LEMMA VerifyTotpLeads ==
  ASSUME IInv, NEW h \in Handlers, VerifyTotp(h), Informed(h)
  PROVE  Leads(h)
<1> DEFINE r == request[h]
<1>1. /\ r \in Request /\ r.step = "verifying" /\ UNCHANGED <<row, spent>>
      /\ r.op \in {"verify", "confirm"}
  BY FlightFacts DEF VerifyTotp, At, Fits
<1>2. CASE ~Genuine(r, row)
  BY <1>2, EndLeads DEF VerifyTotp, Refuse
<1>3. CASE Genuine(r, row)
  <2> DEFINE q == [r EXCEPT !.step = "accepting", !.selected = row]
  <2>1. /\ Set(h, q) /\ q.step = "accepting" /\ q.selected = row /\ q.cookie = r.cookie
        /\ q.code = r.code /\ q.op = r.op
    BY <1>1, <1>3 DEF VerifyTotp, Request
  <2> HIDE DEF q
  <2>2. CASE r.op = "confirm"
    <3>1. r.code.secret = row.pending /\ row.pending # NoSecret
      BY <1>3, <2>2 DEF Genuine, VerifyCode
    <3>2. r.cookie = "full" \/ ~row.confirmed
      BY <1>1, <2>2, <3>1 DEF Informed, Knows
    <3>3. Knows(q, row', passkey', spent', admitted')
      BY <1>1, <2>1, <2>2, <3>1, <3>2 DEF Knows
    <3>4. QED  BY <2>1, <3>3 DEF Leads
  <2>3. CASE r.op = "verify"
    <3>1. r.code.secret = row.secret /\ r.code.step > row.last /\ row.confirmed
      BY <1>3, <2>3 DEF Genuine, VerifyCode, HasConfirmedTotp
    <3>2. Knows(q, row', passkey', spent', admitted')
      BY <1>1, <2>1, <2>3, <3>1 DEF Knows
    <3>3. QED  BY <2>1, <3>2 DEF Leads
  <2>4. QED  BY <1>1, <2>2, <2>3
<1>4. QED  BY <1>2, <1>3

LEMMA SaveAcceptedLeads ==
  ASSUME IInv, NEW h \in Handlers, SaveAccepted(h), Informed(h)
  PROVE  Leads(h)
<1> DEFINE r == request[h]
<1>1. /\ r \in Request /\ Accepts(h) /\ admitted' = admitted /\ row \in Row
  BY FlightFacts DEF SaveAccepted, Accepts
<1>2. CASE r.cookie = "pending"
  <2> DEFINE q == [r EXCEPT !.step = "completing", !.tries = 1]
  <2>1. /\ Set(h, q) /\ q.step = "completing" /\ q.op = r.op /\ q.code = r.code
    BY <1>1, <1>2 DEF SaveAccepted, GoTo, Request
  <2> HIDE DEF q
  <2>2. ~Overlap => r.code \notin admitted
    BY <1>1, AcceptEffect DEF IInv, TypeInv, TablesInv
  <2>3. /\ r.op \in {"verify", "confirm"} /\ r.code \in spent'
        /\ r.code.secret = row'.secret /\ row'.confirmed
    BY <1>1, AcceptColumns DEF Row
  <2>4. Knows(q, row', passkey', spent', admitted')
    BY <1>1, <2>1, <2>2, <2>3 DEF Knows, SaveSteps
  <2>5. QED  BY <2>1, <2>4 DEF Leads
<1>3. CASE r.cookie # "pending"
  BY <1>3, EndLeads DEF SaveAccepted
<1>4. QED  BY <1>2, <1>3

LEMMA SelectForRemovalLeads ==
  ASSUME IInv, NEW h \in Handlers, SelectForRemoval(h)
  PROVE  Leads(h)
<1> DEFINE q == [request[h] EXCEPT !.step = "erasing", !.selected = row]
<1>1. Set(h, q) /\ row' = row
  BY DEF SelectForRemoval
<1>2. q.step = "erasing" /\ q.selected = row
  BY FlightFacts DEF Request
<1> HIDE DEF q
<1>3. Knows(q, row', passkey', spent', admitted')
  BY <1>1, <1>2 DEF Knows
<1>4. QED  BY <1>1, <1>3 DEF Leads

LEMMA BreakLeads ==
  ASSUME IInv, NEW h \in Handlers, Break(h), Informed(h)
  PROVE  Leads(h)
<1> DEFINE r == request[h]
<1>1. r \in Request /\ r.step \in ReadSteps \cup SaveSteps /\ row \in Row
  BY FlightFacts DEF Break
<1>2. CASE GiveUp(h)
  BY <1>2, EndLeads DEF GiveUp, Refuse
<1>3. CASE Set(h, [r EXCEPT !.step = StartsOver(@), !.selected = NoSetup,
                            !.tries = @ + 1])
  <2> DEFINE q == [r EXCEPT !.step = StartsOver(@), !.selected = NoSetup, !.tries = @ + 1]
  <2>1. /\ Set(h, q) /\ q.step = StartsOver(r.step) /\ q.op = r.op /\ q.cookie = r.cookie
    BY <1>1, <1>3 DEF Request
  <2> HIDE DEF q
  <2>2. /\ q.step \in ReadSteps
        /\ q.step = "asking" => r.step = "asking"
        /\ q.step = "ensuring" => r.step \in {"ensuring", "offering"}
        /\ q.step = "verifying" => r.step \in {"verifying", "accepting"}
    BY <1>1, <2>1 DEF StartsOver, ReadSteps, SaveSteps
  <2>3. ASSUME q.op \in {"open", "confirm"}, q.cookie # "full",
               q.step \in {"ensuring", "verifying"}
        PROVE  \/ ~row'.confirmed
               \/ q.step = "verifying" /\ row'.pending = NoSecret
    <3>1. \/ ~row.confirmed
          \/ r.step = "verifying" /\ row.pending = NoSecret
      BY <2>1, <2>2, <2>3 DEF Informed, Knows
    <3>2. CASE UNCHANGED <<row, spent>>
      BY <2>2, <2>3, <3>1, <3>2
    <3>3. CASE At(h, "offering") /\ Offered(h)
      <4>1. row'.confirmed = row.confirmed
        BY <1>1, <3>3 DEF Offered, Row
      <4>2. QED  BY <3>1, <3>3, <4>1 DEF At
    <3>4. CASE Accepts(h)
      <4>1. q.step = "verifying" /\ r.op = "confirm"
        BY <2>1, <2>2, <2>3, <3>4, AcceptColumns DEF Accepts, At
      <4>2. row'.pending = NoSecret
        BY <1>1, <3>4, <4>1, AcceptColumns DEF Row
      <4>3. QED  BY <4>1, <4>2
    <3>5. CASE At(h, "erasing")
      BY <2>2, <2>3, <3>5 DEF At
    <3>6. QED  BY <3>2, <3>3, <3>4, <3>5 DEF Break, TakesEffect, Accepts
  <2>4. q.step = "asking" => ~row'.required /\ ~row'.confirmed
    BY <2>2 DEF Break, TakesEffect, At, Informed, Knows
  <2>5. Knows(q, row', passkey', spent', admitted')
    BY <2>2, <2>3, <2>4, ReadKnows
  <2>6. QED  BY <2>1, <2>5 DEF Leads
<1>4. QED  BY <1>2, <1>3 DEF Break

LEMMA RunLeads ==
  ASSUME IInv, NEW h \in Handlers, Run(h), Informed(h)
  PROVE  Leads(h)
<1>1. CASE SaveErased(h) \/ CompleteLocalSignIn(h)
  BY <1>1, EndLeads DEF SaveErased, CompleteLocalSignIn
<1>2. QED
  BY <1>1, LoginLeads, PasskeyLeads, CheckSignInLeads, EnsureTotpSetupLeads,
     SaveOfferLeads, VerifyTotpLeads, SaveAcceptedLeads, SelectForRemovalLeads,
     BreakLeads DEF Run

\* A step of a request, whatever it knows, changes its own locals.
LEMMA RunSets ==
  ASSUME NEW h \in Handlers, Run(h)
  PROVE  ~At(h, "idle") /\ \E q : Set(h, q)
<1>1. CASE Authenticate(h) \/ HasPasskeys(h)
  BY <1>1 DEF Authenticate, HasPasskeys, SignInPending, GoTo, At
<1>2. CASE CompleteAssertion(h) \/ CompleteRegistration(h) \/ CheckSignIn(h)
  BY <1>2 DEF CompleteAssertion, CompleteRegistration, CheckSignIn, GoTo, At
<1>3. CASE EnsureTotpSetup(h) \/ SaveOffer(h)
  BY <1>3 DEF EnsureTotpSetup, SaveOffer, Ensured, At
<1>4. CASE VerifyTotp(h) \/ SaveAccepted(h)
  BY <1>4 DEF VerifyTotp, SaveAccepted, Refuse, GoTo, At
<1>5. CASE SelectForRemoval(h) \/ SaveErased(h) \/ CompleteLocalSignIn(h)
  BY <1>5 DEF SelectForRemoval, SaveErased, CompleteLocalSignIn, At
<1>6. CASE Break(h)
  <2>1. ~At(h, "idle")
    BY <1>6 DEF Break, ReadSteps, SaveSteps, At
  <2>2. QED  BY <1>6, <2>1 DEF Break, GiveUp, Refuse
<1>7. QED  BY <1>1, <1>2, <1>3, <1>4, <1>5, <1>6 DEF Run

LEMMA RunSteady ==
  ASSUME NEW h \in Handlers, Run(h)
  PROVE  Steady(h) /\ overtaken \subseteq overtaken'
<1>1. CASE UNCHANGED <<row, passkey, spent, overtaken>>
  BY <1>1 DEF Steady
<1>2. CASE Overtakes({h}) /\ spent \subseteq spent'
  BY <1>2 DEF Steady, Overtakes
<1>3. CASE CompleteRegistration(h)
  BY <1>1, <1>2, <1>3 DEF CompleteRegistration
<1>4. CASE SaveOffer(h) \/ SaveAccepted(h) \/ SaveErased(h)
  BY <1>2, <1>4 DEF SaveOffer, SaveAccepted, SaveErased, Accept
<1>5. CASE Break(h)
  <2>1. CASE TakesEffect(h) /\ Overtakes({h})
    BY <1>2, <2>1 DEF TakesEffect, Accept
  <2>2. CASE UNCHANGED <<row, spent, overtaken>>
    BY <1>1, <1>5, <2>2 DEF Break
  <2>3. QED  BY <1>5, <2>1, <2>2 DEF Break
<1>6. QED
  BY <1>1, <1>3, <1>4, <1>5
     DEF Run, Authenticate, HasPasskeys, CompleteAssertion, CheckSignIn,
         EnsureTotpSetup, VerifyTotp, SelectForRemoval, CompleteLocalSignIn

\* When requests do not overlap, the one that moves is alone.
LEMMA RunAlone ==
  ASSUME IInv, NEW h \in Handlers, ~At(h, "idle")
  PROVE  Alone(h) \/ Overlap
BY DEF IInv, SerialInv, Solo, Alone

LEMMA RunKnows ==
  ASSUME IInv, NEW h \in Handlers, Run(h)
  PROVE  KnowsInv'
<1>1. ~At(h, "idle") /\ Steady(h) /\ overtaken \subseteq overtaken'
  BY RunSets, RunSteady
<1>2. Alone(h) \/ Overlap
  BY <1>1, RunAlone
<1>3. CASE h \in overtaken
  <2>1. PICK q : Set(h, q)
    BY RunSets
  <2>2. QED  BY <1>1, <1>2, <1>3, <2>1, KnowsOn
<1>4. CASE h \notin overtaken
  <2>1. Informed(h)
    BY <1>4 DEF IInv, KnowsInv
  <2>2. PICK q : Set(h, q) /\ Knows(q, row', passkey', spent', admitted')
    BY <2>1, RunLeads DEF Leads
  <2>3. QED  BY <1>1, <1>2, <2>2, KnowsOn
<1>5. QED  BY <1>3, <1>4

LEMMA StartKnows ==
  ASSUME IInv, NEW h \in Handlers, Start(h)
  PROVE  KnowsInv'
<1> DEFINE new(op, step, b, code) ==
             [Idle EXCEPT !.op = op, !.step = step, !.browser = b,
                          !.cookie = IF b = NoBrowser THEN "full" ELSE session[b],
                          !.code = code, !.tries = 1]
<1>1. ASSUME NEW op, NEW step \in ReadSteps \cup PasskeySteps, step # "asking",
             NEW b, NEW code, Begin(h, op, step, b, code),
             step = "ensuring" => b = NoBrowser \/ session[b] = "full",
             step = "verifying" => op = "verify"
      PROVE  KnowsInv'
  <2> DEFINE r == new(op, step, b, code)
  <2>1. /\ Set(h, r) /\ UNCHANGED <<row, passkey, spent>>
        /\ overtaken' = overtaken \ {h} /\ At(h, "idle")
        /\ Overlap \/ \A g \in Handlers : At(g, "idle")
    BY <1>1 DEF Begin
  <2>2. /\ r.op = op /\ r.step = step
        /\ r.cookie = IF b = NoBrowser THEN "full" ELSE session[b]
    BY DEF Idle
  <2> HIDE DEF new, r
  <2>3. Knows(r, row', passkey', spent', admitted')
    BY <1>1, <2>2, ReadKnows
  <2>4. Steady(h) /\ (Alone(h) \/ Overlap)
    BY <2>1 DEF Steady, Alone
  <2>5. QED  BY <2>1, <2>3, <2>4, KnowsOn
<1> HIDE DEF new
<1>2. \A b \in Browsers : session[b] \in {"none", "pending", "full"}
  BY DEF IInv, TypeInv, TablesInv
<1>3. ASSUME NEW b \in Browsers, session[b] # "none"
      PROVE  /\ FirstStep(b) \in ReadSteps
             /\ FirstStep(b) \notin {"verifying", "asking"}
             /\ (FirstStep(b) = "ensuring" => session[b] = "full")
  BY <1>2, <1>3 DEF FirstStep, ReadSteps
<1>4. CASE Login(h)
  BY <1>1, <1>4 DEF Login, ReadSteps
<1>5. CASE Totp(h)
  BY <1>1, <1>5 DEF Totp, ReadSteps
<1>6. CASE OpenTotpSetup(h)
  BY <1>1, <1>3, <1>6 DEF OpenTotpSetup
<1>7. CASE PostTotpSetup(h)
  BY <1>1, <1>3, <1>7 DEF PostTotpSetup
<1>8. CASE RemoveTotp(h)
  BY <1>1, <1>8 DEF RemoveTotp, ReadSteps
<1>9. CASE PasskeyAssertionVerify(h)
  BY <1>1, <1>9 DEF PasskeyAssertionVerify, PasskeySteps
<1>10. CASE PasskeyRegister(h)
  BY <1>1, <1>10 DEF PasskeyRegister, PasskeySteps
<1>11. QED  BY <1>4, <1>5, <1>6, <1>7, <1>8, <1>9, <1>10 DEF Start

\* What is no step of a request overtakes all, or changes nothing.
Besides ==
  \/ \E b \in Browsers : Logout(b)
  \/ Require \/ RemovePasskeys \/ Tick \/ Restart
  \/ UNCHANGED vars

LEMMA RestKnows ==
  ASSUME IInv, Besides
  PROVE  KnowsInv'
<1>1. CASE UNCHANGED <<request, row, passkey, spent, admitted, overtaken>>
  BY <1>1 DEF IInv, KnowsInv, Informed
<1>2. CASE Require \/ RemovePasskeys
  <2>1. request' = request /\ Overtakes({})
    BY <1>2 DEF Require, RemovePasskeys
  <2>2. \A h \in Handlers \ overtaken' : request'[h].step = "idle"
    BY <2>1 DEF Overtakes, At
  <2>3. QED  BY <2>2, IdleKnows DEF KnowsInv, Informed
<1>3. CASE Restart
  <2>1. \A h \in Handlers : request'[h].step = "idle"
    BY <1>3 DEF Restart, Idle
  <2>2. QED  BY <2>1, IdleKnows DEF KnowsInv, Informed
<1>4. QED  BY <1>1, <1>2, <1>3 DEF Besides, Logout, Tick, vars

\* Requests that do not overlap never overtake one another.
LEMMA SoloStep ==
  ASSUME IInv, ~Overlap, [Next]_vars
  PROVE  Solo' /\ overtaken' = {}
<1>1. Solo /\ overtaken = {} /\ request \in [Handlers -> Request]
  BY DEF IInv, SerialInv, TypeInv, RequestsInv
<1>2. ASSUME NEW h \in Handlers, NEW q, Set(h, q), Alone(h)
      PROVE  Solo'
  BY <1>1, <1>2 DEF Solo, Alone, Set, At
<1>3. ASSUME NEW h \in Handlers, Run(h)
      PROVE  Solo' /\ overtaken' = {}
  <2>1. ~At(h, "idle") /\ \E q : Set(h, q)
    BY <1>3, RunSets
  <2>2. Alone(h)
    BY <2>1, RunAlone
  <2>3. Overtakes({h}) => overtaken' = {}
    BY <1>1, <2>2 DEF Overtakes, Alone
  <2>4. overtaken' = overtaken \/ Overtakes({h})
    BY <1>3 DEF Run, Authenticate, HasPasskeys, CompleteAssertion, CheckSignIn,
                EnsureTotpSetup, VerifyTotp, SelectForRemoval, CompleteLocalSignIn,
                CompleteRegistration, SaveOffer, SaveAccepted, SaveErased, Break
  <2>5. QED  BY <1>1, <1>2, <2>1, <2>2, <2>3, <2>4
<1>4. ASSUME NEW h \in Handlers, Start(h)
      PROVE  Solo' /\ overtaken' = {}
  <2>1. PICK op, step, b, code : Begin(h, op, step, b, code)
    BY <1>4 DEF Start, Login, Totp, OpenTotpSetup, PostTotpSetup, RemoveTotp,
                PasskeyAssertionVerify, PasskeyRegister
  <2>2. Alone(h) /\ overtaken' = overtaken \ {h} /\ \E q : Set(h, q)
    BY <2>1 DEF Begin, Alone
  <2>3. QED  BY <1>1, <1>2, <2>2
<1>5. CASE Require \/ RemovePasskeys
  <2>1. request' = request /\ \A h \in Handlers : At(h, "idle")
    BY <1>5 DEF Require, RemovePasskeys
  <2>2. overtaken' = {}
    BY <1>1, <1>5, <2>1 DEF Require, RemovePasskeys, Overtakes
  <2>3. QED  BY <1>1, <2>1, <2>2 DEF Solo, At
<1>6. CASE Restart
  <2>1. \A h \in Handlers : request'[h].step = "idle"
    BY <1>6 DEF Restart, Idle
  <2>2. QED  BY <1>1, <1>6, <2>1 DEF Restart, Solo, At
<1>7. ASSUME UNCHANGED <<request, overtaken>>
      PROVE  Solo' /\ overtaken' = {}
  BY <1>1, <1>7 DEF Solo, At
<1>8. QED
  BY <1>3, <1>4, <1>5, <1>6, <1>7 DEF Next, Logout, Tick, vars

LEMMA IInvStep == IInv /\ [Next]_vars => IInv'
<1> SUFFICES ASSUME IInv, [Next]_vars PROVE IInv'
  OBVIOUS
<1>1. TypeInv' /\ ContextInv'
  BY TypeInvStep, ContextStep DEF IInv
<1>2. KnowsInv'
  <2>1. \/ \E h \in Handlers : Start(h) \/ Run(h)
        \/ Besides
    BY DEF Next, Besides
  <2>2. QED  BY <2>1, RunKnows, StartKnows, RestKnows
<1>3. ~Overlap => SerialInv'
  BY SoloStep, TalliedStep DEF SerialInv
<1>4. QED  BY <1>1, <1>2, <1>3 DEF IInv

LEMMA Invariance == Spec => []IInv
BY IInvInit, IInvStep, PTL DEF Spec

-----------------------------------------------------------------------------
(* What follows.                                                           *)

(* When requests do not overlap, the last step kept with the setup in      *)
(* force is the newest of the codes accepted with it                       *)
(* (DbLocalUserService.VerifyTotpCoreAsync), through changes of the app,   *)
(* resets and saves repeated after their answer was lost.                  *)
THEOREM LastStepNewest == ~Overlap => (Spec => []LastIsNewest)
<1> SUFFICES ASSUME ~Overlap PROVE Spec => []LastIsNewest
  OBVIOUS
<1>1. IInv => LastIsNewest
  BY DEF IInv, SerialInv, Tallied, LastIsNewest
<1>2. QED  BY <1>1, Invariance, PTL

SecondFactorStep ==
  \A b \in Browsers :
     session[b] # "full" /\ session'[b] = "full" =>
        \E h \in Handlers :
            Completes(h, b) /\ (h \in overtaken \/ Passed(request[h]))

(* However requests overlap, a browser is signed in only by a request that *)
(* passed the second factor of the account as it is at that moment: a code *)
(* of the setup in force that was accepted, a passkey, or neither where    *)
(* the account needs and has none; but for a request that was overtaken    *)
(* (AccountController.CompleteLocalSignInAsync).                           *)
THEOREM SecondFactorIsPassed == Spec => SecondFactorPassed
<1>1. ASSUME IInv, [Next]_vars
      PROVE  [SecondFactorStep]_vars
  <2> SUFFICES ASSUME NEW b \in Browsers, session[b] # "full", session'[b] = "full"
               PROVE  \E h \in Handlers :
                         Completes(h, b) /\ (h \in overtaken \/ Passed(request[h]))
    BY DEF SecondFactorStep
  <2>1. /\ session \in [Browsers -> {"none", "pending", "full"}]
        /\ request \in [Handlers -> Request]
    BY <1>1 DEF IInv, TypeInv, TablesInv, RequestsInv
  <2>2. PICK h \in Handlers : CompleteLocalSignIn(h)
    <3>1. \A h \in Handlers : SignInPending(h) => session'[b] # "full"
      BY <2>1 DEF SignInPending
    <3>2. \A d \in Browsers : Logout(d) => session'[b] # "full"
      BY <2>1 DEF Logout
    <3>3. session' # session
      OBVIOUS
    <3>4. QED
      BY <1>1, <3>1, <3>2, <3>3
         DEF Next, Start, Run, Login, Totp, OpenTotpSetup, PostTotpSetup, RemoveTotp,
             PasskeyAssertionVerify, PasskeyRegister, Begin, Authenticate, HasPasskeys,
             CompleteAssertion, CompleteRegistration, CheckSignIn, EnsureTotpSetup,
             SaveOffer, VerifyTotp, SaveAccepted, SelectForRemoval, SaveErased, Break,
             Require, RemovePasskeys, Tick, Restart, vars
  <2>3. At(h, "completing") /\ request[h].browser = b
    BY <2>1, <2>2 DEF CompleteLocalSignIn
  <2>4. request'[h].step = "idle"
    <3>1. request'[h] = Idle
      BY <2>1, <2>2 DEF CompleteLocalSignIn, Set
    <3>2. QED  BY <3>1 DEF Idle
  <2>5. h \in overtaken \/ Informed(h)
    BY <1>1 DEF IInv, KnowsInv
  <2>6. Informed(h) => Passed(request[h])
    BY <2>3 DEF Informed, Knows, Passed, At
  <2>7. QED  BY <2>3, <2>4, <2>5, <2>6 DEF Completes
<1>2. QED  BY <1>1, Invariance, PTL DEF Spec, SecondFactorPassed, SecondFactorStep

OwnerReplacesStep ==
  row.confirmed /\ row'.confirmed /\ row'.secret # row.secret =>
     \E h \in Handlers :
         At(h, "accepting") /\ (request[h].cookie = "full" \/ h \in overtaken)

(* However requests overlap, an app is replaced only by a request of a     *)
(* sign-in that was completed, or by one that was overtaken                *)
(* (AccountController.TotpSetup): a sign-in that waits for its second      *)
(* factor found no app, and none was confirmed since, but by itself.       *)
THEOREM ReplacedByOwner == Spec => OwnerReplaces
<1>1. ASSUME IInv, [Next]_vars
      PROVE  [OwnerReplacesStep]_vars
  <2> SUFFICES ASSUME row.confirmed, row'.confirmed, row'.secret # row.secret
               PROVE  \E h \in Handlers :
                         /\ At(h, "accepting")
                         /\ request[h].cookie = "full" \/ h \in overtaken
    BY DEF OwnerReplacesStep
  <2>1. TypeInv /\ row \in Row /\ row'.secret # NoSecret
    <3>1. TypeInv'
      BY <1>1, TypeInvStep DEF IInv
    <3>2. QED  BY <1>1, <3>1 DEF IInv, TypeInv, RowInv
  <2>2. PICK h \in Handlers : Accepts(h)
    <3>1. ~SameSetup
      BY DEF SameSetup
    <3>2. \A h \in Handlers : Offers(h) => row'.secret = row.secret
      BY <2>1 DEF Offers, Offered, Row
    <3>3. \A h \in Handlers : Erases(h) => row'.secret \in {row.secret, NoSecret}
      BY <2>1 DEF Erases, Erased, Row, Column
    <3>4. QED  BY <1>1, <2>1, <3>1, <3>2, <3>3, Effects
  <2>3. request[h].step = "accepting"
    BY <2>2 DEF Accepts, At
  <2>4. ASSUME Informed(h)
        PROVE  request[h].cookie = "full"
    <3>1. request[h].op = "confirm"
      BY <1>1, <2>1, <2>2, <2>4, AcceptColumns DEF Row
    <3>2. QED  BY <2>3, <2>4, <3>1 DEF Informed, Knows
  <2>5. QED  BY <1>1, <2>3, <2>4 DEF At, IInv, KnowsInv
<1>2. QED  BY <1>1, Invariance, PTL DEF Spec, OwnerReplaces, OwnerReplacesStep

(* When requests do not overlap, every statement that takes effect is one  *)
(* step of AuthenticatorLifecycle, and everything else a stutter: each     *)
(* operation of DbLocalUserService on the app has its effect once or not   *)
(* at all, however often DatabaseOperationRunner repeats it, and a code    *)
(* completes one sign-in at most.                                          *)
THEOREM ImplementsLifecycle == ~Overlap => (Spec => Lifecycle)
<1> SUFFICES ASSUME ~Overlap PROVE Spec => Lifecycle
  OBVIOUS
<1>1. Init => Promise!Init
  BY DEF Init, Promise!Init, NoSetup
<1>2. ASSUME IInv, [Next]_vars
      PROVE  [Promise!Next]_(Promise!vars)
  <2> USE <1>2
  <2>1. row \in Row /\ TypeInv
    BY DEF IInv, TypeInv, RowInv
  <2>2. CASE SameSetup /\ admitted' = admitted
    BY <2>2 DEF SameSetup, Promise!vars
  <2>3. ASSUME NEW h \in Handlers, Offers(h), admitted' = admitted
        PROVE  Promise!Next
    <3> DEFINE s == request[h].setup
    <3>1. /\ s \in Secrets /\ row.secret # s /\ \A c \in spent : c.secret # s
          /\ spent' = spent /\ row'.secret = row.secret /\ row'.pending = s
          /\ row.pending = NoSecret
      BY <2>1, <2>3, OfferEffect DEF Offers, Row
    <3>2. Promise!Offer(s)
      BY <2>3, <3>1 DEF Promise!Offer
    <3>3. QED  BY <3>1, <3>2 DEF Promise!Next
  <2>4. ASSUME NEW h \in Handlers, Accepts(h), admitted' = admitted
        PROVE  Promise!Next
    <3> DEFINE code == request[h].code
    <3>1. code \in Promise!Codes /\ spent' = spent \cup {code}
      BY <2>4, AcceptEffect DEF Codes, Promise!Codes
    <3>2. CASE request[h].op = "confirm"
      <4>1. /\ code.secret = row.pending /\ row'.secret = row.pending
            /\ row'.pending = NoSecret
        BY <2>1, <2>4, <3>2, AcceptEffect DEF Row
      <4>2. Promise!Confirm(code)
        BY <2>4, <3>1, <4>1 DEF Promise!Confirm
      <4>3. QED  BY <3>1, <4>2 DEF Promise!Next
    <3>3. CASE request[h].op # "confirm"
      <4>1. /\ code.secret = row.secret
            /\ \A c \in spent : c.secret = row.secret => c.step < code.step
            /\ row'.secret = row.secret /\ row'.pending = row.pending
        BY <2>1, <2>4, <3>3, AcceptEffect DEF Row
      <4>2. Promise!Newest(code)
        BY <4>1 DEF Promise!Newest
      <4>3. Promise!Accept(code)
        BY <2>4, <3>1, <4>1, <4>2 DEF Promise!Accept
      <4>4. QED  BY <3>1, <4>3 DEF Promise!Next
    <3>4. QED  BY <3>2, <3>3
  <2>5. ASSUME NEW h \in Handlers, Erases(h), admitted' = admitted
        PROVE  Promise!Next
    <3>0. Informed(h)
      BY DEF IInv, SerialInv, KnowsInv
    <3>1. row'.secret = NoSecret /\ row'.pending = NoSecret /\ spent' = spent
      BY <2>1, <2>5, <3>0, EraseEffect DEF Row, Erases
    <3>2. QED  BY <2>5, <3>1 DEF Promise!Next, Promise!Reset
  <2>6. ASSUME NEW h \in Handlers, CompleteLocalSignIn(h), SameSetup
        PROVE  [Promise!Next]_(Promise!vars)
    <3> DEFINE r == request[h]
    <3>1. r \in Request /\ Fits(r, generated, seen, spent)
          /\ Knows(r, row, passkey, spent, admitted) /\ r.step = "completing"
      BY <2>6, FlightFacts DEF CompleteLocalSignIn, At, IInv, SerialInv, KnowsInv, Informed
    <3>2. CASE admitted' = admitted
      BY <2>2, <2>6, <3>2
    <3>3. CASE admitted' # admitted
      <4>1. r.code # WrongCode /\ admitted' = admitted \cup {r.code}
        BY <2>6, <3>3 DEF CompleteLocalSignIn
      <4>2. r.code \in spent \ admitted /\ r.code.secret = row.secret
        BY <3>1, <4>1 DEF Fits, Knows
      <4>3. r.code \in Promise!Codes
        BY <4>2, <2>1 DEF TypeInv, TablesInv, Codes, Promise!Codes
      <4>4. Promise!SignIn(r.code)
        BY <2>6, <4>1, <4>2 DEF Promise!SignIn, SameSetup
      <4>5. QED  BY <4>3, <4>4 DEF Promise!Next
    <3>4. QED  BY <3>2, <3>3
  <2>7. \/ SameSetup /\ admitted' = admitted
        \/ \E h \in Handlers : /\ Offers(h) \/ Accepts(h) \/ Erases(h)
                               /\ admitted' = admitted
        \/ \E h \in Handlers : CompleteLocalSignIn(h) /\ SameSetup
    BY <2>1, Effects
  <2>8. QED  BY <2>2, <2>3, <2>4, <2>5, <2>6, <2>7
<1>3. QED  BY <1>1, <1>2, Invariance, PTL DEF Spec, Lifecycle, Promise!Spec
=============================================================================

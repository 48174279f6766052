------------------------------ MODULE Passkeys ------------------------------
(***************************************************************************)
(* Passkey ceremonies of one account (passkey.js, the passkey actions of   *)
(* AccountController, PasskeyService): a page fetches options, has the     *)
(* browser prompt for a passkey, and posts the response.  The options wait *)
(* in the TempData cookie, which all tabs of the browser share.  A request *)
(* sends it as it is when the request starts, and an answer that used      *)
(* TempData, be it only to look for a status message, writes it as a whole:*)
(* as it was sent, but for what the request read or added.                 *)
(***************************************************************************)
EXTENDS Base64Url, FiniteSets

CONSTANTS
    Tabs,
    Credentials,   \* the ids authenticators may make up, as bytes
    Counting,      \* those whose authenticator counts signatures
    Challenges,    \* the random challenges in the order of issue, as bytes
    MaxPasskeys,   \* MaxPasskeysPerUser, 10 in the code
    MaxCount       \* bound: signatures counted

ASSUME CredentialAssumption == Counting \subseteq Credentials
ASSUME BoundAssumption ==
    /\ IsFiniteSet(Tabs) /\ Tabs # {} /\ IsFiniteSet(Credentials)
    /\ MaxPasskeys \in Nat \ {0} /\ MaxCount \in Nat

None == <<>>       \* no challenge, no credential
Kinds == {"assertion", "registration"}

Issuable == {Challenges[i] : i \in DOMAIN Challenges}

ASSUME ChallengeAssumption ==
    /\ Challenges \in Seq(Issuable)
    /\ Issuable \cup Credentials \subseteq Seq(Byte) \ {None}

(* What the page makes of the bytes in the server's options, and the       *)
(* server of those in the page's response.                                 *)
ToPage == [b \in Issuable \cup Credentials |->
              Base64UrlToBuffer(EncodeToString(b))]
ToServer == [b \in Issuable \cup Credentials |->
                DecodeFromChars(BufferToBase64Url(b))]

VARIABLES
    tabs,      \* the page of each tab and the ceremony of its script
    auth,      \* the browser's ticket: the second factor is pending or done
    cookie,    \* TempData: the options of each kind that await a response
    stored,    \* the credentials of the account's LocalUserPasskey rows
    counter,   \* their SignatureCounter
    made,      \* the credentials that authenticators hold
    signed,    \* the signatures each has counted
    issued,    \* how many challenges were issued
    crossed    \* history: tabs whose ceremony met a change made elsewhere

vars == <<tabs, auth, cookie, stored, counter, made, signed, issued, crossed>>
authenticators == <<made, signed>>
rows == <<stored, counter>>

(* PasskeyLogin, PasskeySetup, Profile, and any page or form without a     *)
(* ceremony.                                                               *)
Pages == {"login", "setup", "profile", "other"}

\* Those that look for a status message in TempData.
Readers == {"profile", "other"}

Ticket(page) == IF page = "profile" THEN "signed in" ELSE "pending"

Kind(page) == IF page = "login" THEN "assertion" ELSE "registration"

Loaded(page) ==
    [page |-> page, step |-> "idle", disabled |-> FALSE, told |-> FALSE,
     leaving |-> FALSE, challenge |-> None, list |-> {}, credential |-> None,
     count |-> 0, loaded |-> 0, again |-> FALSE, answer |-> "none",
     sent |-> [auth |-> "pending", cookie |-> [k \in Kinds |-> None]]]

Step(t) == tabs[t].step

\* A ceremony is under way.
Busy(t) == Step(t) \notin {"idle", "loading"}

\* A change that other ceremonies under way can notice.
Crosses(own) == crossed' = crossed \cup {u \in Tabs \ own : Busy(u)}

\* The last step of t's ceremony.
Ends(t) == crossed' = crossed \ {t}
CrossesAndEnds(t) == crossed' = {u \in Tabs \ {t} : Busy(u)}

-----------------------------------------------------------------------------
(* The script.  A click disables the button until the ceremony is over.    *)

Going(t, step) == [tabs[t] EXCEPT !.step = step]

(* Mutant: the button stays disabled where an error is shown.              *)
ShowAndStay(t) ==
    [Loaded(tabs[t].page) EXCEPT !.told = TRUE, !.disabled = tabs[t].disabled]

ShowError(t) == [Loaded(tabs[t].page) EXCEPT !.told = TRUE]

Fails(t) == tabs' = [tabs EXCEPT ![t] = ShowError(t)]

\* What a request sends with it.
Sent == [auth |-> auth, cookie |-> cookie]

Click(t) ==
    /\ Step(t) = "idle" /\ tabs[t].page # "other"
    /\ ~tabs[t].disabled /\ ~tabs[t].leaving
    /\ issued + Cardinality({u \in Tabs : Step(u) = "options"})
       < Len(Challenges)
    /\ tabs' = [tabs EXCEPT ![t] = [Going(t, "options") EXCEPT
                    !.disabled = TRUE, !.told = FALSE, !.sent = Sent]]
    /\ UNCHANGED <<auth, cookie, rows, authenticators, issued, crossed>>

(* A passkey is added to the account that is signed in or about to be, and *)
(* used by one that is about to be, whichever page the request is from.    *)
Admitted(t) == tabs[t].page = "login" => tabs[t].sent.auth = "pending"

(* The request for options, the server's answer and its arrival, where the *)
(* script decodes it.                                                      *)
OptionsAnswered(t) ==
    /\ Step(t) = "options"
    /\ Admitted(t)
    /\ tabs[t].page = "login" => stored # {}
    /\ issued' = issued + 1
    /\ LET challenge == Challenges[issued + 1]
           list == {ToPage[c] : c \in stored}
       IN  /\ cookie' = [tabs[t].sent.cookie EXCEPT
                             ![Kind(tabs[t].page)] = challenge]
           /\ tabs' = [tabs EXCEPT ![t] =
                 IF Broken \in {ToPage[challenge]} \cup list
                 THEN [ShowError(t) EXCEPT !.answer = "unreadable"]
                 ELSE [Going(t, "prompt") EXCEPT !.challenge = ToPage[challenge],
                                                 !.list = list]]
    /\ Crosses({t})
    /\ UNCHANGED <<auth, rows, authenticators>>

(* No options: the ticket is not the page's any more, the account is       *)
(* paused, it has no passkeys left, or the network fails.                  *)
OptionsRefused(t) ==
    /\ Step(t) = "options"
    /\ Fails(t) /\ Ends(t)
    /\ UNCHANGED <<auth, cookie, rows, authenticators, issued>>

(* The prompt of an assertion offers the passkeys of the list that an      *)
(* authenticator at hand holds; a signature is counted.                    *)
Assert(t, c) ==
    /\ Step(t) = "prompt" /\ tabs[t].page = "login"
    /\ c \in tabs[t].list \cap made
    /\ c \in Counting => signed[c] < MaxCount
    /\ signed' = IF c \in Counting THEN [signed EXCEPT ![c] = @ + 1] ELSE signed
    /\ tabs' = [tabs EXCEPT ![t] = [Going(t, "sent") EXCEPT
                    !.list = {}, !.credential = c, !.count = signed'[c],
                    !.sent = Sent]]
    /\ UNCHANGED <<auth, cookie, rows, made, issued, crossed>>

\* The prompt of a registration makes a new passkey.
Attest(t, c) ==
    /\ Step(t) = "prompt" /\ tabs[t].page # "login"
    /\ c \notin made
    /\ made' = made \cup {c}
    /\ tabs' = [tabs EXCEPT ![t] = [Going(t, "sent") EXCEPT
                    !.list = {}, !.credential = c, !.sent = Sent]]
    /\ UNCHANGED <<auth, cookie, rows, signed, issued, crossed>>

(* Cancelled, timed out, or the authenticator is one that is listed.       *)
PromptRejected(t) ==
    /\ Step(t) = "prompt"
    /\ Fails(t) /\ Ends(t)
    /\ UNCHANGED <<auth, cookie, rows, authenticators, issued>>

-----------------------------------------------------------------------------
(* The server on the response.                                             *)

\* Of the ceremony, only what the request sent with it still matters.
Answers(t, kind) ==
    tabs' = [tabs EXCEPT ![t] = [Loaded(@.page) EXCEPT
                !.step = "answered", !.disabled = TRUE, !.answer = kind,
                !.sent = tabs[t].sent]]

ServerUnchanged ==
    UNCHANGED <<auth, cookie, rows, authenticators, issued, crossed>>

Options(t) == tabs[t].sent.cookie[Kind(tabs[t].page)]

\* The response as the server reads it.
RawId(t) == ToServer[tabs[t].credential]
ClientData(t) == ToServer[tabs[t].challenge]

TurnedAway(t) ==
    /\ Step(t) = "sent"
    /\ \/ ~Admitted(t) /\ Answers(t, "forbidden")
       \/ tabs[t].page = "login" /\ Answers(t, "paused")
    /\ ServerUnchanged

SessionExpired(t) ==
    /\ Step(t) = "sent"
    /\ Admitted(t)
    /\ Options(t) = None
    /\ Answers(t, "expired")
    /\ ServerUnchanged

Accepting(t, page) ==
    /\ Step(t) = "sent"
    /\ page = tabs[t].page
    /\ Admitted(t)
    /\ Options(t) # None

LoadPasskey(t) ==
    /\ Accepting(t, "login")
    /\ IF RawId(t) \in stored
       THEN tabs' = [tabs EXCEPT ![t] = [Going(t, "loaded") EXCEPT
                         !.loaded = counter[RawId(t)]]]
       ELSE Answers(t, "refused")
    /\ ServerUnchanged

CounterMoved(t) == tabs[t].count = 0 \/ tabs[t].count > tabs[t].loaded

Verified(t) == ClientData(t) = Options(t) /\ CounterMoved(t)

AssertionFails(t) ==
    /\ Step(t) = "loaded" /\ ~Verified(t)
    /\ Answers(t, "refused")
    /\ ServerUnchanged

(* Mutant: the server counts on its own.                                   *)
CompleteAssertionCounting(t) ==
    /\ Step(t) = "loaded" /\ Verified(t)
    /\ counter' = IF RawId(t) \in stored
                  THEN [counter EXCEPT ![RawId(t)] = tabs[t].loaded + 1]
                  ELSE counter
    /\ Answers(t, "accepted")
    /\ Crosses({t})
    /\ UNCHANGED <<auth, cookie, stored, authenticators, issued>>

(* The row may have been removed since it was loaded; the passkey is       *)
(* accepted then, too.                                                     *)
CompleteAssertion(t) ==
    /\ Step(t) = "loaded" /\ Verified(t)
    /\ counter' = IF RawId(t) \in stored
                  THEN [counter EXCEPT ![RawId(t)] = tabs[t].count]
                  ELSE counter
    /\ Answers(t, "accepted")
    /\ Crosses({t})
    /\ UNCHANGED <<auth, cookie, stored, authenticators, issued>>

VerifyAttestation(t) ==
    /\ \E page \in {"setup", "profile"} : Accepting(t, page)
    /\ IF ClientData(t) = Options(t) /\ RawId(t) \notin stored
       THEN tabs' = [tabs EXCEPT ![t] = Going(t, "verified")]
       ELSE Answers(t, "refused")
    /\ ServerUnchanged

(* Mutant: the limit is one too high.                                      *)
CountPasskeysLate(t) ==
    /\ Step(t) = "verified"
    /\ IF Cardinality(stored) > MaxPasskeys THEN Answers(t, "full")
       ELSE tabs' = [tabs EXCEPT ![t] = Going(t, "counted")]
    /\ ServerUnchanged

CountPasskeys(t) ==
    /\ Step(t) = "verified"
    /\ IF Cardinality(stored) >= MaxPasskeys THEN Answers(t, "full")
       ELSE tabs' = [tabs EXCEPT ![t] = Going(t, "counted")]
    /\ ServerUnchanged

(* When the answer to the insertion is lost, the runner counts and inserts *)
(* once more (how often is bounded by one here).                           *)
AddPasskey(t) ==
    /\ Step(t) = "counted" /\ RawId(t) \notin stored
    /\ stored' = stored \cup {RawId(t)}
    /\ counter' = [counter EXCEPT ![RawId(t)] = tabs[t].count]
    /\ \/ Answers(t, "accepted")
       \/ /\ ~tabs[t].again
          /\ tabs' = [tabs EXCEPT ![t] = [Going(t, "verified") EXCEPT
                                              !.again = TRUE]]
    /\ Crosses({t})
    /\ UNCHANGED <<auth, cookie, authenticators, issued>>

(* A statement fails: the database, or the unique index on CredentialId,   *)
(* which a repeated insertion meets.                                       *)
ServerFails(t) ==
    /\ \/ \E page \in Pages : Accepting(t, page)
       \/ Step(t) \in {"loaded", "verified", "counted"}
    /\ Answers(t, "error")
    /\ ServerUnchanged

-----------------------------------------------------------------------------
(* The answer arrives.  The options are gone with it once they were read:  *)
(* the whole cookie is written, without them.                              *)

ReadOptions(t) == tabs[t].answer \notin {"forbidden", "paused"}

Arrives(t) ==
    /\ cookie' = IF ReadOptions(t)
                 THEN [tabs[t].sent.cookie EXCEPT ![Kind(tabs[t].page)] = None]
                 ELSE cookie
    /\ auth' = IF tabs[t].answer = "accepted" /\ tabs[t].sent.auth = "pending"
               THEN "signed in" ELSE auth
    /\ IF ReadOptions(t) THEN CrossesAndEnds(t) ELSE Ends(t)
    /\ UNCHANGED <<rows, authenticators, issued>>

\* A redirect or a reload; the button is enabled while the page goes away.
Succeeds(t) ==
    /\ Step(t) = "answered" /\ tabs[t].answer = "accepted"
    /\ tabs' = [tabs EXCEPT ![t] = [Loaded(tabs[t].page) EXCEPT
                                        !.leaving = TRUE]]
    /\ Arrives(t)

Refused(t) ==
    /\ Step(t) = "answered" /\ tabs[t].answer # "accepted"
    /\ Fails(t)
    /\ Arrives(t)

\* The request does not reach the server, or its answer is lost.
ResponseLost(t) ==
    /\ Step(t) \in {"sent", "answered"}
    /\ Fails(t) /\ Ends(t)
    /\ UNCHANGED <<auth, cookie, rows, authenticators, issued>>

-----------------------------------------------------------------------------
(* Around the ceremonies.                                                  *)

\* The account and its factors as the server judges a page load by them.
CanOpen(page) ==
    /\ page # "other" => auth = Ticket(page)
    /\ page = "login" => stored # {}

(* A page is requested and served, and shown at once unless it reads       *)
(* TempData.                                                               *)
Open(t, page) ==
    /\ ~Busy(t) /\ CanOpen(page)
    /\ tabs' = [tabs EXCEPT ![t] =
                   IF page \notin Readers THEN Loaded(page)
                   ELSE [Loaded(page) EXCEPT !.step = "loading", !.sent = Sent]]
    /\ UNCHANGED <<auth, cookie, rows, authenticators, issued, crossed>>

(* The page arrives with the cookie as it was sent: options that were      *)
(* issued since are lost, and options that were used since are back.       *)
Shown(t) ==
    /\ Step(t) = "loading"
    /\ tabs' = [tabs EXCEPT ![t] = Loaded(tabs[t].page)]
    /\ cookie' = tabs[t].sent.cookie
    /\ IF cookie' = cookie THEN UNCHANGED crossed ELSE Crosses({})
    /\ UNCHANGED <<auth, rows, authenticators, issued>>

\* A sign-out and a password sign-in, which leaves the second factor open.
SignInAgain ==
    /\ auth = "signed in"
    /\ auth' = "pending"
    /\ Crosses({})
    /\ UNCHANGED <<tabs, cookie, rows, authenticators, issued>>

\* From the profile page, here or in another browser.
RemovePasskey(c) ==
    /\ c \in stored
    /\ stored' = stored \ {c}
    /\ Crosses({})
    /\ UNCHANGED <<tabs, auth, cookie, counter, authenticators, issued>>

\* By an administrator.
RemoveAllPasskeys ==
    /\ stored # {}
    /\ stored' = {}
    /\ Crosses({})
    /\ UNCHANGED <<tabs, auth, cookie, counter, authenticators, issued>>

Init ==
    /\ \E c \in Credentials : stored \in {{}, {c}}
    /\ made = stored
    /\ auth \in {"pending", "signed in"}
    /\ tabs \in [Tabs -> {Loaded(page) : page \in {p \in Pages : CanOpen(p)}}]
    /\ cookie = [k \in Kinds |-> None]
    /\ counter = [c \in Credentials |-> 0]
    /\ signed = [c \in Credentials |-> 0]
    /\ issued = 0
    /\ crossed = {}

Server(t) ==
    \/ TurnedAway(t) \/ SessionExpired(t)
    \/ LoadPasskey(t) \/ AssertionFails(t) \/ CompleteAssertion(t)
    \/ VerifyAttestation(t) \/ CountPasskeys(t) \/ AddPasskey(t)
    \/ ServerFails(t)

Network(t) ==
    \/ OptionsAnswered(t) \/ OptionsRefused(t)
    \/ Succeeds(t) \/ Refused(t) \/ ResponseLost(t)

Prompt(t) ==
    \/ \E c \in Credentials : Assert(t, c) \/ Attest(t, c)
    \/ PromptRejected(t)

Next ==
    \/ \E t \in Tabs : Click(t) \/ Server(t) \/ Network(t) \/ Prompt(t)
    \/ \E t \in Tabs, page \in Pages : Open(t, page)
    \/ \E t \in Tabs : Shown(t)
    \/ SignInAgain
    \/ \E c \in Credentials : RemovePasskey(c)
    \/ RemoveAllPasskeys

(* Requests are answered or fail, and a prompt times out.                  *)
Spec == /\ Init /\ [][Next]_vars
        /\ \A t \in Tabs : WF_vars(Server(t) \/ Network(t) \/ Prompt(t))

-----------------------------------------------------------------------------
(* Properties.                                                             *)

Cookies == [Kinds -> Issuable \cup {None}]

Tab == [page: Pages,
        step: {"idle", "loading", "options", "prompt", "sent", "loaded", "verified",
               "counted", "answered"},
        disabled: BOOLEAN, told: BOOLEAN, leaving: BOOLEAN,
        challenge: Issuable \cup {None}, list: SUBSET Credentials,
        credential: Credentials \cup {None},
        count: 0..MaxCount, loaded: 0..MaxCount, again: BOOLEAN,
        answer: {"none", "unreadable", "forbidden", "paused", "expired", "refused",
                 "full", "error", "accepted"},
        sent: [auth: {"pending", "signed in"}, cookie: Cookies]]

(* Type invariant.  What a page decodes are challenges and credentials     *)
(* again, only credentials that were made are stored, and the button is    *)
(* disabled exactly while a ceremony is under way.                         *)
TypeOK ==
    /\ tabs \in [Tabs -> Tab]
    /\ auth \in {"pending", "signed in"}
    /\ cookie \in Cookies
    /\ made \subseteq Credentials /\ stored \subseteq made
    /\ counter \in [Credentials -> 0..MaxCount]
    /\ signed \in [Credentials -> 0..MaxCount]
    /\ issued \in 0..Len(Challenges)
    /\ crossed \subseteq Tabs
    /\ \A t \in Tabs : tabs[t].disabled = Busy(t)

(* A genuine ceremony that nothing else crosses is not refused: the        *)
(* options are still there, the challenge and the credential the server    *)
(* reads are those it issued and stored, through every conversion on the   *)
(* way, and the counter has moved.  A refusal means that another tab's     *)
(* ceremony, a page load that wrote the cookie back as it had been, a new  *)
(* sign-in or a removal came between (passkey.js:2-20, 122-143,            *)
(* AccountController.cs:386-391, 899, PasskeyService.cs:241-276).          *)
GenuineAccepted ==
    \A t \in Tabs :
        tabs[t].answer \in {"unreadable", "refused", "expired"} => t \in crossed

(* The stored counter never runs ahead of the authenticator's, however the *)
(* responses of two sign-ins overlap, so no sign-in locks a passkey out    *)
(* for good (PasskeyService.cs:268, 289).                                  *)
CounterBehind == \A c \in Credentials : counter[c] <= signed[c]

(* The limit of passkeys is counted before the row is added, and           *)
(* registrations that overlap can exceed it, by no more than one for each  *)
(* tab but the first (PasskeyService.cs:189-197).                          *)
CapOvershoot ==
    Cardinality(stored) + Cardinality({t \in Tabs : Step(t) = "counted"})
        <= MaxPasskeys + Cardinality(Tabs) - 1

(* No ceremony goes on for ever, each leaves the button enabled, and at    *)
(* its end either an error is told or the page goes away (passkey.js:      *)
(* 144-155, 195-212).                                                      *)
CeremonySettles ==
    /\ \A t \in Tabs : []<>(~Busy(t) /\ ~tabs[t].disabled)
    /\ [][\A t \in Tabs : Busy(t) =>
              Busy(t)' \/ tabs'[t].told \/ tabs'[t].leaving]_vars
=============================================================================

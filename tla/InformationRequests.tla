------------------------ MODULE InformationRequests ------------------------
(***************************************************************************)
(* Information requests: partners who open and answer a request, requesters*)
(* who extend and revoke it, and the cleanup                               *)
(* (InformationRequestController, InformationRequestsController,           *)
(* DbInformationRequestStore, ExpiredShareCleanupService).                 *)
(*                                                                         *)
(* Partner and requester write the same row from copies of their own: the  *)
(* requester's extension carries the response he read, the partner's       *)
(* response the expiration he read.                                        *)
(***************************************************************************)
EXTENDS RowStore

CONSTANTS
    Requests,       \* ids of the information requests that may ever exist
    Handlers,       \* web requests in flight at one time
    NoRequest,      \* the request of a handler that serves none
    Payloads,       \* encrypted responses; two encryptions never agree
    ClientPayloads, \* those encrypted in the partner's browser
    NoPayload,      \* the empty response
    Lifetimes,      \* hours a request may be created for
    Extensions,     \* hours it may be extended by, 1..168 in the code
    Limits,         \* values of ShareAccessFailedAttemptLimit an admin sets
    PauseLengths,   \* values of ShareAccessPauseMinutes an admin sets
    MaxTime,        \* bound: the clock stops here, no request outlives it
    MaxAttempts,    \* DatabaseResilienceOptions.MaxAttempts
    MaxRestarts,    \* bound: how often the application restarts
    Overlap         \* FALSE: operations on one request never overlap

ASSUME RequestsAssumption == NoRequest \notin Requests
ASSUME PayloadsAssumption ==
    NoPayload \notin Payloads /\ ClientPayloads \subseteq Payloads
ASSUME TimesAssumption ==
    MaxTime \in Nat /\ Lifetimes \subseteq Nat \ {0} /\ Extensions \subseteq Nat \ {0}
ASSUME LimitsAssumption == Limits \subseteq Int /\ PauseLengths \subseteq Int
ASSUME BoundsAssumption == MaxAttempts \in Nat \ {0} /\ MaxRestarts \in Nat
ASSUME OverlapAssumption == Overlap \in BOOLEAN

VARIABLES
    row,        \* row[r]: the InformationRequests row of r, or NoRow
    request,    \* request[h]: the locals of the handler h is running
    cleanup,    \* the locals of ExpiredShareCleanupService
    now,        \* ApplicationTime.UtcNow
    restarts,   \* restarts so far
    created,    \* the ids in use so far
    stored      \* history: stored[r]: the responses the row of r ever held

vars == <<row, request, cleanup, now, restarts, created, stored>>

-----------------------------------------------------------------------------
(* Rows.  EncryptedPartnerResponse with LastSubmittedAtUtc, which changes  *)
(* with it, is payload; ResponseEncryptionMode is a column of its own.     *)

Modes == {"server", "client"}

Row == [expires: Nat, payload: Payloads \cup {NoPayload}, mode: Modes,
        attempts: Nat, paused: Nat]

NoRow == [expires |-> 0, payload |-> NoPayload, mode |-> "server",
          attempts |-> 0, paused |-> 0]

Merge(old, selected, copy) ==
    [expires  |-> Column(old.expires, selected.expires, copy.expires),
     payload  |-> Column(old.payload, selected.payload, copy.payload),
     mode     |-> Column(old.mode, selected.mode, copy.mode),
     attempts |-> Column(old.attempts, selected.attempts, copy.attempts),
     paused   |-> Column(old.paused, selected.paused, copy.paused)]

(* Mutant: only the columns that show in the list are saved back.          *)
SavedPartly(old, selected, copy) ==
    IF selected = NoRow THEN copy
    ELSE IF old = NoRow THEN NoRow
    ELSE [old EXCEPT !.expires = copy.expires, !.payload = copy.payload,
                     !.attempts = copy.attempts, !.paused = copy.paused]

Saved(old, selected, copy) ==
    IF selected = NoRow THEN copy
    ELSE IF old = NoRow THEN NoRow
    ELSE Merge(old, selected, copy)

(* Mutant: a lapsed pause that starts the row over.                        *)
WithoutFailuresAnew(r) == [NoRow EXCEPT !.expires = r.expires]

WithoutFailures(r) == [r EXCEPT !.attempts = 0, !.paused = 0]

WithFailure(r, limit, minutes) ==
    LET attempts == r.attempts + 1
    IN  [r EXCEPT !.attempts = attempts,
                  !.paused = IF attempts >= AtLeast1(limit)
                             THEN now + AtLeast1(minutes) ELSE @]

(* Mutant: the mode is that of the first response, for ever.               *)
WithResponseOnly(r, p) == [WithoutFailures(r) EXCEPT !.payload = p]

WithResponse(r, p) ==
    [WithoutFailures(r) EXCEPT
        !.payload = p, !.mode = IF p \in ClientPayloads THEN "client" ELSE "server"]

Later(a, b) == IF a > b THEN a ELSE b

(* Mutant: counted from now, whatever is left.                             *)
WithExtensionFromNow(r, hours) == [r EXCEPT !.expires = now + hours]

WithExtension(r, hours) == [r EXCEPT !.expires = Later(@, now) + hours]

-----------------------------------------------------------------------------
Steps == {"idle", "checking", "deleting", "verifying", "configuring",
          "answering", "extending", "selecting", "saving", "revoking"}
Goals == {"none", "lapse", "failure", "validated", "response", "extension"}

Request == [step: Steps, id: Requests \cup {NoRequest}, copy: Row,
            selected: Row, goal: Goals, tries: Nat]

Idle == [step |-> "idle", id |-> NoRequest, copy |-> NoRow,
         selected |-> NoRow, goal |-> "none", tries |-> 0]

At(h, step) == request[h].step = step

Set(h, r) == request' = [request EXCEPT ![h] = r]

Finish(h) == Set(h, Idle)

Save(h, goal, copy) ==
    Set(h, [request[h] EXCEPT !.step = "selecting", !.goal = goal,
                              !.copy = copy, !.tries = 1])

Free(r) == \A h \in Handlers : request[h].id # r

StoreUnchanged == UNCHANGED <<row, created, stored>>

EnvUnchanged == UNCHANGED <<cleanup, now, restarts>>

(* Reads the row; when it is missing nothing changes.                      *)
Read(h, r, step) ==
    /\ At(h, "idle") /\ row[r] # NoRow
    /\ Overlap \/ Free(r)
    /\ Set(h, [Idle EXCEPT !.step = step, !.id = r, !.copy = row[r]])
    /\ StoreUnchanged /\ EnvUnchanged

-----------------------------------------------------------------------------
(* InformationRequestsController.Create: the id is new.                    *)
Create(r) ==
    /\ r \notin created
    /\ \E hours \in Lifetimes :
          /\ now + hours <= MaxTime
          /\ row' = [row EXCEPT ![r] = [NoRow EXCEPT !.expires = now + hours]]
    /\ created' = created \cup {r}
    /\ UNCHANGED <<request, stored>> /\ EnvUnchanged

-----------------------------------------------------------------------------
(* ValidatePartnerAccessAsync, called by Access and by Update: which of    *)
(* the two it is, and what the form contains, is chosen where it matters.  *)

PartnerRead(h, r) == Read(h, r, "checking")

PartnerExpired(h) ==
    /\ At(h, "checking") /\ request[h].copy.expires <= now
    /\ Set(h, [request[h] EXCEPT !.step = "deleting", !.tries = 1])
    /\ StoreUnchanged /\ EnvUnchanged

InTime(h) == At(h, "checking") /\ request[h].copy.expires > now

(* Not signed in, signed in as somebody else, no email, or a pause.        *)
PartnerRefused(h) ==
    /\ InTime(h)
    /\ Finish(h)
    /\ StoreUnchanged /\ EnvUnchanged

PartnerLapsed(h) ==
    /\ InTime(h)
    /\ request[h].copy.paused # 0 /\ request[h].copy.paused <= now
    /\ Save(h, "lapse", WithoutFailures(request[h].copy))
    /\ StoreUnchanged /\ EnvUnchanged

PartnerOpen(h) ==
    /\ InTime(h) /\ request[h].copy.paused = 0
    /\ Set(h, [request[h] EXCEPT !.step = "verifying"])
    /\ StoreUnchanged /\ EnvUnchanged

(* Another email, or a malformed or wrong code.                            *)
VerifyWrong(h) ==
    /\ At(h, "verifying")
    /\ Set(h, [request[h] EXCEPT !.step = "configuring"])
    /\ StoreUnchanged /\ EnvUnchanged

VerifyRight(h) ==
    /\ At(h, "verifying")
    /\ Save(h, "validated", WithoutFailures(request[h].copy))
    /\ StoreUnchanged /\ EnvUnchanged

RecordFailure(h) ==
    /\ At(h, "configuring")
    /\ \E limit \in Limits, minutes \in PauseLengths :
          Save(h, "failure", WithFailure(request[h].copy, limit, minutes))
    /\ StoreUnchanged /\ EnvUnchanged

ConfigurationFails(h) ==
    /\ At(h, "configuring")
    /\ Finish(h)
    /\ StoreUnchanged /\ EnvUnchanged

(* Access shows the response page; Update may find the payload invalid.    *)
Show(h) ==
    /\ At(h, "answering")
    /\ Finish(h)
    /\ StoreUnchanged /\ EnvUnchanged

(* A newly encrypted response is unlike any other.                         *)
Fresh(p) ==
    /\ \A r \in Requests : p \notin stored[r]
    /\ \A h \in Handlers : request[h].copy.payload # p

Update(h, p) ==
    /\ At(h, "answering") /\ Fresh(p)
    /\ Save(h, "response", WithResponse(request[h].copy, p))
    /\ StoreUnchanged /\ EnvUnchanged

-----------------------------------------------------------------------------
(* InformationRequestsController.Extend and Revoke.                        *)

ExtendRead(h, r) == Read(h, r, "extending")

Extend(h, hours) ==
    /\ At(h, "extending")
    /\ Later(request[h].copy.expires, now) + hours <= MaxTime
    /\ Save(h, "extension", WithExtension(request[h].copy, hours))
    /\ StoreUnchanged /\ EnvUnchanged

(* The user does not own the request (or would exceed the bound).          *)
ExtendRefused(h) ==
    /\ At(h, "extending")
    /\ Finish(h)
    /\ StoreUnchanged /\ EnvUnchanged

RevokeRead(h, r) ==
    /\ At(h, "idle") /\ row[r] # NoRow
    /\ Overlap \/ Free(r)
    /\ Set(h, [Idle EXCEPT !.step = "revoking", !.id = r, !.tries = 1])
    /\ StoreUnchanged /\ EnvUnchanged

-----------------------------------------------------------------------------
(* UpsertInformationRequestAsync under DatabaseOperationRunner.            *)

UpsertSelect(h) ==
    /\ At(h, "selecting")
    /\ Set(h, [request[h] EXCEPT !.step = "saving",
                                 !.selected = row[request[h].id]])
    /\ StoreUnchanged /\ EnvUnchanged

Savable(h) ==
    LET r == request[h]
    IN  At(h, "saving") /\ Saves(NoRow, row[r.id], r.selected, r.copy)

Write(h) ==
    LET r == request[h]
        new == Saved(row[r.id], r.selected, r.copy)
    IN  /\ row' = [row EXCEPT ![r.id] = new]
        /\ stored' = [stored EXCEPT ![r.id] = @ \cup ({new.payload} \ {NoPayload})]

AfterUpsert(h) ==
    LET after == [request[h] EXCEPT !.goal = "none", !.selected = NoRow,
                                    !.tries = 0]
    IN  CASE request[h].goal = "lapse"     -> [after EXCEPT !.step = "verifying"]
          [] request[h].goal = "validated" -> [after EXCEPT !.step = "answering"]
          [] OTHER                         -> Idle

UpsertSucceeds(h) ==
    /\ Savable(h)
    /\ Write(h)
    /\ Set(h, AfterUpsert(h))
    /\ UNCHANGED created /\ EnvUnchanged

UpsertConflicts(h) ==
    /\ At(h, "saving") /\ ~Savable(h)
    /\ Finish(h)
    /\ StoreUnchanged /\ EnvUnchanged

(* A transient failure, possibly after the commit.                         *)
Retry(h, step) ==
    /\ request[h].tries < MaxAttempts
    /\ Set(h, [request[h] EXCEPT !.step = step, !.tries = @ + 1,
                                 !.selected = NoRow])

UpsertBreaks(h) ==
    /\ At(h, "selecting") \/ At(h, "saving")
    /\ UNCHANGED <<row, stored>> \/ (Savable(h) /\ Write(h))
    /\ Retry(h, "selecting") \/ Finish(h)
    /\ UNCHANGED created /\ EnvUnchanged

-----------------------------------------------------------------------------
(* DeleteInformationRequestAsync: on an expired link, and by Revoke.       *)

Deleting(h) == At(h, "deleting") \/ At(h, "revoking")

Deletes(h) == row' = [row EXCEPT ![request[h].id] = NoRow]

DeleteSucceeds(h) ==
    /\ Deleting(h)
    /\ Deletes(h)
    /\ Finish(h)
    /\ UNCHANGED <<created, stored>> /\ EnvUnchanged

DeleteBreaks(h) ==
    /\ Deleting(h)
    /\ UNCHANGED row \/ Deletes(h)
    /\ Retry(h, request[h].step) \/ Finish(h)
    /\ UNCHANGED <<created, stored>> /\ EnvUnchanged

-----------------------------------------------------------------------------
(* ExpiredShareCleanupService: a pass deletes the expired shares first;    *)
(* when that fails it never comes to the information requests.             *)

Cleanup == [step: {"waiting", "shares", "requests", "reporting"}, asOf: Nat]

Waiting == [step |-> "waiting", asOf |-> 0]

(* Mutant: spares the requests that are paused.                            *)
ExpiredRowsUnpaused ==
    {r \in Requests : /\ row[r] # NoRow /\ row[r].expires <= cleanup.asOf
                      /\ row[r].paused = 0}

(* Mutant: deletes what expires next, too.                                 *)
ExpiredRowsSoon ==
    {r \in Requests : row[r] # NoRow /\ row[r].expires <= cleanup.asOf + 1}

ExpiredRows ==
    {r \in Requests : row[r] # NoRow /\ row[r].expires <= cleanup.asOf}

CleanupUnchanged == UNCHANGED <<request, now, restarts, created, stored>>

CleanupStart ==
    /\ cleanup.step = "waiting"
    /\ cleanup' = [step |-> "shares", asOf |-> now]
    /\ UNCHANGED row /\ CleanupUnchanged

CleanupShares ==
    /\ cleanup.step = "shares"
    /\ cleanup' = [cleanup EXCEPT !.step = "requests"]
    /\ UNCHANGED row /\ CleanupUnchanged

CleanupRemoves ==
    /\ cleanup.step = "requests"
    /\ Overlap \/ \A r \in ExpiredRows : Free(r)
    /\ row' = [r \in Requests |-> IF r \in ExpiredRows THEN NoRow ELSE row[r]]

CleanupDelete ==
    /\ CleanupRemoves
    /\ cleanup' = IF ExpiredRows = {} THEN Waiting
                  ELSE [cleanup EXCEPT !.step = "reporting"]
    /\ CleanupUnchanged

CleanupReport ==
    /\ cleanup.step = "reporting"
    /\ cleanup' = Waiting
    /\ UNCHANGED row /\ CleanupUnchanged

(* The delete is repeated, or the exception is logged and the pass given   *)
(* up; a failure of the shares' part ends the pass.                        *)
CleanupBreaks ==
    /\ cleanup.step \in {"shares", "requests"}
    /\ CleanupRemoves \/ UNCHANGED row
    /\ cleanup' = Waiting \/ UNCHANGED cleanup
    /\ CleanupUnchanged

-----------------------------------------------------------------------------
Tick ==
    /\ now < MaxTime
    /\ now' = now + 1
    /\ UNCHANGED <<row, request, cleanup, restarts, created, stored>>

Restart ==
    /\ restarts < MaxRestarts
    /\ restarts' = restarts + 1
    /\ request' = [h \in Handlers |-> Idle]
    /\ cleanup' = Waiting
    /\ UNCHANGED now /\ StoreUnchanged

Init ==
    /\ row = [r \in Requests |-> NoRow]
    /\ request = [h \in Handlers |-> Idle]
    /\ cleanup = Waiting
    /\ now = 1
    /\ restarts = 0
    /\ created = {}
    /\ stored = [r \in Requests |-> {}]

Partner(h) ==
    \/ PartnerExpired(h) \/ PartnerRefused(h) \/ PartnerLapsed(h)
    \/ PartnerOpen(h) \/ VerifyWrong(h) \/ VerifyRight(h)
    \/ RecordFailure(h) \/ ConfigurationFails(h) \/ Show(h)
    \/ \E p \in Payloads : Update(h, p)

Requester(h) == ExtendRefused(h) \/ \E hours \in Extensions : Extend(h, hours)

Store(h) ==
    \/ UpsertSelect(h) \/ UpsertSucceeds(h) \/ UpsertConflicts(h)
    \/ UpsertBreaks(h) \/ DeleteSucceeds(h) \/ DeleteBreaks(h)

CleanupPass ==
    \/ CleanupStart \/ CleanupShares \/ CleanupDelete \/ CleanupReport
    \/ CleanupBreaks

Next ==
    \/ \E r \in Requests : Create(r)
    \/ \E h \in Handlers, r \in Requests :
          PartnerRead(h, r) \/ ExtendRead(h, r) \/ RevokeRead(h, r)
    \/ \E h \in Handlers : Partner(h) \/ Requester(h) \/ Store(h)
    \/ CleanupPass
    \/ Tick
    \/ Restart

Spec == Init /\ [][Next]_vars

(* As for shares; the part of a pass before the requests succeeds in the   *)
(* end, too.                                                               *)
FairSpec ==
    /\ Spec
    /\ WF_vars(CleanupStart)
    /\ SF_vars(CleanupShares)
    /\ SF_vars(CleanupDelete)
    /\ WF_vars(CleanupReport)

-----------------------------------------------------------------------------
(* Properties.                                                             *)

(* Type invariant of the table and of the locals of its users.             *)
TypeOK ==
    /\ row \in [Requests -> Row]
    /\ request \in [Handlers -> Request]
    /\ \A h \in Handlers : At(h, "idle") \/ request[h].id \in Requests
    /\ cleanup \in Cleanup
    /\ now \in Nat
    /\ restarts \in Nat
    /\ created \subseteq Requests
    /\ stored \in [Requests -> SUBSET Payloads]

(* "Your submitted information has been updated"                           *)
(* (Views/InformationRequest/Submitted.cshtml:15): a response gives way    *)
(* only to one that was never stored before, not to an earlier one or to   *)
(* none, as long as its request exists.                                    *)
ResponseKept ==
    [][\A r \in Requests :
          row[r].payload # NoPayload /\ row'[r] # NoRow
              => \/ row'[r].payload = row[r].payload
                 \/ row'[r].payload \in Payloads \ stored[r]]_vars

(* "Removes expired information requests and, when a partner opens an      *)
(* expired link, deletes it on access" (FEATURES.md:43): a request whose   *)
(* expiration lies ahead is deleted by a revocation, or by a partner's     *)
(* request that found the link expired and whose copy has been overtaken   *)
(* since by an extension (InformationRequestController.cs:212-216); by     *)
(* nothing else, and not by the cleanup, however they overlap.             *)
OnlyExpiredDeleted ==
    [][\A r \in Requests :
          row[r].expires > now /\ row'[r] = NoRow
              => \E h \in Handlers :
                    /\ request[h].id = r
                    /\ \/ At(h, "revoking")
                       \/ /\ At(h, "deleting")
                          /\ request[h].copy.expires # row[r].expires]_vars

(* Every request that has expired, and is not extended, is deleted in the  *)
(* end, although passes fail, shares come first and old copies are         *)
(* written back (ExpiredShareCleanupService.cs:34-57).                     *)
ExpiredNeverLingers ==
    \A r \in Requests : []<>(row[r] = NoRow \/ row[r].expires > now)

(* InformationRequests implements RequestLifecycle when operations on one  *)
(* request do not overlap (InformationRequestController.cs:118-174,        *)
(* InformationRequestsController.cs:238-313).  So nothing takes back time  *)
(* from a request that exists, and its mode always tells how its response  *)
(* was encrypted.                                                          *)
Phase(r) == IF row[r] # NoRow THEN "live"
            ELSE IF r \in created THEN "gone" ELSE "new"

Atomic == INSTANCE RequestLifecycle WITH
    item <- [r \in Requests |-> [phase |-> Phase(r), expires |-> row[r].expires,
                payload |-> row[r].payload, mode |-> row[r].mode]],
    clock <- now

Lifecycle == Atomic!Spec
=============================================================================

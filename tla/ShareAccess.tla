---------------------------- MODULE ShareAccess ----------------------------
(***************************************************************************)
(* The life of secure shares in the database, and the web requests and the *)
(* cleanup service that work on them at the same time                      *)
(* (ShareController, AdminController, DbShareStore,                        *)
(* ExpiredShareCleanupService).                                            *)
(*                                                                         *)
(* A web request reads a share once, decides on that copy, and saves the   *)
(* copy later.  DbShareStore.UpsertShareAsync saves in two statements that *)
(* no transaction or concurrency token joins: it selects the stored row,   *)
(* then inserts the copy when there was none, or updates the columns whose *)
(* value differs from the selected row.  Everything here that is hard      *)
(* comes from other requests, the cleanup and failures between those       *)
(* steps.                                                                  *)
(***************************************************************************)
EXTENDS RowStore

CONSTANTS
    Shares,         \* ids of the shares that may ever be created
    OidcShares,     \* those created with RequireOidcLogin
    Handlers,       \* web requests in flight at one time
    NoShare,        \* the share of a handler that serves no request
    Lifetimes,      \* hours a share may be created for
    Limits,         \* values of ShareAccessFailedAttemptLimit an admin sets
    PauseLengths,   \* values of ShareAccessPauseMinutes an admin sets
    MaxTime,        \* bound: the clock stops here, no share outlives it
    MaxAttempts,    \* DatabaseResilienceOptions.MaxAttempts
    MaxRestarts,    \* bound: how often the application restarts
    MaxCounted,     \* bound: the history variable counted stops here
    Overlap         \* FALSE: operations on one share never overlap

ASSUME SharesAssumption == NoShare \notin Shares /\ OidcShares \subseteq Shares
ASSUME TimesAssumption  == MaxTime \in Nat /\ Lifetimes \subseteq Nat \ {0}
ASSUME LimitsAssumption == Limits \subseteq Int /\ PauseLengths \subseteq Int
ASSUME AttemptsAssumption == MaxAttempts \in Nat \ {0}
ASSUME BoundsAssumption == MaxRestarts \in Nat /\ MaxCounted \in Nat
ASSUME OverlapAssumption == Overlap \in BOOLEAN

VARIABLES
    row,        \* row[s]: the SecureShares row of share s, or NoRow
    request,    \* request[h]: the locals of the handler h is running
    cleanup,    \* the locals of ExpiredShareCleanupService
    now,        \* ApplicationTime.UtcNow
    restarts,   \* restarts so far
    expiry,     \* history: the expiry share s was created with, 0 before
    removed,    \* history: shares whose removal somebody was told of
    counted     \* history: failed attempts answered since the last reset

vars == <<row, request, cleanup, now, restarts, expiry, removed, counted>>

-----------------------------------------------------------------------------
(* Rows.  The columns that never change after creation (recipient, code    *)
(* hash, token, secret) are left out; 0 stands for a null time.            *)

Row == [expires: Nat, attempts: Nat, paused: Nat, accessed: Nat]

NoRow == [expires |-> 0, attempts |-> 0, paused |-> 0, accessed |-> 0]

Merge(stored, selected, copy) ==
    [expires  |-> Column(stored.expires, selected.expires, copy.expires),
     attempts |-> Column(stored.attempts, selected.attempts, copy.attempts),
     paused   |-> Column(stored.paused, selected.paused, copy.paused),
     accessed |-> Column(stored.accessed, selected.accessed, copy.accessed)]

Saved(stored, selected, copy) ==
    IF selected = NoRow THEN copy
    ELSE IF stored = NoRow THEN NoRow
    ELSE Merge(stored, selected, copy)

(* Mutant: a lapsed pause that starts the row over.                        *)
WithoutFailuresAnew(r) == [NoRow EXCEPT !.expires = r.expires]

WithoutFailures(r) == [r EXCEPT !.attempts = 0, !.paused = 0]

(* Mutants of RecordFailedShareAccessAsync.                                *)
WithFailureOnce(r, limit, minutes) == [r EXCEPT !.attempts = 1]

WithFailureFromExpiry(r, limit, minutes) ==
    [r EXCEPT !.attempts = @ + 1, !.paused = r.expires + AtLeast1(minutes)]

WithFailureLate(r, limit, minutes) ==
    [r EXCEPT !.attempts = @ + 1,
              !.paused = IF r.attempts + 1 > AtLeast1(limit)
                         THEN now + AtLeast1(minutes) ELSE @]

WithFailure(r, limit, minutes) ==
    LET attempts == r.attempts + 1
    IN  [r EXCEPT !.attempts = attempts,
                  !.paused = IF attempts >= AtLeast1(limit)
                             THEN now + AtLeast1(minutes) ELSE @]

(* Mutant: the failures are cleared, the access is not recorded.           *)
WithAccessUnrecorded(r) == WithoutFailures(r)

WithAccess(r) == [WithoutFailures(r) EXCEPT !.accessed = now]

-----------------------------------------------------------------------------
(* What a posted access form amounts to for share s.  "refused": the       *)
(* request ends before it touches the share; "invalid": the form fails     *)
(* validation although the code is well formed.                            *)

Submissions == [signedIn: BOOLEAN, email: {"recipient", "other", "missing"},
                code: {"right", "wrong", "malformed"}, valid: BOOLEAN]

Verdict(s, post) ==
    IF \/ s \in OidcShares /\ (~post.signedIn \/ post.email # "recipient")
       \/ post.email = "missing"
    THEN "refused"
    ELSE IF post.email = "other" \/ post.code = "malformed" THEN "wrong"
    ELSE IF ~post.valid THEN "invalid"
    ELSE post.code

Steps == {"idle", "checking", "deleting", "verifying", "configuring",
          "selecting", "saving", "revealing", "removing"}
Goals == {"none", "lapse", "failure", "success"}

Request == [step: Steps, share: Shares \cup {NoShare}, copy: Row,
            selected: Row, verdict: {"none", "wrong", "invalid", "right"},
            goal: Goals, tries: Nat, seen: Nat]

Idle == [step |-> "idle", share |-> NoShare, copy |-> NoRow,
         selected |-> NoRow, verdict |-> "none", goal |-> "none",
         tries |-> 0, seen |-> 0]

At(h, step) == request[h].step = step

Set(h, r) == request' = [request EXCEPT ![h] = r]

Finish(h) == Set(h, Idle)

(* Nothing else is working on share s.                                     *)
Free(s) == \A h \in Handlers : request[h].share # s

MayStart(s) == Overlap \/ Free(s)

StoreUnchanged == UNCHANGED <<row, expiry, removed, counted>>

EnvUnchanged == UNCHANGED <<cleanup, now, restarts>>

-----------------------------------------------------------------------------
(* Mutant: an id is used again once its row has gone.                      *)
CreateAgain(s) ==
    /\ row[s] = NoRow
    /\ \E hours \in Lifetimes :
          /\ now + hours <= MaxTime
          /\ row' = [row EXCEPT ![s] = [NoRow EXCEPT !.expires = now + hours]]
          /\ expiry' = [expiry EXCEPT ![s] = now + hours]
    /\ UNCHANGED <<request, removed, counted>> /\ EnvUnchanged

(* AdminController.Create: a new id, so its upsert inserts.  The row may   *)
(* be stored although the sender is shown an error.                        *)
Create(s) ==
    /\ expiry[s] = 0
    /\ \E hours \in Lifetimes :
          /\ now + hours <= MaxTime
          /\ row' = [row EXCEPT ![s] = [NoRow EXCEPT !.expires = now + hours]]
          /\ expiry' = [expiry EXCEPT ![s] = now + hours]
    /\ UNCHANGED <<request, removed, counted>> /\ EnvUnchanged

-----------------------------------------------------------------------------
(* ShareController.Access (POST).  A request that finds no share, or is    *)
(* refused, or cannot read the database ends without changing anything.    *)

AccessRead(h, s) ==
    /\ At(h, "idle") /\ row[s] # NoRow /\ MayStart(s)
    /\ \E v \in {Verdict(s, post) : post \in Submissions} \ {"refused"} :
          Set(h, [Idle EXCEPT !.step = "checking", !.share = s,
                              !.copy = row[s], !.verdict = v, !.seen = now])
    /\ StoreUnchanged /\ EnvUnchanged

AccessExpired(h) ==
    /\ At(h, "checking") /\ request[h].copy.expires <= now
    /\ Set(h, [request[h] EXCEPT !.step = "deleting", !.tries = 1,
                                 !.copy = NoRow, !.verdict = "none"])
    /\ StoreUnchanged /\ EnvUnchanged

(* Mutant: expires on the minute after.                                    *)
AccessUnderwayAtExpiry(h) == At(h, "checking") /\ request[h].copy.expires >= now

(* EnforceShareAccessPauseAsync, and what follows when it lets through.    *)
AccessUnderway(h) == At(h, "checking") /\ request[h].copy.expires > now

AccessPaused(h) ==
    /\ AccessUnderway(h) /\ request[h].copy.paused > now
    /\ Finish(h)
    /\ StoreUnchanged /\ EnvUnchanged

(* Mutant: any pause counts as lapsed.                                     *)
AccessLapsedEarly(h) ==
    /\ AccessUnderway(h) /\ request[h].copy.paused # 0
    /\ Set(h, [request[h] EXCEPT !.step = "selecting", !.goal = "lapse",
                                 !.copy = WithoutFailures(@), !.tries = 1])
    /\ StoreUnchanged /\ EnvUnchanged

AccessLapsed(h) ==
    /\ AccessUnderway(h)
    /\ request[h].copy.paused # 0 /\ request[h].copy.paused <= now
    /\ Set(h, [request[h] EXCEPT !.step = "selecting", !.goal = "lapse",
                                 !.copy = WithoutFailures(@), !.tries = 1])
    /\ StoreUnchanged /\ EnvUnchanged

AccessOpen(h) ==
    /\ AccessUnderway(h) /\ request[h].copy.paused = 0
    /\ Set(h, [request[h] EXCEPT !.step = "verifying"])
    /\ StoreUnchanged /\ EnvUnchanged

(* The email, code format, form and code checks.                           *)
VerifyWrong(h) ==
    /\ At(h, "verifying") /\ request[h].verdict = "wrong"
    /\ Set(h, [request[h] EXCEPT !.step = "configuring", !.verdict = "none"])
    /\ StoreUnchanged /\ EnvUnchanged

VerifyInvalid(h) ==
    /\ At(h, "verifying") /\ request[h].verdict = "invalid"
    /\ Finish(h)
    /\ StoreUnchanged /\ EnvUnchanged

VerifyRight(h) ==
    /\ At(h, "verifying") /\ request[h].verdict = "right"
    /\ Set(h, [request[h] EXCEPT !.step = "selecting", !.goal = "success",
                                 !.copy = WithAccess(@), !.tries = 1,
                                 !.verdict = "none"])
    /\ StoreUnchanged /\ EnvUnchanged

(* RecordFailedShareAccessAsync: the configuration is read now; when that  *)
(* fails the attempt is not counted.                                       *)
RecordFailure(h) ==
    /\ At(h, "configuring")
    /\ \E limit \in Limits, minutes \in PauseLengths :
          Set(h, [request[h] EXCEPT !.step = "selecting", !.goal = "failure",
                     !.copy = WithFailure(@, limit, minutes), !.tries = 1])
    /\ StoreUnchanged /\ EnvUnchanged

ConfigurationFails(h) ==
    /\ At(h, "configuring")
    /\ Finish(h)
    /\ StoreUnchanged /\ EnvUnchanged

Reveal(h) ==
    /\ At(h, "revealing")
    /\ Finish(h)
    /\ StoreUnchanged /\ EnvUnchanged

-----------------------------------------------------------------------------
(* DbShareStore.UpsertShareAsync under DatabaseOperationRunner.            *)

UpsertSelect(h) ==
    /\ At(h, "selecting")
    /\ Set(h, [request[h] EXCEPT !.step = "saving",
                                 !.selected = row[request[h].share]])
    /\ StoreUnchanged /\ EnvUnchanged

Savable(h) ==
    LET r == request[h]
    IN  At(h, "saving") /\ Saves(NoRow, row[r.share], r.selected, r.copy)

Write(h) ==
    LET r == request[h]
    IN  row' = [row EXCEPT ![r.share] = Saved(@, r.selected, r.copy)]

Count(h, answered) ==
    LET r == request[h]
    IN  counted' = [counted EXCEPT ![r.share] =
            IF r.goal # "failure" THEN 0
            ELSE IF answered /\ @ < MaxCounted THEN @ + 1 ELSE @]

AfterUpsert(h) ==
    LET after == [request[h] EXCEPT !.goal = "none", !.selected = NoRow,
                                    !.tries = 0]
    IN  CASE request[h].goal = "lapse"   -> [after EXCEPT !.step = "verifying"]
          [] request[h].goal = "success" -> [after EXCEPT !.step = "revealing",
                                                          !.copy = NoRow]
          [] OTHER                       -> Idle

UpsertSucceeds(h) ==
    /\ Savable(h)
    /\ Write(h) /\ Count(h, TRUE)
    /\ Set(h, AfterUpsert(h))
    /\ UNCHANGED <<expiry, removed>> /\ EnvUnchanged

(* DbUpdateException: not transient, not retried.                          *)
UpsertConflicts(h) ==
    /\ At(h, "saving") /\ ~Savable(h)
    /\ Finish(h)
    /\ StoreUnchanged /\ EnvUnchanged

(* A timeout, a busy or lost database.  The statement may have been        *)
(* committed before the answer was lost.                                   *)
Retry(h, step) ==
    /\ request[h].tries < MaxAttempts
    /\ Set(h, [request[h] EXCEPT !.step = step, !.tries = @ + 1,
                                 !.selected = NoRow])

UpsertBreaks(h) ==
    /\ At(h, "selecting") \/ At(h, "saving")
    /\ \/ UNCHANGED <<row, counted>>
       \/ Savable(h) /\ Write(h) /\ Count(h, FALSE)
    /\ Retry(h, "selecting") \/ Finish(h)
    /\ UNCHANGED <<expiry, removed>> /\ EnvUnchanged

-----------------------------------------------------------------------------
(* DeleteShareAsync, called by Access for an expired share and by          *)
(* DeleteAfterRetrieve and Revoke.                                         *)

(* Both read the share first; when it is missing nothing changes.          *)
RemovalRead(h, s) ==
    /\ At(h, "idle") /\ row[s] # NoRow /\ MayStart(s)
    /\ Set(h, [Idle EXCEPT !.step = "removing", !.share = s, !.tries = 1,
                           !.seen = now])
    /\ StoreUnchanged /\ EnvUnchanged

Deleting(h) == At(h, "deleting") \/ At(h, "removing")

(* Mutant: says removed, removes nothing.                                  *)
DeleteSkipped(h) ==
    /\ Deleting(h)
    /\ removed' = IF At(h, "removing") THEN removed \cup {request[h].share}
                                       ELSE removed
    /\ Finish(h)
    /\ UNCHANGED <<row, expiry, counted>> /\ EnvUnchanged

DeleteSucceeds(h) ==
    /\ Deleting(h)
    /\ row' = [row EXCEPT ![request[h].share] = NoRow]
    /\ removed' = IF At(h, "removing") THEN removed \cup {request[h].share}
                                       ELSE removed
    /\ Finish(h)
    /\ UNCHANGED <<expiry, counted>> /\ EnvUnchanged

DeleteBreaks(h) ==
    /\ Deleting(h)
    /\ UNCHANGED row \/ row' = [row EXCEPT ![request[h].share] = NoRow]
    /\ Retry(h, request[h].step) \/ Finish(h)
    /\ UNCHANGED <<expiry, removed, counted>> /\ EnvUnchanged

-----------------------------------------------------------------------------
(* ExpiredShareCleanupService: one pass captures the time, loads all       *)
(* shares to count the unused ones, deletes, and reports what it deleted.  *)

Cleanup == [step: {"waiting", "counting", "deleting", "reporting"},
            asOf: Nat, unused: SUBSET Shares, deleted: SUBSET Shares]

Waiting == [step |-> "waiting", asOf |-> 0, unused |-> {}, deleted |-> {}]

(* Mutant: deletes only the shares somebody opened.                        *)
ExpiredRowsOpened ==
    {s \in Shares : /\ row[s] # NoRow /\ row[s].expires <= cleanup.asOf
                   /\ row[s].accessed # 0}

ExpiredRows == {s \in Shares : row[s] # NoRow /\ row[s].expires <= cleanup.asOf}

CleanupUnchanged == UNCHANGED <<request, now, restarts, expiry, removed, counted>>

CleanupStart ==
    /\ cleanup.step = "waiting"
    /\ cleanup' = [Waiting EXCEPT !.step = "counting", !.asOf = now]
    /\ UNCHANGED row /\ CleanupUnchanged

CleanupCount ==
    /\ cleanup.step = "counting"
    /\ cleanup' = [cleanup EXCEPT !.step = "deleting",
                      !.unused = {s \in ExpiredRows : row[s].accessed = 0}]
    /\ UNCHANGED row /\ CleanupUnchanged

CleanupRemoves ==
    /\ cleanup.step = "deleting"
    /\ Overlap \/ \A s \in ExpiredRows : Free(s)
    /\ row' = [s \in Shares |-> IF s \in ExpiredRows THEN NoRow ELSE row[s]]

CleanupDelete ==
    /\ CleanupRemoves
    /\ cleanup' = IF ExpiredRows = {} THEN Waiting
                  ELSE [cleanup EXCEPT !.step = "reporting",
                                       !.deleted = ExpiredRows]
    /\ CleanupUnchanged

(* The audit entry and the two usage counters.                             *)
CleanupReport ==
    /\ cleanup.step = "reporting"
    /\ cleanup' = Waiting
    /\ UNCHANGED row /\ CleanupUnchanged

(* A database failure, possibly after the delete was committed.  The       *)
(* statement is tried again (how often is left open here), or the          *)
(* exception is logged and the pass given up.                              *)
CleanupBreaks ==
    /\ cleanup.step \in {"counting", "deleting"}
    /\ CleanupRemoves \/ UNCHANGED row
    /\ cleanup' = Waiting \/ UNCHANGED cleanup
    /\ CleanupUnchanged

-----------------------------------------------------------------------------
Tick ==
    /\ now < MaxTime
    /\ now' = now + 1
    /\ UNCHANGED <<row, request, cleanup, restarts, expiry, removed, counted>>

(* The process ends; what it had not saved is lost.                        *)
Restart ==
    /\ restarts < MaxRestarts
    /\ restarts' = restarts + 1
    /\ request' = [h \in Handlers |-> Idle]
    /\ cleanup' = Waiting
    /\ UNCHANGED now /\ StoreUnchanged

Init ==
    /\ row = [s \in Shares |-> NoRow]
    /\ request = [h \in Handlers |-> Idle]
    /\ cleanup = Waiting
    /\ now = 1
    /\ restarts = 0
    /\ expiry = [s \in Shares |-> 0]
    /\ removed = {}
    /\ counted = [s \in Shares |-> 0]

Access(h) ==
    \/ AccessExpired(h) \/ AccessPaused(h) \/ AccessLapsed(h) \/ AccessOpen(h)
    \/ VerifyWrong(h) \/ VerifyInvalid(h) \/ VerifyRight(h)
    \/ RecordFailure(h) \/ ConfigurationFails(h) \/ Reveal(h)

Upsert(h) ==
    UpsertSelect(h) \/ UpsertSucceeds(h) \/ UpsertConflicts(h) \/ UpsertBreaks(h)

Delete(h) == DeleteSucceeds(h) \/ DeleteBreaks(h)

CleanupPass ==
    \/ CleanupStart \/ CleanupCount \/ CleanupDelete \/ CleanupReport
    \/ CleanupBreaks

Next ==
    \/ \E s \in Shares : Create(s)
    \/ \E h \in Handlers, s \in Shares : AccessRead(h, s) \/ RemovalRead(h, s)
    \/ \E h \in Handlers : Access(h) \/ Upsert(h) \/ Delete(h)
    \/ CleanupPass
    \/ Tick
    \/ Restart

Spec == Init /\ [][Next]_vars

(* The cleanup loop never ends, and a database that fails does not fail    *)
(* for ever: a pass that is attempted again and again succeeds.            *)
FairSpec ==
    /\ Spec
    /\ WF_vars(CleanupStart)
    /\ SF_vars(CleanupCount)
    /\ SF_vars(CleanupDelete)
    /\ WF_vars(CleanupReport)

-----------------------------------------------------------------------------
(* Properties.                                                             *)

(* Type invariant of the share table and of the locals of its users.       *)
TypeOK ==
    /\ row \in [Shares -> Row]
    /\ request \in [Handlers -> Request]
    /\ \A h \in Handlers : At(h, "idle") \/ request[h].share \in Shares
    /\ cleanup \in Cleanup
    /\ now \in Nat
    /\ restarts \in Nat
    /\ expiry \in [Shares -> Nat]
    /\ removed \subseteq Shares
    /\ counted \in [Shares -> Nat]

(* A request that reaches the server at or after the expiry of a share     *)
(* never gets as far as judging the code, counting a failure or showing    *)
(* the secret, although rows are written back from old copies, and even    *)
(* written back after they were deleted (ShareController.cs:176).          *)
Judging == {"verifying", "configuring", "selecting", "saving", "revealing"}

NoAccessAfterExpiry ==
    \A h \in Handlers :
        request[h].step \in Judging => request[h].seen < expiry[request[h].share]

(* No pause reaches further into the future than a pause length an admin   *)
(* can have configured, whichever stale copy wrote it, so that no mix of   *)
(* concurrent saves locks a share for longer than the setting says         *)
(* (ShareController.cs:352).                                               *)
WithinPause(time) == \E m \in PauseLengths : time <= now + AtLeast1(m)

PauseHorizon == \A s \in Shares : row[s].paused # 0 => WithinPause(row[s].paused)

(* When the secret is about to be shown, the opening is on record: the     *)
(* share is stored, its last access is not older than the request and no   *)
(* pause is left, even when the save was repeated after a lost answer.     *)
(* Holds when operations do not overlap (ShareController.cs:220-232).      *)
RevealOnRecord ==
    \A h \in Handlers : At(h, "revealing") =>
        LET stored == row[request[h].share]
        IN  /\ stored # NoRow /\ stored.paused = 0
            /\ stored.accessed >= request[h].seen

(* A share that was removed while no request held a copy of it stays       *)
(* removed: only a copy read before the removal can bring it back          *)
(* (DbShareStore.cs:77-80).                                                *)
RemovalFinalWhenFree ==
    [][\A s \in Shares :
          expiry[s] # 0 /\ row[s] = NoRow /\ Free(s) => row'[s] = NoRow]_vars

(* "The shared credentials have been removed and can no longer be          *)
(* accessed": once a delete or a revocation was acknowledged, the row is   *)
(* never stored again (Views/Share/Deleted.cshtml:8).                      *)
RemovedStaysRemoved == \A s \in removed : row[s] = NoRow

(* "Failed attempts increment the share's failure counter" (DESIGN.md:136):*)
(* the counter of a stored share is at least the number of failed attempts *)
(* that were answered since it was last reset.                             *)
FailuresCounted ==
    \A s \in Shares : row[s] # NoRow => row[s].attempts >= counted[s]

(* "A background service removes expired shares on an interval"            *)
(* (FEATURES.md:27): in the end no share that has expired is stored any    *)
(* more, and none comes back, although requests that read it before its    *)
(* expiry can still write it back.                                         *)
Expired(s) == expiry[s] # 0 /\ expiry[s] <= now

ExpiredIsRemovedForGood == \A s \in Shares : <>[](Expired(s) => row[s] = NoRow)

(* ShareAccess implements ShareLifecycle when operations on one share do   *)
(* not overlap: saves that are repeated after a lost answer, restarts and  *)
(* the cleanup change nothing a user could tell from atomic operations     *)
(* (ShareController.cs:104-261, DbShareStore.cs:64-119).  So no step but a *)
(* deletion lifts or shortens a pause that runs, and the last access never *)
(* goes back.                                                              *)
Phase(s) == IF row[s] # NoRow THEN "live"
            ELSE IF expiry[s] = 0 THEN "new" ELSE "gone"

Atomic == INSTANCE ShareLifecycle WITH
    share <- [s \in Shares |-> [phase |-> Phase(s), attempts |-> row[s].attempts,
                  paused |-> row[s].paused, opened |-> row[s].accessed]],
    clock <- now,
    Limits <- {AtLeast1(n) : n \in Limits},
    Pauses <- {AtLeast1(m) : m \in PauseLengths}

Lifecycle == Atomic!Spec
=============================================================================

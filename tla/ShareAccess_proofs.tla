------------------------ MODULE ShareAccess_proofs ------------------------
(***************************************************************************)
(* Theorems about ShareAccess, for every value of its constants: however   *)
(* many shares, requests, retries and restarts, and with operations on one *)
(* share overlapping in any way.                                           *)
(***************************************************************************)
EXTENDS ShareAccess, TLAPS

-----------------------------------------------------------------------------
(* Rows.                                                                   *)

(* AtLeast1 is the Math.Max(1, n) of the code: a positive natural number.  *)
LEMMA AtLeast1Positive ==
  ASSUME NEW n \in Int
  PROVE  AtLeast1(n) \in Nat /\ AtLeast1(n) >= 1
BY DEF AtLeast1

(* The empty row is a row, and saving rows gives rows.                     *)
LEMMA NoRowType == NoRow \in Row
BY DEF NoRow, Row

LEMMA SavedType ==
  ASSUME NEW stored \in Row, NEW selected \in Row, NEW copy \in Row
  PROVE  Saved(stored, selected, copy) \in Row
BY NoRowType DEF Saved, Merge, Column, Row

(* What the handlers write into their copies are rows.                     *)
LEMMA CopyTypes ==
  ASSUME NEW r \in Row, now \in Nat
  PROVE  /\ WithoutFailures(r) \in Row
         /\ WithAccess(r) \in Row
         /\ \A limit \in Limits, minutes \in PauseLengths :
                WithFailure(r, limit, minutes) \in Row
<1>1. WithoutFailures(r) \in Row /\ WithAccess(r) \in Row
  BY DEF WithoutFailures, WithAccess, Row
<1>2. ASSUME NEW limit \in Limits, NEW minutes \in PauseLengths
      PROVE  WithFailure(r, limit, minutes) \in Row
  <2>1. now + AtLeast1(minutes) \in Nat /\ r.attempts + 1 \in Nat
    <3>1. AtLeast1(minutes) \in Nat
      BY AtLeast1Positive, LimitsAssumption
    <3>2. QED  BY <3>1 DEF Row
  <2>2. CASE r.attempts + 1 >= AtLeast1(limit)
    <3>1. WithFailure(r, limit, minutes) =
            [r EXCEPT !.attempts = r.attempts + 1,
                      !.paused = now + AtLeast1(minutes)]
      BY <2>2 DEF WithFailure
    <3>2. QED  BY <2>1, <3>1 DEF Row
  <2>3. CASE ~(r.attempts + 1 >= AtLeast1(limit))
    <3>1. WithFailure(r, limit, minutes) =
            [r EXCEPT !.attempts = r.attempts + 1, !.paused = r.paused]
      BY <2>3 DEF WithFailure
    <3>2. QED  BY <2>1, <3>1 DEF Row
  <2>4. QED  BY <2>2, <2>3
<1>3. QED  BY <1>1, <1>2

-----------------------------------------------------------------------------
(* Type correctness.                                                       *)

LEMMA IdleType == Idle \in Request
BY NoRowType DEF Idle, Request, Steps, Goals

LEMMA VerdictType ==
  ASSUME NEW s \in Shares, NEW v \in {Verdict(s, post) : post \in Submissions}
  PROVE  v \in {"refused", "wrong", "invalid", "right"}
<1>1. PICK post \in Submissions : v = Verdict(s, post)
  OBVIOUS
<1>2. post.code \in {"right", "wrong", "malformed"}
  BY DEF Submissions
<1>3. QED  BY <1>1, <1>2 DEF Verdict

LEMMA TypeInit == Init => TypeOK
BY NoRowType, IdleType DEF Init, TypeOK, Cleanup, Waiting, At, Idle

(* A handler that replaces its locals by well-typed ones keeps the type.   *)
Busy == {r \in Request : r.step # "idle" => r.share \in Shares}

LEMMA RequestFields ==
  ASSUME TypeOK, NEW h \in Handlers
  PROVE  /\ request[h] \in Request
         /\ request[h].copy \in Row /\ request[h].selected \in Row
         /\ request[h].tries \in Nat /\ request[h].seen \in Nat
         /\ request[h].step # "idle" => request[h].share \in Shares
BY DEF TypeOK, Request, At

LEMMA SetType ==
  ASSUME TypeOK, NEW h \in Handlers, NEW r \in Busy, Set(h, r)
  PROVE  /\ request' \in [Handlers -> Request]
         /\ \A g \in Handlers : At(g, "idle")' \/ request'[g].share \in Shares
BY DEF TypeOK, Set, Busy, At

LEMMA FinishType ==
  ASSUME TypeOK, NEW h \in Handlers, Finish(h)
  PROVE  /\ request' \in [Handlers -> Request]
         /\ \A g \in Handlers : At(g, "idle")' \/ request'[g].share \in Shares
<1>1. Idle \in Busy
  BY IdleType DEF Busy, Idle
<1>2. QED  BY <1>1, SetType DEF Finish

LEMMA RetryType ==
  ASSUME TypeOK, NEW h \in Handlers, NEW step \in Steps, ~At(h, "idle"),
         Retry(h, step)
  PROVE  /\ request' \in [Handlers -> Request]
         /\ \A g \in Handlers : At(g, "idle")' \/ request'[g].share \in Shares
<1>1. /\ request[h] \in Request /\ request[h].tries + 1 \in Nat
      /\ request[h].share \in Shares
  BY RequestFields DEF At
<1>2. [request[h] EXCEPT !.step = step, !.tries = @ + 1, !.selected = NoRow]
          \in Busy
  BY <1>1, NoRowType DEF Request, Busy, Steps
<1>3. QED  BY <1>2, SetType DEF Retry

LEMMA AccessType ==
  ASSUME TypeOK, NEW h \in Handlers, Access(h)
  PROVE  TypeOK'
<1>. USE DEF StoreUnchanged, EnvUnchanged
<1>0. /\ request[h] \in Request /\ request[h].copy \in Row /\ now \in Nat
      /\ request[h].step # "idle" => request[h].share \in Shares
  BY RequestFields DEF TypeOK
<1>1. CASE AccessExpired(h)
  <2>1. [request[h] EXCEPT !.step = "deleting", !.tries = 1, !.copy = NoRow,
                           !.verdict = "none"] \in Busy
    BY <1>1, <1>0, NoRowType DEF Request, Busy, Steps, At, AccessExpired
  <2>2. QED  BY <1>1, <2>1, SetType DEF AccessExpired, TypeOK
<1>2. CASE AccessPaused(h)
  BY <1>2, FinishType DEF AccessPaused, TypeOK
<1>3. CASE AccessLapsed(h)
  <2>1. WithoutFailures(request[h].copy) \in Row
    BY <1>0, CopyTypes
  <2>2. [request[h] EXCEPT !.step = "selecting", !.goal = "lapse",
                           !.copy = WithoutFailures(@), !.tries = 1] \in Busy
    BY <1>3, <1>0, <2>1 DEF Request, Busy, Steps, Goals, At, AccessLapsed, AccessUnderway
  <2>3. QED  BY <1>3, <2>2, SetType DEF AccessLapsed, TypeOK
<1>4. CASE AccessOpen(h)
  <2>1. [request[h] EXCEPT !.step = "verifying"] \in Busy
    BY <1>4, <1>0 DEF Request, Busy, Steps, At, AccessOpen, AccessUnderway
  <2>2. QED  BY <1>4, <2>1, SetType DEF AccessOpen, TypeOK
<1>5. CASE VerifyWrong(h)
  <2>1. [request[h] EXCEPT !.step = "configuring", !.verdict = "none"] \in Busy
    BY <1>5, <1>0 DEF Request, Busy, Steps, At, VerifyWrong
  <2>2. QED  BY <1>5, <2>1, SetType DEF VerifyWrong, TypeOK
<1>6. CASE VerifyInvalid(h)
  BY <1>6, FinishType DEF VerifyInvalid, TypeOK
<1>7. CASE VerifyRight(h)
  <2>1. WithAccess(request[h].copy) \in Row
    BY <1>0, CopyTypes
  <2>2. [request[h] EXCEPT !.step = "selecting", !.goal = "success",
            !.copy = WithAccess(@), !.tries = 1, !.verdict = "none"] \in Busy
    BY <1>7, <1>0, <2>1 DEF Request, Busy, Steps, Goals, At, VerifyRight
  <2>3. QED  BY <1>7, <2>2, SetType DEF VerifyRight, TypeOK
<1>8. CASE RecordFailure(h)
  <2>1. PICK limit \in Limits, minutes \in PauseLengths :
          Set(h, [request[h] EXCEPT !.step = "selecting", !.goal = "failure",
                     !.copy = WithFailure(@, limit, minutes), !.tries = 1])
    BY <1>8 DEF RecordFailure
  <2>2. WithFailure(request[h].copy, limit, minutes) \in Row
    BY <1>0, CopyTypes
  <2>3. [request[h] EXCEPT !.step = "selecting", !.goal = "failure",
            !.copy = WithFailure(@, limit, minutes), !.tries = 1] \in Busy
    BY <1>8, <1>0, <2>2 DEF Request, Busy, Steps, Goals, At, RecordFailure
  <2>4. QED  BY <1>8, <2>1, <2>3, SetType DEF RecordFailure, TypeOK
<1>9. CASE ConfigurationFails(h)
  BY <1>9, FinishType DEF ConfigurationFails, TypeOK
<1>10. CASE Reveal(h)
  BY <1>10, FinishType DEF Reveal, TypeOK
<1>11. QED
  BY <1>1, <1>2, <1>3, <1>4, <1>5, <1>6, <1>7, <1>8, <1>9, <1>10 DEF Access

LEMMA WriteType ==
  ASSUME TypeOK, NEW h \in Handlers, Write(h)
  PROVE  row' \in [Shares -> Row]
<1>1. ASSUME request[h].share \in Shares
      PROVE  Saved(row[request[h].share], request[h].selected, request[h].copy)
                 \in Row
  BY <1>1, RequestFields, SavedType DEF TypeOK
<1>2. QED  BY <1>1 DEF Write, TypeOK

LEMMA CountType ==
  ASSUME TypeOK, NEW h \in Handlers, NEW b \in BOOLEAN, Count(h, b)
  PROVE  counted' \in [Shares -> Nat]
<1>1. ASSUME NEW s \in Shares
      PROVE  counted'[s] = counted[s] \/ counted'[s] = counted[s] + 1
                 \/ counted'[s] = 0
  BY <1>1 DEF Count, TypeOK
<1>2. DOMAIN counted' = Shares /\ counted' = [s \in Shares |-> counted'[s]]
  BY DEF Count, TypeOK
<1>3. QED  BY <1>1, <1>2 DEF TypeOK

LEMMA UpsertType ==
  ASSUME TypeOK, NEW h \in Handlers, Upsert(h)
  PROVE  TypeOK'
<1>. USE DEF StoreUnchanged, EnvUnchanged
<1>0. request[h].step \in {"selecting", "saving"}
  BY DEF Upsert, UpsertSelect, UpsertSucceeds, UpsertConflicts, UpsertBreaks,
         Savable, At
<1>a. request[h] \in Request /\ request[h].copy \in Row
          /\ request[h].share \in Shares
  BY <1>0, RequestFields
<1>1. CASE UpsertSelect(h)
  <2>1. [request[h] EXCEPT !.step = "saving",
             !.selected = row[request[h].share]] \in Busy
    BY <1>a DEF Request, Busy, Steps, TypeOK
  <2>2. QED  BY <1>1, <2>1, SetType DEF UpsertSelect, TypeOK
<1>2. CASE UpsertSucceeds(h)
  <2>1. AfterUpsert(h) \in Busy
    BY <1>a, NoRowType, IdleType
       DEF AfterUpsert, Request, Busy, Steps, Goals, Idle
  <2>2. QED
    BY <1>2, <2>1, SetType, WriteType, CountType DEF UpsertSucceeds, TypeOK
<1>3. CASE UpsertConflicts(h)
  BY <1>3, FinishType DEF UpsertConflicts, TypeOK
<1>4. CASE UpsertBreaks(h)
  <2>1. /\ request' \in [Handlers -> Request]
        /\ \A g \in Handlers : At(g, "idle")' \/ request'[g].share \in Shares
    BY <1>0, <1>4, RetryType, FinishType DEF UpsertBreaks, Steps, At
  <2>2. row' \in [Shares -> Row] /\ counted' \in [Shares -> Nat]
    BY <1>4, WriteType, CountType DEF UpsertBreaks, TypeOK
  <2>3. QED  BY <1>4, <2>1, <2>2 DEF UpsertBreaks, TypeOK
<1>5. QED  BY <1>1, <1>2, <1>3, <1>4 DEF Upsert

LEMMA DeleteType ==
  ASSUME TypeOK, NEW h \in Handlers, Delete(h)
  PROVE  TypeOK'
<1>. USE DEF StoreUnchanged, EnvUnchanged
<1>0. request[h].step \in {"deleting", "removing"}
  BY DEF Delete, DeleteSucceeds, DeleteBreaks, Deleting, At
<1>a. request[h].share \in Shares
  BY <1>0, RequestFields
<1>1. CASE DeleteSucceeds(h)
  BY <1>1, <1>a, FinishType, NoRowType DEF DeleteSucceeds, TypeOK
<1>2. CASE DeleteBreaks(h)
  <2>1. /\ request' \in [Handlers -> Request]
        /\ \A g \in Handlers : At(g, "idle")' \/ request'[g].share \in Shares
    BY <1>0, <1>2, RetryType, FinishType DEF DeleteBreaks, Steps, At
  <2>2. QED  BY <1>2, <2>1, NoRowType DEF DeleteBreaks, TypeOK
<1>3. QED  BY <1>1, <1>2 DEF Delete

LEMMA ReadType ==
  ASSUME TypeOK, NEW h \in Handlers, NEW s \in Shares,
         AccessRead(h, s) \/ RemovalRead(h, s)
  PROVE  TypeOK'
<1>. USE DEF StoreUnchanged, EnvUnchanged
<1>0. row[s] \in Row /\ now \in Nat
  BY DEF TypeOK
<1>1. CASE AccessRead(h, s)
  <2>1. PICK v \in {Verdict(s, post) : post \in Submissions} \ {"refused"} :
          Set(h, [Idle EXCEPT !.step = "checking", !.share = s,
                              !.copy = row[s], !.verdict = v, !.seen = now])
    BY <1>1 DEF AccessRead
  <2>2. v \in {"wrong", "invalid", "right"}
    BY <2>1, VerdictType
  <2>3. [Idle EXCEPT !.step = "checking", !.share = s, !.copy = row[s],
                     !.verdict = v, !.seen = now] \in Busy
    BY <1>0, <2>2, NoRowType DEF Idle, Busy, Request, Steps, Goals
  <2>4. QED  BY <1>1, <2>1, <2>3, SetType DEF AccessRead, TypeOK
<1>2. CASE RemovalRead(h, s)
  <2>1. [Idle EXCEPT !.step = "removing", !.share = s, !.tries = 1,
                     !.seen = now] \in Busy
    BY <1>0, NoRowType DEF Idle, Busy, Request, Steps, Goals
  <2>2. QED  BY <1>2, <2>1, SetType DEF RemovalRead, TypeOK
<1>3. QED  BY <1>1, <1>2

LEMMA CleanupType ==
  ASSUME TypeOK, CleanupPass
  PROVE  TypeOK'
<1>. USE NoRowType DEF CleanupUnchanged, TypeOK, Cleanup, Waiting, At
<1>1. CASE CleanupStart      BY <1>1 DEF CleanupStart
<1>2. CASE CleanupCount      BY <1>2 DEF CleanupCount, ExpiredRows
<1>3. CASE CleanupDelete
  BY <1>3 DEF CleanupDelete, CleanupRemoves, ExpiredRows
<1>4. CASE CleanupReport     BY <1>4 DEF CleanupReport
<1>5. CASE CleanupBreaks     BY <1>5 DEF CleanupBreaks, CleanupRemoves
<1>6. QED  BY <1>1, <1>2, <1>3, <1>4, <1>5 DEF CleanupPass

LEMMA TypeStep == TypeOK /\ [Next]_vars => TypeOK'
<1>. SUFFICES ASSUME TypeOK, [Next]_vars PROVE TypeOK'
  OBVIOUS
<1>1. ASSUME NEW s \in Shares, Create(s) PROVE TypeOK'
  <2>1. \A hours \in Lifetimes : /\ now + hours \in Nat
          /\ [NoRow EXCEPT !.expires = now + hours] \in Row
    BY TimesAssumption DEF TypeOK, NoRow, Row
  <2>2. QED  BY <1>1, <2>1 DEF Create, EnvUnchanged, TypeOK, At
<1>2. ASSUME NEW h \in Handlers, NEW s \in Shares,
             AccessRead(h, s) \/ RemovalRead(h, s)
      PROVE  TypeOK'
  BY <1>2, ReadType
<1>3. ASSUME NEW h \in Handlers, Access(h) \/ Upsert(h) \/ Delete(h)
      PROVE  TypeOK'
  BY <1>3, AccessType, UpsertType, DeleteType
<1>4. CASE CleanupPass  BY <1>4, CleanupType
<1>5. CASE Tick         BY <1>5 DEF Tick, TypeOK, At
<1>6. CASE Restart
  BY <1>6, IdleType DEF Restart, StoreUnchanged, TypeOK, Cleanup, Waiting, At, Idle
<1>7. CASE UNCHANGED vars  BY <1>7 DEF vars, TypeOK, At
<1>8. QED
  BY <1>1, <1>2, <1>3, <1>4, <1>5, <1>6, <1>7 DEF Next

(* The share table, the locals of every request and of the cleanup always  *)
(* have the shape the code gives them.                                     *)
THEOREM TypeCorrect == Spec => []TypeOK
BY TypeInit, TypeStep, PTL DEF Spec
-----------------------------------------------------------------------------
(* No access after expiry.  The invariant says where the expiry in every   *)
(* copy comes from: rows, copies and selected rows of a share carry the    *)
(* expiry it was created with, whatever is saved over whatever; so the     *)
(* check made on a copy is a check of the true expiry.                     *)

Genuine(r, s) == r # NoRow => expiry[s] > 0 /\ r.expires = expiry[s]

Holding == {"checking", "verifying", "configuring", "selecting", "saving"}

Kept(r) ==
    r.step # "idle" =>
        /\ Genuine(r.selected, r.share)
        /\ r.seen <= now
        /\ r.step \in Holding =>
              expiry[r.share] > 0 /\ r.copy.expires = expiry[r.share]
        /\ r.step \in Judging => r.seen < expiry[r.share]

ExpiryInv ==
    /\ TypeOK
    /\ \A s \in Shares : Genuine(row[s], s)
    /\ \A h \in Handlers : Kept(request[h])

LEMMA ExpiryInvInit == Init => ExpiryInv
BY TypeInit DEF Init, ExpiryInv, Genuine, Kept, Idle

(* An upsert stores the true expiry or nothing.                            *)
LEMMA SavedExpiry ==
  ASSUME NEW stored \in Row, NEW selected \in Row, NEW copy \in Row,
         NEW e \in Nat, copy.expires = e,
         stored # NoRow => stored.expires = e,
         selected # NoRow => selected.expires = e
  PROVE  LET new == Saved(stored, selected, copy)
         IN  new # NoRow => new.expires = e
BY DEF Saved, Merge, Column, Row

LEMMA WriteGenuine ==
  ASSUME ExpiryInv, NEW h \in Handlers, Savable(h), Write(h), UNCHANGED expiry
  PROVE  \A s \in Shares : Genuine(row[s], s)'
<1>. DEFINE r == request[h]
<1>1. /\ r.step = "saving" /\ r.share \in Shares
      /\ r.copy \in Row /\ r.selected \in Row /\ row[r.share] \in Row
      /\ expiry[r.share] \in Nat
  BY RequestFields DEF ExpiryInv, Savable, At, TypeOK
<1>2. /\ Genuine(r.selected, r.share) /\ Genuine(row[r.share], r.share)
      /\ expiry[r.share] > 0 /\ r.copy.expires = expiry[r.share]
  BY <1>1 DEF ExpiryInv, Kept, Holding
<1>3. Genuine(Saved(row[r.share], r.selected, r.copy), r.share)
  BY <1>1, <1>2, SavedExpiry DEF Genuine
<1>4. row' = [row EXCEPT ![r.share] = Saved(row[r.share], r.selected, r.copy)]
  BY DEF Write
<1>5. QED  BY <1>1, <1>3, <1>4 DEF ExpiryInv, TypeOK, Genuine

LEMMA SetKept ==
  ASSUME ExpiryInv, NEW h \in Handlers, NEW r, Set(h, r), Kept(r),
         UNCHANGED <<now, expiry>>
  PROVE  \A g \in Handlers : Kept(request[g])'
BY DEF ExpiryInv, TypeOK, Set, Kept, Genuine

LEMMA FinishKept ==
  ASSUME ExpiryInv, NEW h \in Handlers, Finish(h), UNCHANGED <<now, expiry>>
  PROVE  \A g \in Handlers : Kept(request[g])'
BY SetKept DEF Finish, Kept, Idle

LEMMA RetryKept ==
  ASSUME ExpiryInv, NEW h \in Handlers, UNCHANGED <<now, expiry>>,
         NEW step, Retry(h, step),
         \/ step = "selecting" /\ request[h].step \in {"selecting", "saving"}
         \/ step = request[h].step /\ step \in {"deleting", "removing"}
  PROVE  \A g \in Handlers : Kept(request[g])'
<1>. DEFINE r == [request[h] EXCEPT !.step = step, !.tries = @ + 1,
                                    !.selected = NoRow]
<1>1. /\ r.step = step /\ r.selected = NoRow /\ r.share = request[h].share
      /\ r.seen = request[h].seen /\ r.copy = request[h].copy
  BY RequestFields DEF ExpiryInv, Request
<1>2. Kept(request[h])
  BY DEF ExpiryInv
<1>3. Kept(r)
  BY <1>1, <1>2 DEF Kept, Genuine, Holding, Judging
<1>4. QED  BY <1>3, SetKept DEF Retry

LEMMA AccessKept ==
  ASSUME ExpiryInv, NEW h \in Handlers, Access(h)
  PROVE  ExpiryInv'
<1>. USE DEF StoreUnchanged, EnvUnchanged
<1>0. /\ request[h] \in Request /\ request[h].copy \in Row /\ now \in Nat
      /\ request[h].seen \in Nat /\ Kept(request[h])
      /\ request[h].step # "idle" => expiry[request[h].share] \in Nat
  BY RequestFields DEF ExpiryInv, TypeOK
<1>1. UNCHANGED <<row, now, expiry>>
  BY DEF Access, AccessExpired, AccessPaused, AccessLapsed, AccessOpen,
         VerifyWrong, VerifyInvalid, VerifyRight, RecordFailure,
         ConfigurationFails, Reveal
<1>2. TypeOK'
  BY AccessType DEF ExpiryInv
<1>3. \A s \in Shares : Genuine(row[s], s)'
  BY <1>1 DEF ExpiryInv, Genuine
<1>4. \A g \in Handlers : Kept(request[g])'
  <2>1. CASE AccessExpired(h)
    <3>1. Kept([request[h] EXCEPT !.step = "deleting", !.tries = 1,
                                  !.copy = NoRow, !.verdict = "none"])
      BY <1>0, <2>1 DEF AccessExpired, Kept, Request, Holding, Judging, At
    <3>2. QED  BY <1>1, <2>1, <3>1, SetKept DEF AccessExpired
  <2>2. CASE AccessPaused(h)
    BY <1>1, <2>2, FinishKept DEF AccessPaused
  <2>3. CASE AccessLapsed(h)
    <3>1. WithoutFailures(request[h].copy).expires = request[h].copy.expires
      BY <1>0 DEF WithoutFailures, Row
    <3>2. Kept([request[h] EXCEPT !.step = "selecting", !.goal = "lapse",
                                  !.copy = WithoutFailures(@), !.tries = 1])
      BY <1>0, <2>3, <3>1 DEF AccessLapsed, AccessUnderway, Kept, Request,
         Row, Holding, Judging, At
    <3>3. QED  BY <1>1, <2>3, <3>2, SetKept DEF AccessLapsed
  <2>4. CASE AccessOpen(h)
    <3>1. Kept([request[h] EXCEPT !.step = "verifying"])
      BY <1>0, <2>4 DEF AccessOpen, AccessUnderway, Kept, Request, Row,
         Holding, Judging, At
    <3>2. QED  BY <1>1, <2>4, <3>1, SetKept DEF AccessOpen
  <2>5. CASE VerifyWrong(h)
    <3>1. Kept([request[h] EXCEPT !.step = "configuring", !.verdict = "none"])
      BY <1>0, <2>5 DEF VerifyWrong, Kept, Request, Holding, Judging, At
    <3>2. QED  BY <1>1, <2>5, <3>1, SetKept DEF VerifyWrong
  <2>6. CASE VerifyInvalid(h)
    BY <1>1, <2>6, FinishKept DEF VerifyInvalid
  <2>7. CASE VerifyRight(h)
    <3>1. WithAccess(request[h].copy).expires = request[h].copy.expires
      BY <1>0 DEF WithAccess, WithoutFailures, Row
    <3>2. Kept([request[h] EXCEPT !.step = "selecting", !.goal = "success",
               !.copy = WithAccess(@), !.tries = 1, !.verdict = "none"])
      BY <1>0, <2>7, <3>1 DEF VerifyRight, Kept, Request, Holding, Judging, At
    <3>3. QED  BY <1>1, <2>7, <3>2, SetKept DEF VerifyRight
  <2>8. CASE RecordFailure(h)
    <3>1. PICK limit \in Limits, minutes \in PauseLengths :
            Set(h, [request[h] EXCEPT !.step = "selecting", !.goal = "failure",
                       !.copy = WithFailure(@, limit, minutes), !.tries = 1])
      BY <2>8 DEF RecordFailure
    <3>2. WithFailure(request[h].copy, limit, minutes).expires
              = request[h].copy.expires
      BY <1>0 DEF WithFailure, Row
    <3>3. Kept([request[h] EXCEPT !.step = "selecting", !.goal = "failure",
               !.copy = WithFailure(@, limit, minutes), !.tries = 1])
      BY <1>0, <2>8, <3>2 DEF RecordFailure, Kept, Request, Holding, Judging, At
    <3>4. QED  BY <1>1, <3>1, <3>3, SetKept
  <2>9. CASE ConfigurationFails(h)
    BY <1>1, <2>9, FinishKept DEF ConfigurationFails
  <2>10. CASE Reveal(h)
    BY <1>1, <2>10, FinishKept DEF Reveal
  <2>11. QED
    BY <2>1, <2>2, <2>3, <2>4, <2>5, <2>6, <2>7, <2>8, <2>9, <2>10 DEF Access
<1>5. QED  BY <1>2, <1>3, <1>4 DEF ExpiryInv

LEMMA UpsertKept ==
  ASSUME ExpiryInv, NEW h \in Handlers, Upsert(h)
  PROVE  ExpiryInv'
<1>. USE DEF StoreUnchanged, EnvUnchanged
<1>0. /\ request[h] \in Request /\ Kept(request[h])
      /\ request[h].step \in {"selecting", "saving"}
      /\ request[h].share \in Shares
  <2>1. request[h].step \in {"selecting", "saving"}
    BY DEF Upsert, UpsertSelect, UpsertSucceeds, UpsertConflicts, UpsertBreaks,
           Savable, At
  <2>2. QED  BY <2>1, RequestFields DEF ExpiryInv
<1>1. UNCHANGED <<now, expiry>>
  BY DEF Upsert, UpsertSelect, UpsertSucceeds, UpsertConflicts, UpsertBreaks
<1>2. TypeOK'
  BY UpsertType DEF ExpiryInv
<1>3. \A s \in Shares : Genuine(row[s], s)'
  <2>1. CASE Savable(h) /\ Write(h)
    BY <1>1, <2>1, WriteGenuine
  <2>2. CASE UNCHANGED row
    BY <1>1, <2>2 DEF ExpiryInv, Genuine
  <2>3. QED
    BY <2>1, <2>2 DEF Upsert, UpsertSelect, UpsertSucceeds, UpsertConflicts,
       UpsertBreaks
<1>4. \A g \in Handlers : Kept(request[g])'
  <2>1. CASE UpsertSelect(h)
    <3>1. Genuine(row[request[h].share], request[h].share)
      BY <1>0 DEF ExpiryInv
    <3>2. Kept([request[h] EXCEPT !.step = "saving",
                                  !.selected = row[request[h].share]])
      BY <1>0, <3>1 DEF Kept, Request, Holding, Judging
    <3>3. QED  BY <1>1, <2>1, <3>2, SetKept DEF UpsertSelect
  <2>2. CASE UpsertSucceeds(h)
    <3>1. Kept(AfterUpsert(h))
      BY <1>0 DEF AfterUpsert, Kept, Request, Holding, Judging, Genuine, Idle
    <3>2. QED  BY <1>1, <2>2, <3>1, SetKept DEF UpsertSucceeds
  <2>3. CASE UpsertConflicts(h)
    BY <1>1, <2>3, FinishKept DEF UpsertConflicts
  <2>4. CASE UpsertBreaks(h)
    BY <1>0, <1>1, <2>4, FinishKept, RetryKept DEF UpsertBreaks
  <2>5. QED  BY <2>1, <2>2, <2>3, <2>4 DEF Upsert
<1>5. QED  BY <1>2, <1>3, <1>4 DEF ExpiryInv

LEMMA DeleteKept ==
  ASSUME ExpiryInv, NEW h \in Handlers, Delete(h)
  PROVE  ExpiryInv'
<1>. USE DEF StoreUnchanged, EnvUnchanged
<1>0. request[h].step \in {"deleting", "removing"}
  BY DEF Delete, DeleteSucceeds, DeleteBreaks, Deleting, At
<1>1. /\ UNCHANGED <<now, expiry>>
      /\ UNCHANGED row \/ row' = [row EXCEPT ![request[h].share] = NoRow]
  BY DEF Delete, DeleteSucceeds, DeleteBreaks
<1>2. TypeOK'
  BY DeleteType DEF ExpiryInv
<1>3. \A s \in Shares : Genuine(row[s], s)'
  BY <1>1 DEF ExpiryInv, TypeOK, Genuine
<1>4. \A g \in Handlers : Kept(request[g])'
  BY <1>0, <1>1, FinishKept, RetryKept DEF Delete, DeleteSucceeds, DeleteBreaks
<1>5. QED  BY <1>2, <1>3, <1>4 DEF ExpiryInv

LEMMA ReadKept ==
  ASSUME ExpiryInv, NEW h \in Handlers, NEW s \in Shares,
         AccessRead(h, s) \/ RemovalRead(h, s)
  PROVE  ExpiryInv'
<1>. USE DEF StoreUnchanged, EnvUnchanged
<1>1. /\ UNCHANGED <<row, now, expiry>> /\ row[s] # NoRow
      /\ Genuine(row[s], s) /\ now \in Nat
  BY DEF AccessRead, RemovalRead, ExpiryInv, TypeOK
<1>2. TypeOK'
  BY ReadType DEF ExpiryInv
<1>3. \A t \in Shares : Genuine(row[t], t)'
  BY <1>1 DEF ExpiryInv, Genuine
<1>4. \A g \in Handlers : Kept(request[g])'
  <2>1. CASE AccessRead(h, s)
    <3>1. PICK v : Set(h, [Idle EXCEPT !.step = "checking", !.share = s,
                              !.copy = row[s], !.verdict = v, !.seen = now])
      BY <2>1 DEF AccessRead
    <3>2. Kept([Idle EXCEPT !.step = "checking", !.share = s, !.copy = row[s],
                            !.verdict = v, !.seen = now])
      BY <1>1 DEF Kept, Idle, Genuine, Holding, Judging
    <3>3. QED  BY <1>1, <3>1, <3>2, SetKept
  <2>2. CASE RemovalRead(h, s)
    <3>1. Kept([Idle EXCEPT !.step = "removing", !.share = s, !.tries = 1,
                            !.seen = now])
      BY <1>1 DEF Kept, Idle, Genuine, Holding, Judging
    <3>2. QED  BY <1>1, <2>2, <3>1, SetKept DEF RemovalRead
  <2>3. QED  BY <2>1, <2>2
<1>5. QED  BY <1>2, <1>3, <1>4 DEF ExpiryInv

LEMMA ExpiryInvStep == ExpiryInv /\ [Next]_vars => ExpiryInv'
<1>. SUFFICES ASSUME ExpiryInv, [Next]_vars PROVE ExpiryInv'
  OBVIOUS
<1>0. TypeOK'
  BY TypeStep DEF ExpiryInv
<1>1. ASSUME NEW s \in Shares, Create(s) PROVE ExpiryInv'
  <2>1. PICK hours \in Lifetimes :
            /\ row' = [row EXCEPT ![s] = [NoRow EXCEPT !.expires = now + hours]]
            /\ expiry' = [expiry EXCEPT ![s] = now + hours]
    BY <1>1 DEF Create
  <2>2. /\ expiry[s] = 0 /\ UNCHANGED <<request, now>>
        /\ now + hours > 0 /\ now + hours \in Nat
    BY <1>1, TimesAssumption DEF Create, EnvUnchanged, ExpiryInv, TypeOK
  <2>3. \A t \in Shares : Genuine(row[t], t)'
    BY <2>1, <2>2 DEF ExpiryInv, TypeOK, Genuine, NoRow
  <2>4. ASSUME NEW h \in Handlers PROVE Kept(request[h])'
    <3>1. Kept(request[h]) /\ request[h].seen \in Nat
      BY RequestFields DEF ExpiryInv
    <3>2. request[h].step # "idle" => request[h].share \in Shares
      BY RequestFields DEF ExpiryInv
    <3>3. CASE request[h].step # "idle" /\ request[h].share = s
      BY <2>1, <2>2, <3>1, <3>3 DEF Kept, Genuine, ExpiryInv, TypeOK
    <3>4. CASE ~(request[h].step # "idle" /\ request[h].share = s)
      BY <2>1, <2>2, <3>1, <3>2, <3>4 DEF Kept, Genuine, ExpiryInv, TypeOK
    <3>5. QED  BY <3>3, <3>4
  <2>5. QED  BY <1>0, <2>3, <2>4 DEF ExpiryInv
<1>2. ASSUME NEW h \in Handlers, NEW s \in Shares,
             AccessRead(h, s) \/ RemovalRead(h, s)
      PROVE  ExpiryInv'
  BY <1>2, ReadKept
<1>3. ASSUME NEW h \in Handlers, Access(h) \/ Upsert(h) \/ Delete(h)
      PROVE  ExpiryInv'
  BY <1>3, AccessKept, UpsertKept, DeleteKept
<1>4. CASE CleanupPass
  <2>1. /\ UNCHANGED <<request, now, expiry>>
        /\ \A s \in Shares : row'[s] = row[s] \/ row'[s] = NoRow
    BY <1>4 DEF CleanupPass, CleanupStart, CleanupCount, CleanupDelete,
       CleanupReport, CleanupBreaks, CleanupRemoves, CleanupUnchanged
  <2>2. QED  BY <1>0, <2>1 DEF ExpiryInv, Kept, Genuine
<1>5. CASE Tick
  <2>1. /\ UNCHANGED <<row, request, expiry>> /\ now \in Nat /\ now' = now + 1
    BY <1>5 DEF Tick, ExpiryInv, TypeOK
  <2>2. \A h \in Handlers : request[h].seen \in Nat
    BY RequestFields DEF ExpiryInv
  <2>3. QED  BY <1>0, <2>1, <2>2 DEF ExpiryInv, Kept, Genuine
<1>6. CASE Restart
  BY <1>0, <1>6 DEF Restart, StoreUnchanged, ExpiryInv, Kept, Genuine, Idle
<1>7. CASE UNCHANGED vars
  BY <1>0, <1>7 DEF vars, ExpiryInv, Kept, Genuine
<1>8. QED
  BY <1>1, <1>2, <1>3, <1>4, <1>5, <1>6, <1>7 DEF Next

LEMMA ExpiryInvImplies == ExpiryInv => NoAccessAfterExpiry
BY DEF ExpiryInv, Kept, NoAccessAfterExpiry, Judging

(* A request that arrives after the expiry of a share never gets past the  *)
(* expiry check, whatever other requests, the cleanup, retries and         *)
(* restarts do to the row (ShareController.cs:176).                        *)
THEOREM ExpiryRespected == Spec => []NoAccessAfterExpiry
<1>1. Spec => []ExpiryInv
  BY ExpiryInvInit, ExpiryInvStep, PTL DEF Spec
<1>2. QED  BY <1>1, ExpiryInvImplies, PTL

-----------------------------------------------------------------------------
(* Removal is final unless a request holds a copy.                         *)

LEMMA OnlyHoldersWrite ==
  ASSUME TypeOK, Next, NEW s \in Shares, expiry[s] # 0, row[s] = NoRow, Free(s)
  PROVE  row'[s] = NoRow
<1>1. ASSUME NEW t \in Shares, Create(t) PROVE row'[s] = NoRow
  BY <1>1 DEF Create, TypeOK
<1>2. ASSUME NEW h \in Handlers, NEW t \in Shares,
             AccessRead(h, t) \/ RemovalRead(h, t)
      PROVE  row'[s] = NoRow
  BY <1>2 DEF AccessRead, RemovalRead, StoreUnchanged
<1>3. ASSUME NEW h \in Handlers, Access(h) PROVE row'[s] = NoRow
  BY <1>3 DEF Access, AccessExpired, AccessPaused, AccessLapsed, AccessOpen,
     VerifyWrong, VerifyInvalid, VerifyRight, RecordFailure,
     ConfigurationFails, Reveal, StoreUnchanged
<1>4. ASSUME NEW h \in Handlers, Upsert(h) PROVE row'[s] = NoRow
  <2>1. request[h].share # s
    BY DEF Free
  <2>2. UNCHANGED row \/ Write(h)
    BY <1>4 DEF Upsert, UpsertSelect, UpsertSucceeds, UpsertConflicts,
       UpsertBreaks, StoreUnchanged
  <2>3. QED  BY <2>1, <2>2 DEF Write, TypeOK
<1>5. ASSUME NEW h \in Handlers, Delete(h) PROVE row'[s] = NoRow
  BY <1>5 DEF Delete, DeleteSucceeds, DeleteBreaks, TypeOK
<1>6. CASE CleanupPass
  BY <1>6 DEF CleanupPass, CleanupStart, CleanupCount, CleanupDelete,
     CleanupReport, CleanupBreaks, CleanupRemoves
<1>7. CASE Tick \/ Restart
  BY <1>7 DEF Tick, Restart, StoreUnchanged
<1>8. QED
  BY <1>1, <1>2, <1>3, <1>4, <1>5, <1>6, <1>7 DEF Next

(* A deleted share comes back only through a copy that a request read      *)
(* before the deletion (DbShareStore.cs:77-80): with none in flight the    *)
(* deletion is final.                                                      *)
THEOREM RemovalFinal == Spec => RemovalFinalWhenFree
<1>1. TypeOK /\ [Next]_vars =>
        [\A s \in Shares :
          expiry[s] # 0 /\ row[s] = NoRow /\ Free(s) => row'[s] = NoRow]_vars
  BY OnlyHoldersWrite
<1>2. QED
  BY <1>1, TypeCorrect, PTL DEF Spec, RemovalFinalWhenFree

(* Gone: the row of a share that was created is not there, and nothing but *)
(* further deletions is under way at it.                                   *)
Gone(s) ==
    /\ expiry[s] # 0 /\ row[s] = NoRow
    /\ \A h \in Handlers : request[h].share = s => Deleting(h)

\* A handler goes on with the share it is at, or leaves it.
LEMMA SameShare ==
  ASSUME TypeOK, NEW h \in Handlers, Access(h) \/ Upsert(h)
  PROVE  /\ \A g \in Handlers \ {h} : request'[g] = request[g]
         /\ request'[h].share \in {request[h].share, NoShare}
<1>. DEFINE Same(r) == r.share \in {request[h].share, NoShare}
<1>0. request[h] \in Request
  BY DEF TypeOK
<1>1. ASSUME NEW r, Set(h, r), Same(r)
      PROVE  /\ \A g \in Handlers \ {h} : request'[g] = request[g]
             /\ request'[h].share \in {request[h].share, NoShare}
  BY <1>1 DEF Set, TypeOK
<1>2. Same(Idle)
  BY DEF Idle
<1>3. CASE Finish(h)
  BY <1>1, <1>2, <1>3 DEF Finish
<1>4. CASE AccessExpired(h)
  <2>1. Same([request[h] EXCEPT !.step = "deleting", !.tries = 1,
                                !.copy = NoRow, !.verdict = "none"])
    BY <1>0 DEF Request
  <2>2. QED  BY <1>1, <1>4, <2>1 DEF AccessExpired
<1>5. CASE AccessLapsed(h)
  <2>1. Same([request[h] EXCEPT !.step = "selecting", !.goal = "lapse",
                                !.copy = WithoutFailures(@), !.tries = 1])
    BY <1>0 DEF Request
  <2>2. QED  BY <1>1, <1>5, <2>1 DEF AccessLapsed
<1>6. CASE AccessOpen(h)
  <2>1. Same([request[h] EXCEPT !.step = "verifying"])
    BY <1>0 DEF Request
  <2>2. QED  BY <1>1, <1>6, <2>1 DEF AccessOpen
<1>7. CASE VerifyWrong(h)
  <2>1. Same([request[h] EXCEPT !.step = "configuring", !.verdict = "none"])
    BY <1>0 DEF Request
  <2>2. QED  BY <1>1, <1>7, <2>1 DEF VerifyWrong
<1>8. CASE VerifyRight(h)
  <2>1. Same([request[h] EXCEPT !.step = "selecting", !.goal = "success",
                 !.copy = WithAccess(@), !.tries = 1, !.verdict = "none"])
    BY <1>0 DEF Request
  <2>2. QED  BY <1>1, <1>8, <2>1 DEF VerifyRight
<1>9. CASE RecordFailure(h)
  <2>1. PICK limit \in Limits, minutes \in PauseLengths :
          Set(h, [request[h] EXCEPT !.step = "selecting", !.goal = "failure",
                     !.copy = WithFailure(@, limit, minutes), !.tries = 1])
    BY <1>9 DEF RecordFailure
  <2>2. Same([request[h] EXCEPT !.step = "selecting", !.goal = "failure",
                 !.copy = WithFailure(@, limit, minutes), !.tries = 1])
    BY <1>0 DEF Request
  <2>3. QED  BY <1>1, <2>1, <2>2
<1>10. CASE UpsertSelect(h)
  <2>1. Same([request[h] EXCEPT !.step = "saving",
                                !.selected = row[request[h].share]])
    BY <1>0 DEF Request
  <2>2. QED  BY <1>1, <1>10, <2>1 DEF UpsertSelect
<1>11. CASE UpsertSucceeds(h)
  <2>1. Same(AfterUpsert(h))
    BY <1>0 DEF AfterUpsert, Request, Idle
  <2>2. QED  BY <1>1, <1>11, <2>1 DEF UpsertSucceeds
<1>12. CASE Retry(h, "selecting")
  <2>1. Same([request[h] EXCEPT !.step = "selecting", !.tries = @ + 1,
                                !.selected = NoRow])
    BY <1>0 DEF Request
  <2>2. QED  BY <1>1, <1>12, <2>1 DEF Retry
<1>13. QED
  BY <1>3, <1>4, <1>5, <1>6, <1>7, <1>8, <1>9, <1>10, <1>11, <1>12
  DEF Access, AccessPaused, VerifyInvalid, ConfigurationFails, Reveal,
      Upsert, UpsertConflicts, UpsertBreaks

LEMMA GoneStays ==
  ASSUME TypeOK, [Next]_vars, NEW s \in Shares, Gone(s)
  PROVE  Gone(s)'
<1>1. CASE UNCHANGED vars
  BY <1>1 DEF vars, Gone, Deleting, At
<1>2. ASSUME NEW t \in Shares, Create(t) PROVE Gone(s)'
  BY <1>2 DEF Create, TypeOK, Gone, Deleting, At
<1>3. ASSUME NEW h \in Handlers, NEW t \in Shares,
             AccessRead(h, t) \/ RemovalRead(h, t)
      PROVE  Gone(s)'
  <2>1. t # s /\ UNCHANGED <<row, expiry>>
    BY <1>3 DEF AccessRead, RemovalRead, StoreUnchanged, Gone
  <2>2. ASSUME NEW r, Set(h, r), r.share = t PROVE Gone(s)'
    BY <2>1, <2>2 DEF Gone, Set, TypeOK, Deleting, At
  <2>3. CASE AccessRead(h, t)
    <3>1. PICK v : Set(h, [Idle EXCEPT !.step = "checking", !.share = t,
                              !.copy = row[t], !.verdict = v, !.seen = now])
      BY <2>3 DEF AccessRead
    <3>2. [Idle EXCEPT !.step = "checking", !.share = t, !.copy = row[t],
                       !.verdict = v, !.seen = now].share = t
      BY DEF Idle
    <3>3. QED  BY <2>2, <3>1, <3>2
  <2>4. CASE RemovalRead(h, t)
    <3>1. [Idle EXCEPT !.step = "removing", !.share = t, !.tries = 1,
                       !.seen = now].share = t
      BY DEF Idle
    <3>2. QED  BY <2>2, <2>4, <3>1 DEF RemovalRead
  <2>5. QED  BY <1>3, <2>3, <2>4
<1>4. ASSUME NEW h \in Handlers, Access(h) \/ Upsert(h) PROVE Gone(s)'
  <2>1. ~Deleting(h)
    BY <1>4 DEF Access, AccessExpired, AccessUnderway, AccessPaused, AccessLapsed,
       AccessOpen, VerifyWrong, VerifyInvalid, VerifyRight, RecordFailure,
       ConfigurationFails, Reveal, Upsert, UpsertSelect, UpsertSucceeds,
       UpsertConflicts, UpsertBreaks, Savable, Deleting, At
  <2>2. request[h].share # s
    BY <2>1 DEF Gone
  <2>3. UNCHANGED expiry /\ (UNCHANGED row \/ Write(h))
    BY <1>4 DEF Access, AccessExpired, AccessPaused, AccessLapsed, AccessOpen,
       VerifyWrong, VerifyInvalid, VerifyRight, RecordFailure, ConfigurationFails,
       Reveal, Upsert, UpsertSelect, UpsertSucceeds, UpsertConflicts, UpsertBreaks,
       StoreUnchanged
  <2>4. row'[s] = NoRow
    BY <2>2, <2>3 DEF Write, TypeOK, Gone
  <2>5. QED
    BY <1>4, <2>2, <2>3, <2>4, SameShare, SharesAssumption DEF Gone, Deleting, At
<1>5. ASSUME NEW h \in Handlers, Delete(h) PROVE Gone(s)'
  <2>1. row'[s] = NoRow /\ UNCHANGED expiry /\ Deleting(h)
    BY <1>5 DEF Delete, DeleteSucceeds, DeleteBreaks, TypeOK, Gone
  <2>2. ASSUME NEW r, Set(h, r), r.step \in {"deleting", "removing"} \/ r.share # s
        PROVE  Gone(s)'
    BY <2>1, <2>2 DEF Gone, Set, TypeOK, Deleting, At
  <2>3. CASE Finish(h)
    BY <2>2, <2>3, SharesAssumption DEF Finish, Idle
  <2>4. CASE Retry(h, request[h].step)
    <3>1. request[h] \in Request
      BY DEF TypeOK
    <3>2. [request[h] EXCEPT !.step = request[h].step, !.tries = @ + 1,
              !.selected = NoRow].step \in {"deleting", "removing"}
      BY <2>1, <3>1 DEF Deleting, At, Request
    <3>3. QED  BY <2>2, <2>4, <3>2 DEF Retry
  <2>5. QED  BY <1>5, <2>3, <2>4 DEF Delete, DeleteSucceeds, DeleteBreaks
<1>6. CASE CleanupPass
  BY <1>6 DEF CleanupPass, CleanupStart, CleanupCount, CleanupDelete, CleanupReport,
     CleanupBreaks, CleanupRemoves, CleanupUnchanged, Gone, Deleting, At
<1>7. CASE Tick
  BY <1>7 DEF Tick, Gone, Deleting, At
<1>8. CASE Restart
  BY <1>8, SharesAssumption DEF Restart, StoreUnchanged, Idle, Gone
<1>9. QED
  BY <1>1, <1>2, <1>3, <1>4, <1>5, <1>6, <1>7, <1>8 DEF Next

(* A share whose row is gone is gone for ever once no copy of it is in     *)
(* flight, however many requests overlap, also those that delete what is   *)
(* not there any more: nothing reads or creates it anew                    *)
(* (DbShareStore.cs:77-80, 90-103).                                        *)
THEOREM GoneForGood ==
  ASSUME NEW s \in Shares PROVE Spec => [](Gone(s) => []Gone(s))
<1>1. TypeOK /\ Gone(s) /\ [Next]_vars => Gone(s)'
  BY GoneStays
<1>2. QED  BY <1>1, TypeCorrect, PTL DEF Spec
-----------------------------------------------------------------------------
(* Pauses end.  Whatever copy is saved over whatever row, a pause was      *)
(* computed from the time of a failure, which is not later than now.       *)

Bounded(r) == r.paused # 0 => WithinPause(r.paused)

PauseInv ==
    /\ TypeOK
    /\ \A s \in Shares : Bounded(row[s])
    /\ \A h \in Handlers : Bounded(request[h].copy) /\ Bounded(request[h].selected)

\* What is saved has its pause from the row or from the copy.
LEMMA SavedBounded ==
  ASSUME NEW stored, NEW selected, NEW copy, Bounded(stored), Bounded(copy)
  PROVE  Bounded(Saved(stored, selected, copy))
<1>1. NoRow.paused = 0
  BY DEF NoRow
<1>2. Merge(stored, selected, copy).paused \in {stored.paused, copy.paused}
  BY DEF Merge, Column
<1>3. QED  BY <1>1, <1>2 DEF Saved, Bounded

\* And what handlers make of a copy has it from there or from now.
LEMMA CopiesBounded ==
  ASSUME NEW r \in Row, Bounded(r), now \in Nat
  PROVE  /\ Bounded(WithoutFailures(r)) /\ Bounded(WithAccess(r))
         /\ \A limit \in Limits, minutes \in PauseLengths :
                Bounded(WithFailure(r, limit, minutes))
<1>1. WithoutFailures(r).paused = 0 /\ WithAccess(r).paused = 0
  BY DEF WithoutFailures, WithAccess, Row
<1>2. ASSUME NEW limit \in Limits, NEW minutes \in PauseLengths
      PROVE  Bounded(WithFailure(r, limit, minutes))
  <2>1. WithFailure(r, limit, minutes).paused \in {r.paused, now + AtLeast1(minutes)}
    BY DEF WithFailure, Row
  <2>2. now + AtLeast1(minutes) <= now + AtLeast1(minutes)
    BY AtLeast1Positive, LimitsAssumption
  <2>3. QED  BY <2>1, <2>2 DEF Bounded, WithinPause
<1>3. QED  BY <1>1, <1>2 DEF Bounded

LEMMA PauseSet ==
  ASSUME PauseInv, NEW h \in Handlers, NEW q, Set(h, q), UNCHANGED now,
         Bounded(q.copy), Bounded(q.selected)
  PROVE  \A g \in Handlers : Bounded(request[g].copy)' /\ Bounded(request[g].selected)'
BY DEF PauseInv, TypeOK, Set, Bounded, WithinPause

LEMMA PauseFinish ==
  ASSUME PauseInv, NEW h \in Handlers, Finish(h), UNCHANGED now
  PROVE  \A g \in Handlers : Bounded(request[g].copy)' /\ Bounded(request[g].selected)'
BY PauseSet DEF Finish, Idle, NoRow, Bounded

LEMMA PauseRetry ==
  ASSUME PauseInv, NEW h \in Handlers, NEW step, Retry(h, step), UNCHANGED now
  PROVE  \A g \in Handlers : Bounded(request[g].copy)' /\ Bounded(request[g].selected)'
<1>. DEFINE q == [request[h] EXCEPT !.step = step, !.tries = @ + 1,
                                    !.selected = NoRow]
<1>1. q.copy = request[h].copy /\ q.selected = NoRow
  BY RequestFields DEF PauseInv, Request
<1>2. Set(h, q)
  BY DEF Retry
<1>. HIDE DEF q
<1>3. QED  BY <1>1, <1>2, PauseSet DEF PauseInv, NoRow, Bounded

LEMMA PauseAccess ==
  ASSUME PauseInv, NEW h \in Handlers, Access(h)
  PROVE  \A g \in Handlers : Bounded(request[g].copy)' /\ Bounded(request[g].selected)'
<1>0. /\ request[h] \in Request /\ request[h].copy \in Row /\ now \in Nat
      /\ Bounded(request[h].copy) /\ Bounded(request[h].selected) /\ Bounded(NoRow)
  BY RequestFields DEF PauseInv, TypeOK, NoRow, Bounded
<1>1. UNCHANGED now
  BY DEF Access, AccessExpired, AccessPaused, AccessLapsed, AccessOpen,
         VerifyWrong, VerifyInvalid, VerifyRight, RecordFailure,
         ConfigurationFails, Reveal, EnvUnchanged
<1>2. CASE AccessExpired(h)
  <2>. DEFINE q == [request[h] EXCEPT !.step = "deleting", !.tries = 1,
                                      !.copy = NoRow, !.verdict = "none"]
  <2>1. q.copy = NoRow /\ q.selected = request[h].selected
    BY <1>0 DEF Request
  <2>2. Set(h, q)
    BY <1>2 DEF AccessExpired
  <2>. HIDE DEF q
  <2>3. QED  BY <1>0, <1>1, <2>1, <2>2, PauseSet
<1>3. CASE AccessLapsed(h)
  <2>. DEFINE q == [request[h] EXCEPT !.step = "selecting", !.goal = "lapse",
                                      !.copy = WithoutFailures(@), !.tries = 1]
  <2>1. q.copy = WithoutFailures(request[h].copy) /\ q.selected = request[h].selected
    BY <1>0 DEF Request
  <2>2. Set(h, q)
    BY <1>3 DEF AccessLapsed
  <2>. HIDE DEF q
  <2>3. QED  BY <1>0, <1>1, <2>1, <2>2, PauseSet, CopiesBounded
<1>4. CASE AccessOpen(h)
  <2>. DEFINE q == [request[h] EXCEPT !.step = "verifying"]
  <2>1. q.copy = request[h].copy /\ q.selected = request[h].selected
    BY <1>0 DEF Request
  <2>2. Set(h, q)
    BY <1>4 DEF AccessOpen
  <2>. HIDE DEF q
  <2>3. QED  BY <1>0, <1>1, <2>1, <2>2, PauseSet
<1>5. CASE VerifyWrong(h)
  <2>. DEFINE q == [request[h] EXCEPT !.step = "configuring", !.verdict = "none"]
  <2>1. q.copy = request[h].copy /\ q.selected = request[h].selected
    BY <1>0 DEF Request
  <2>2. Set(h, q)
    BY <1>5 DEF VerifyWrong
  <2>. HIDE DEF q
  <2>3. QED  BY <1>0, <1>1, <2>1, <2>2, PauseSet
<1>6. CASE VerifyRight(h)
  <2>. DEFINE q == [request[h] EXCEPT !.step = "selecting", !.goal = "success",
                        !.copy = WithAccess(@), !.tries = 1, !.verdict = "none"]
  <2>1. q.copy = WithAccess(request[h].copy) /\ q.selected = request[h].selected
    BY <1>0 DEF Request
  <2>2. Set(h, q)
    BY <1>6 DEF VerifyRight
  <2>. HIDE DEF q
  <2>3. QED  BY <1>0, <1>1, <2>1, <2>2, PauseSet, CopiesBounded
<1>7. CASE RecordFailure(h)
  <2>1. PICK limit \in Limits, minutes \in PauseLengths :
          Set(h, [request[h] EXCEPT !.step = "selecting", !.goal = "failure",
                     !.copy = WithFailure(@, limit, minutes), !.tries = 1])
    BY <1>7 DEF RecordFailure
  <2>. DEFINE q == [request[h] EXCEPT !.step = "selecting", !.goal = "failure",
                        !.copy = WithFailure(@, limit, minutes), !.tries = 1]
  <2>2. /\ q.copy = WithFailure(request[h].copy, limit, minutes)
        /\ q.selected = request[h].selected
    BY <1>0 DEF Request
  <2>3. Set(h, q)
    BY <2>1
  <2>. HIDE DEF q
  <2>4. QED  BY <1>0, <1>1, <2>2, <2>3, PauseSet, CopiesBounded
<1>8. QED
  BY <1>1, <1>2, <1>3, <1>4, <1>5, <1>6, <1>7, PauseFinish
     DEF Access, AccessPaused, VerifyInvalid, ConfigurationFails, Reveal

LEMMA PauseUpsert ==
  ASSUME PauseInv, NEW h \in Handlers, Upsert(h)
  PROVE  PauseInv'
<1>0. /\ request[h].step \in {"selecting", "saving"} /\ UNCHANGED now
  BY DEF Upsert, UpsertSelect, UpsertSucceeds, UpsertConflicts, UpsertBreaks,
         Savable, At, EnvUnchanged
<1>1. /\ request[h] \in Request /\ request[h].share \in Shares
      /\ Bounded(request[h].copy) /\ Bounded(row[request[h].share]) /\ Bounded(NoRow)
      /\ row \in [Shares -> Row]
  BY <1>0, RequestFields DEF PauseInv, TypeOK, NoRow, Bounded
<1>2. TypeOK'
  BY UpsertType DEF PauseInv
<1>3. \A s \in Shares : Bounded(row[s])'
  <2>. DEFINE new == Saved(row[request[h].share], request[h].selected, request[h].copy)
  <2>1. Bounded(new)
    BY <1>1, SavedBounded
  <2>2. row' = row \/ row' = [row EXCEPT ![request[h].share] = new]
    BY DEF Upsert, UpsertSelect, UpsertSucceeds, UpsertConflicts, UpsertBreaks,
           Write, StoreUnchanged
  <2>. HIDE DEF new
  <2>3. \A s \in Shares : row'[s] = row[s] \/ row'[s] = new
    BY <1>1, <2>2
  <2>4. QED  BY <1>0, <2>1, <2>3 DEF PauseInv, Bounded, WithinPause
<1>4. \A g \in Handlers : Bounded(request[g].copy)' /\ Bounded(request[g].selected)'
  <2>1. CASE UpsertSelect(h)
    <3>. DEFINE q == [request[h] EXCEPT !.step = "saving",
                                        !.selected = row[request[h].share]]
    <3>1. q.copy = request[h].copy /\ q.selected = row[request[h].share]
      BY <1>1 DEF Request
    <3>2. Set(h, q)
      BY <2>1 DEF UpsertSelect
    <3>. HIDE DEF q
    <3>3. QED  BY <1>0, <1>1, <3>1, <3>2, PauseSet
  <2>2. CASE UpsertSucceeds(h)
    <3>1. AfterUpsert(h).copy \in {request[h].copy, NoRow}
          /\ AfterUpsert(h).selected = NoRow
      BY <1>1 DEF AfterUpsert, Request, Idle
    <3>2. QED  BY <1>0, <1>1, <2>2, <3>1, PauseSet DEF UpsertSucceeds
  <2>3. QED
    BY <1>0, <2>1, <2>2, PauseFinish, PauseRetry
       DEF Upsert, UpsertConflicts, UpsertBreaks
<1>5. QED  BY <1>2, <1>3, <1>4 DEF PauseInv

LEMMA PauseRead ==
  ASSUME PauseInv, NEW h \in Handlers, NEW s \in Shares,
         AccessRead(h, s) \/ RemovalRead(h, s)
  PROVE  \A g \in Handlers : Bounded(request[g].copy)' /\ Bounded(request[g].selected)'
<1>1. /\ UNCHANGED now /\ Bounded(row[s]) /\ Bounded(NoRow)
  BY DEF AccessRead, RemovalRead, EnvUnchanged, PauseInv, NoRow, Bounded
<1>2. PICK q : Set(h, q) /\ q.copy \in {row[s], NoRow} /\ q.selected = NoRow
  <2>1. CASE AccessRead(h, s)
    <3>1. PICK v : Set(h, [Idle EXCEPT !.step = "checking", !.share = s,
                              !.copy = row[s], !.verdict = v, !.seen = now])
      BY <2>1 DEF AccessRead
    <3>. DEFINE q == [Idle EXCEPT !.step = "checking", !.share = s,
                              !.copy = row[s], !.verdict = v, !.seen = now]
    <3>2. q.copy = row[s] /\ q.selected = NoRow
      BY DEF Idle
    <3>3. Set(h, q)
      BY <3>1
    <3>. HIDE DEF q
    <3>4. QED  BY <3>2, <3>3
  <2>2. CASE RemovalRead(h, s)
    <3>. DEFINE q == [Idle EXCEPT !.step = "removing", !.share = s, !.tries = 1,
                                  !.seen = now]
    <3>1. q.copy = NoRow /\ q.selected = NoRow
      BY DEF Idle
    <3>2. Set(h, q)
      BY <2>2 DEF RemovalRead
    <3>. HIDE DEF q
    <3>3. QED  BY <3>1, <3>2
  <2>3. QED  BY <2>1, <2>2
<1>3. QED  BY <1>1, <1>2, PauseSet

LEMMA PauseStep == PauseInv /\ [Next]_vars => PauseInv'
<1>. SUFFICES ASSUME PauseInv, [Next]_vars PROVE PauseInv'
  OBVIOUS
<1>0. TypeOK' /\ TypeOK /\ now \in Nat /\ row \in [Shares -> Row]
  BY TypeStep DEF PauseInv, TypeOK
<1>1. \A r : Bounded(r) /\ now' = now => (r.paused # 0 => WithinPause(r.paused)')
  BY DEF Bounded, WithinPause
<1>2. ASSUME NEW s \in Shares, Create(s) PROVE PauseInv'
  <2>1. PICK hours \in Lifetimes :
            row' = [row EXCEPT ![s] = [NoRow EXCEPT !.expires = now + hours]]
    BY <1>2 DEF Create
  <2>2. row'[s].paused = 0 /\ \A t \in Shares \ {s} : row'[t] = row[t]
    BY <1>0, <2>1 DEF NoRow
  <2>3. UNCHANGED <<request, now>>
    BY <1>2 DEF Create, EnvUnchanged
  <2>4. QED  BY <1>0, <2>2, <2>3 DEF PauseInv, Bounded, WithinPause
<1>3. ASSUME NEW h \in Handlers, NEW s \in Shares,
             AccessRead(h, s) \/ RemovalRead(h, s)
      PROVE  PauseInv'
  <2>1. UNCHANGED <<row, now>>
    BY <1>3 DEF AccessRead, RemovalRead, StoreUnchanged, EnvUnchanged
  <2>2. QED  BY <1>0, <1>3, <2>1, PauseRead DEF PauseInv, Bounded, WithinPause
<1>4. ASSUME NEW h \in Handlers, Access(h) PROVE PauseInv'
  <2>1. UNCHANGED <<row, now>>
    BY <1>4 DEF Access, AccessExpired, AccessPaused, AccessLapsed, AccessOpen,
         VerifyWrong, VerifyInvalid, VerifyRight, RecordFailure,
         ConfigurationFails, Reveal, StoreUnchanged, EnvUnchanged
  <2>2. QED  BY <1>0, <1>4, <2>1, PauseAccess DEF PauseInv, Bounded, WithinPause
<1>5. ASSUME NEW h \in Handlers, Delete(h) PROVE PauseInv'
  <2>1. UNCHANGED now /\ \A s \in Shares : row'[s] = row[s] \/ row'[s] = NoRow
    BY <1>0, <1>5 DEF Delete, DeleteSucceeds, DeleteBreaks, EnvUnchanged
  <2>2. \A g \in Handlers : Bounded(request[g].copy)' /\ Bounded(request[g].selected)'
    BY <1>5, <2>1, PauseFinish, PauseRetry DEF Delete, DeleteSucceeds, DeleteBreaks
  <2>3. QED  BY <1>0, <2>1, <2>2 DEF PauseInv, Bounded, WithinPause, NoRow
<1>6. CASE CleanupPass
  <2>1. /\ UNCHANGED <<request, now>>
        /\ \A s \in Shares : row'[s] = row[s] \/ row'[s] = NoRow
    BY <1>6 DEF CleanupPass, CleanupStart, CleanupCount, CleanupDelete,
       CleanupReport, CleanupBreaks, CleanupRemoves, CleanupUnchanged
  <2>2. QED  BY <1>0, <2>1 DEF PauseInv, Bounded, WithinPause, NoRow
<1>7. CASE Tick
  <2>1. now' = now + 1 /\ UNCHANGED <<row, request>>
    BY <1>7 DEF Tick
  <2>2. ASSUME NEW time \in Nat, WithinPause(time) PROVE WithinPause(time)'
    <3>1. PICK m \in PauseLengths : time <= now + AtLeast1(m)
      BY <2>2 DEF WithinPause
    <3>2. time <= now' + AtLeast1(m)
      BY <1>0, <2>1, <3>1, AtLeast1Positive, LimitsAssumption
    <3>3. QED  BY <3>2 DEF WithinPause
  <2>3. /\ \A s \in Shares : row[s].paused \in Nat
        /\ \A h \in Handlers : /\ request[h].copy.paused \in Nat
                               /\ request[h].selected.paused \in Nat
    BY <1>0, RequestFields DEF Row
  <2>4. QED  BY <1>0, <2>1, <2>2, <2>3 DEF PauseInv, Bounded
<1>8. CASE Restart
  BY <1>0, <1>8 DEF Restart, StoreUnchanged, PauseInv, Bounded, WithinPause, Idle, NoRow
<1>9. CASE UNCHANGED vars
  BY <1>0, <1>9 DEF vars, PauseInv, Bounded, WithinPause
<1>10. QED
  BY <1>2, <1>3, <1>4, <1>5, <1>6, <1>7, <1>8, <1>9, PauseUpsert DEF Next

LEMMA PauseInit == Init => PauseInv
BY TypeInit DEF Init, PauseInv, Bounded, Idle, NoRow

(* No mix of concurrent saves, from copies of any age, locks a share for   *)
(* longer than a pause length that was configured (ShareController.cs:352).*)
THEOREM PausesEnd == Spec => []PauseHorizon
<1>1. PauseInv => PauseHorizon
  BY DEF PauseInv, PauseHorizon, Bounded
<1>2. QED  BY <1>1, PauseInit, PauseStep, PTL DEF Spec
-----------------------------------------------------------------------------
(* One operation at a time.  When operations on one share do not overlap,  *)
(* a handler is alone on its share, and the copy it works on is the stored *)
(* row but for what it is about to change, also after a save whose answer  *)
(* was lost and that is repeated.                                          *)

\* What an opening, a failed attempt and the end of a pause make of a row.
Lapses(new, old, t) ==
    /\ old.paused # 0 /\ old.paused <= t
    /\ new.attempts = 0 /\ new.paused = 0 /\ new.accessed = old.accessed

Opens(new, old, t) ==
    /\ old.paused = 0
    /\ new.attempts = 0 /\ new.paused = 0
    /\ new.accessed \in 1..t /\ new.accessed >= old.accessed

Misses(new, old, t) ==
    /\ old.paused = 0
    /\ new.attempts = old.attempts + 1 /\ new.accessed = old.accessed
    /\ \E limit \in Limits :
          \/ new.attempts < AtLeast1(limit) /\ new.paused = 0
          \/ /\ new.attempts >= AtLeast1(limit)
             /\ \E m \in PauseLengths : new.paused \in 1..(t + AtLeast1(m))

(* The copy that a handler with locals q saves over the row rw of its      *)
(* share at time t, when n failed attempts were answered: it is the row    *)
(* already, or the row after what the handler is about.                    *)
SaveFits(q, rw, n, t) ==
    /\ rw # NoRow /\ q.copy.accessed <= t
    /\ q.goal \in {"lapse", "success", "failure"}
    /\ q.goal = "lapse" =>
          q.copy.paused = 0 /\ (q.copy = rw \/ Lapses(q.copy, rw, t))
    /\ q.goal = "success" =>
          /\ q.copy.paused = 0 /\ q.copy.accessed >= q.seen
          /\ q.copy = rw \/ Opens(q.copy, rw, t)
    /\ q.goal = "failure" =>
          q.copy.attempts > n /\ (q.copy = rw \/ Misses(q.copy, rw, t))

Fits(q, rw, n, t) ==
    /\ q.step \in {"checking", "verifying", "configuring"} =>
          rw # NoRow /\ q.copy = rw
    /\ q.step \in {"verifying", "configuring"} => rw.paused = 0
    /\ q.step \in {"selecting", "saving"} => SaveFits(q, rw, n, t)
    /\ q.step = "saving" => q.selected = rw
    /\ q.step = "revealing" =>
          rw # NoRow /\ rw.paused = 0 /\ rw.accessed >= q.seen

RowsInv ==
    \A s \in Shares :
      /\ row[s] # NoRow => counted[s] <= row[s].attempts /\ row[s].accessed <= now
      /\ s \in removed => row[s] = NoRow
      /\ expiry[s] = 0 => counted[s] = 0 /\ s \notin removed

CopiesInv ==
    \A h \in Handlers : request[h].step # "idle" =>
       LET s == request[h].share
       IN  expiry[s] > 0 /\ Fits(request[h], row[s], counted[s], now)

Alone ==
    \A h, g \in Handlers :
      h # g /\ request[h].step # "idle" => request[g].share # request[h].share

SerialInv == ExpiryInv /\ RowsInv /\ CopiesInv /\ Alone /\ now >= 1

LEMMA SerialInit == Init => SerialInv
<1>. SUFFICES ASSUME Init PROVE SerialInv
  OBVIOUS
<1>1. RowsInv
  BY DEF Init, RowsInv
<1>2. \A h \in Handlers : request[h].step = "idle"
  BY DEF Init, Idle
<1>3. CopiesInv /\ Alone /\ now >= 1
  BY <1>2 DEF Init, CopiesInv, Alone
<1>4. QED  BY <1>1, <1>3, ExpiryInvInit DEF SerialInv

\* A handler in the middle of something: its locals have their types.
LEMMA BusyFields ==
  ASSUME SerialInv, NEW h \in Handlers, request[h].step # "idle"
  PROVE  /\ request[h] \in Request /\ request[h].share \in Shares
         /\ request[h].copy \in Row /\ request[h].selected \in Row
         /\ row[request[h].share] \in Row /\ counted[request[h].share] \in Nat
         /\ request[h].seen \in Nat /\ request[h].seen <= now
         /\ now \in Nat /\ now >= 1
<1>1. TypeOK /\ now >= 1 /\ Kept(request[h])
  BY DEF SerialInv, ExpiryInv
<1>2. QED  BY <1>1, RequestFields DEF TypeOK, Kept

\* An operation that goes on, or ends, keeps its share to itself.
LEMMA SetAlone ==
  ASSUME SerialInv, NEW h \in Handlers, NEW q, Set(h, q),
         request[h].step # "idle", q = Idle \/ q.share = request[h].share
  PROVE  Alone'
<1>1. request'[h] = q /\ \A g \in Handlers \ {h} : request'[g] = request[g]
  BY DEF Set, SerialInv, ExpiryInv, TypeOK
<1>2. ASSUME NEW f \in Handlers, NEW g \in Handlers, f # g, request'[f].step # "idle"
      PROVE  request'[g].share # request'[f].share
  <2>1. CASE f = h
    <3>1. request'[f].share = request[h].share /\ request'[g] = request[g]
      BY <1>1, <1>2, <2>1 DEF Idle
    <3>2. QED  BY <1>2, <2>1, <3>1 DEF SerialInv, Alone
  <2>2. CASE f # h /\ g = h
    <3>1. request[f].step # "idle" /\ request'[f] = request[f]
      BY <1>1, <1>2, <2>2
    <3>2. request[h].share # request[f].share /\ request[f].share \in Shares
      BY <2>2, <3>1, BusyFields DEF SerialInv, Alone
    <3>3. Idle.share = NoShare
      BY DEF Idle
    <3>4. QED  BY <1>1, <2>2, <3>1, <3>2, <3>3, SharesAssumption
  <2>3. CASE f # h /\ g # h
    BY <1>1, <1>2, <2>3 DEF SerialInv, Alone
  <2>4. QED  BY <2>1, <2>2, <2>3
<1>3. QED  BY <1>2 DEF Alone

\* A step of one handler, which may write the row of its share.
LEMMA OwnStep ==
  ASSUME SerialInv, NEW h \in Handlers, NEW q, Set(h, q),
         request[h].step # "idle", q = Idle \/ q.share = request[h].share,
         NEW new \in Row, NEW n \in Nat,
         row' = [row EXCEPT ![request[h].share] = new],
         counted' = [counted EXCEPT ![request[h].share] = n],
         removed' = removed \/ removed' = removed \cup {request[h].share},
         new # NoRow =>
            n <= new.attempts /\ new.accessed <= now /\ request[h].share \notin removed',
         q.step # "idle" => Fits(q, new, n, now),
         ExpiryInv', UNCHANGED <<expiry, now>>
  PROVE  SerialInv'
<1>. DEFINE s == request[h].share
<1>1. request'[h] = q /\ \A g \in Handlers \ {h} : request'[g] = request[g]
  BY DEF Set, SerialInv, ExpiryInv, TypeOK
<1>2. s \in Shares /\ expiry[s] > 0
  BY BusyFields DEF SerialInv, CopiesInv
<1>3. /\ row'[s] = new /\ counted'[s] = n
      /\ \A t \in Shares \ {s} :
            row'[t] = row[t] /\ counted'[t] = counted[t] /\ (t \in removed' <=> t \in removed)
  BY <1>2 DEF SerialInv, ExpiryInv, TypeOK
<1>4. Alone'
  BY SetAlone
<1>5. RowsInv'
  <2>1. ASSUME NEW t \in Shares
        PROVE  /\ row'[t] # NoRow => counted'[t] <= row'[t].attempts /\ row'[t].accessed <= now'
               /\ t \in removed' => row'[t] = NoRow
               /\ expiry'[t] = 0 => counted'[t] = 0 /\ t \notin removed'
    <3>1. CASE t = s
      BY <1>2, <1>3, <3>1
    <3>2. CASE t # s
      BY <1>3, <3>2 DEF SerialInv, RowsInv
    <3>3. QED  BY <3>1, <3>2
  <2>2. QED  BY <2>1 DEF RowsInv
<1>6. ASSUME NEW g \in Handlers, request'[g].step # "idle"
      PROVE  /\ expiry'[request'[g].share] > 0
             /\ Fits(request'[g], row'[request'[g].share], counted'[request'[g].share], now')
  <2>1. CASE g = h
    <3>1. request'[g] = q /\ q.share = s
      BY <1>1, <1>6, <2>1 DEF Idle
    <3>2. QED  BY <1>2, <1>3, <1>6, <3>1
  <2>2. CASE g # h
    <3>1. request'[g] = request[g] /\ request[g].step # "idle"
      BY <1>1, <1>6, <2>2
    <3>2. request[g].share \in Shares /\ request[g].share # s
      BY <2>2, <3>1, BusyFields DEF SerialInv, Alone
    <3>3. /\ expiry[request[g].share] > 0
          /\ Fits(request[g], row[request[g].share], counted[request[g].share], now)
      BY <3>1 DEF SerialInv, CopiesInv
    <3>4. QED  BY <1>3, <3>1, <3>2, <3>3
  <2>3. QED  BY <2>1, <2>2
<1>7. CopiesInv'
  BY <1>6 DEF CopiesInv
<1>8. QED  BY <1>4, <1>5, <1>7 DEF SerialInv

\* One that writes nothing.
LEMMA LocalStep ==
  ASSUME SerialInv, NEW h \in Handlers, NEW q, Set(h, q),
         request[h].step # "idle", q = Idle \/ q.share = request[h].share,
         q.step # "idle" =>
            Fits(q, row[request[h].share], counted[request[h].share], now),
         ExpiryInv', UNCHANGED <<row, counted, removed, expiry, now>>
  PROVE  SerialInv'
<1>. DEFINE s == request[h].share
<1>1. s \in Shares /\ row[s] \in Row /\ counted[s] \in Nat
  BY BusyFields
<1>2. row' = [row EXCEPT ![s] = row[s]] /\ counted' = [counted EXCEPT ![s] = counted[s]]
  BY <1>1 DEF SerialInv, ExpiryInv, TypeOK
<1>3. row[s] # NoRow =>
         counted[s] <= row[s].attempts /\ row[s].accessed <= now /\ s \notin removed'
  BY <1>1 DEF SerialInv, RowsInv
<1>4. QED  BY <1>1, <1>2, <1>3, OwnStep

LEMMA ReadSerial ==
  ASSUME SerialInv, ~Overlap, NEW h \in Handlers, NEW s \in Shares,
         AccessRead(h, s) \/ RemovalRead(h, s), ExpiryInv'
  PROVE  SerialInv'
<1>1. /\ UNCHANGED <<row, counted, removed, expiry, now>>
      /\ row[s] # NoRow /\ Free(s)
  BY DEF AccessRead, RemovalRead, MayStart, StoreUnchanged, EnvUnchanged
<1>2. PICK q : /\ Set(h, q) /\ q.share = s /\ q.step \in {"checking", "removing"}
               /\ q.step = "checking" => q.copy = row[s]
  <2>1. CASE AccessRead(h, s)
    <3>1. PICK v : Set(h, [Idle EXCEPT !.step = "checking", !.share = s,
                              !.copy = row[s], !.verdict = v, !.seen = now])
      BY <2>1 DEF AccessRead
    <3>. DEFINE q == [Idle EXCEPT !.step = "checking", !.share = s,
                              !.copy = row[s], !.verdict = v, !.seen = now]
    <3>2. q.share = s /\ q.step = "checking" /\ q.copy = row[s]
      BY DEF Idle
    <3>3. Set(h, q)
      BY <3>1
    <3>. HIDE DEF q
    <3>4. QED  BY <3>2, <3>3
  <2>2. CASE RemovalRead(h, s)
    <3>. DEFINE q == [Idle EXCEPT !.step = "removing", !.share = s, !.tries = 1,
                                  !.seen = now]
    <3>1. q.share = s /\ q.step = "removing"
      BY DEF Idle
    <3>2. Set(h, q)
      BY <2>2 DEF RemovalRead
    <3>. HIDE DEF q
    <3>3. QED  BY <3>1, <3>2
  <2>3. QED  BY <2>1, <2>2
<1>3. request'[h] = q /\ \A g \in Handlers \ {h} : request'[g] = request[g]
  BY <1>2 DEF Set, SerialInv, ExpiryInv, TypeOK
<1>4. Alone'
  BY <1>1, <1>2, <1>3 DEF SerialInv, Alone, Free
<1>5. RowsInv' /\ now' >= 1
  BY <1>1 DEF SerialInv, RowsInv
<1>6. Fits(q, row[s], counted[s], now) /\ expiry[s] > 0
  BY <1>1, <1>2 DEF Fits, SerialInv, ExpiryInv, Genuine
<1>7. CopiesInv'
  BY <1>1, <1>2, <1>3, <1>6 DEF SerialInv, CopiesInv
<1>8. QED  BY <1>4, <1>5, <1>7 DEF SerialInv

-----------------------------------------------------------------------------
(* The handlers' own steps.                                                *)

LEMMA WithoutFailuresIs ==
  ASSUME NEW r \in Row
  PROVE  /\ WithoutFailures(r) \in Row
         /\ WithoutFailures(r).attempts = 0 /\ WithoutFailures(r).paused = 0
         /\ WithoutFailures(r).accessed = r.accessed
BY DEF WithoutFailures, Row

LEMMA WithAccessIs ==
  ASSUME NEW r \in Row, now \in Nat
  PROVE  /\ WithAccess(r).attempts = 0 /\ WithAccess(r).paused = 0
         /\ WithAccess(r).accessed = now
<1>. DEFINE cleared == WithoutFailures(r)
<1>1. cleared \in Row /\ cleared.attempts = 0 /\ cleared.paused = 0
  BY WithoutFailuresIs
<1>2. WithAccess(r) = [cleared EXCEPT !.accessed = now]
  BY DEF WithAccess
<1>. HIDE DEF cleared
<1>3. QED  BY <1>1, <1>2 DEF Row

LEMMA WithFailureIs ==
  ASSUME NEW r \in Row, r.paused = 0, now \in Nat, now >= 1,
         NEW limit \in Limits, NEW minutes \in PauseLengths
  PROVE  Misses(WithFailure(r, limit, minutes), r, now)
<1>. DEFINE new == WithFailure(r, limit, minutes)
<1>1. /\ AtLeast1(limit) \in Nat /\ AtLeast1(minutes) \in Nat /\ AtLeast1(minutes) >= 1
      /\ r.attempts \in Nat
  BY AtLeast1Positive, LimitsAssumption DEF Row
<1>2. /\ new.attempts = r.attempts + 1 /\ new.accessed = r.accessed
      /\ new.paused = IF r.attempts + 1 >= AtLeast1(limit)
                      THEN now + AtLeast1(minutes) ELSE r.paused
  <2>. DEFINE counting == [r EXCEPT !.attempts = r.attempts + 1]
              until == IF r.attempts + 1 >= AtLeast1(limit)
                       THEN now + AtLeast1(minutes) ELSE r.paused
  <2>1. /\ counting.attempts = r.attempts + 1 /\ counting.accessed = r.accessed
        /\ counting.paused = r.paused /\ DOMAIN counting = DOMAIN r
        /\ "paused" \in DOMAIN r
    BY DEF Row
  <2>2. new = [counting EXCEPT !.paused = until]
    BY DEF WithFailure
  <2>. HIDE DEF counting, until, new
  <2>3. new.attempts = counting.attempts /\ new.accessed = counting.accessed
        /\ new.paused = until
    BY <2>1, <2>2
  <2>4. QED  BY <2>1, <2>3 DEF until
<1>. HIDE DEF new
<1>3. CASE r.attempts + 1 >= AtLeast1(limit)
  <2>1. new.paused = now + AtLeast1(minutes)
    BY <1>2, <1>3
  <2>2. new.paused \in 1..(now + AtLeast1(minutes))
    BY <1>1, <2>1
  <2>3. QED  BY <1>2, <1>3, <2>2 DEF Misses, new
<1>4. CASE ~(r.attempts + 1 >= AtLeast1(limit))
  <2>1. new.paused = 0 /\ r.attempts + 1 < AtLeast1(limit)
    BY <1>1, <1>2, <1>4
  <2>2. QED  BY <1>2, <2>1 DEF Misses, new
<1>5. QED  BY <1>3, <1>4

LEMMA AccessSerial ==
  ASSUME SerialInv, NEW h \in Handlers, Access(h), ExpiryInv'
  PROVE  SerialInv'
<1>. DEFINE q == request[h]
            rw == row[q.share]
            n == counted[q.share]
<1>1. /\ UNCHANGED <<row, counted, removed, expiry, now>>
      /\ q.step \in {"checking", "verifying", "configuring", "revealing"}
  BY DEF Access, AccessExpired, AccessPaused, AccessLapsed, AccessOpen,
         VerifyWrong, VerifyInvalid, VerifyRight, RecordFailure,
         ConfigurationFails, Reveal, AccessUnderway, At, StoreUnchanged, EnvUnchanged
<1>2. /\ q \in Request /\ q.share \in Shares /\ q.copy \in Row /\ rw \in Row
      /\ n \in Nat /\ q.seen \in Nat /\ q.seen <= now /\ now \in Nat /\ now >= 1
  BY <1>1, BusyFields
<1>3. Fits(q, rw, n, now)
  BY <1>1 DEF SerialInv, CopiesInv
<1>4. ASSUME NEW p, Set(h, p), p = Idle \/ p.share = q.share,
             p.step # "idle" => Fits(p, rw, n, now)
      PROVE  SerialInv'
  BY <1>1, <1>4, LocalStep
<1>5. ASSUME Finish(h) PROVE SerialInv'
  BY <1>4, <1>5 DEF Finish, Idle
<1>6. ASSUME q.step # "revealing"
      PROVE  /\ rw # NoRow /\ q.copy = rw /\ n <= rw.attempts /\ rw.accessed <= now
             /\ q.step # "checking" => rw.paused = 0
  BY <1>1, <1>2, <1>3, <1>6 DEF Fits, SerialInv, RowsInv
<1>7. CASE AccessExpired(h)
  <2>. DEFINE p == [q EXCEPT !.step = "deleting", !.tries = 1,
                             !.copy = NoRow, !.verdict = "none"]
  <2>1. p.step = "deleting" /\ p.share = q.share
    BY <1>2 DEF Request
  <2>2. Set(h, p)
    BY <1>7 DEF AccessExpired
  <2>. HIDE DEF p
  <2>3. QED  BY <1>4, <2>1, <2>2 DEF Fits
<1>8. CASE AccessLapsed(h)
  <2>. DEFINE p == [q EXCEPT !.step = "selecting", !.goal = "lapse",
                             !.copy = WithoutFailures(@), !.tries = 1]
  <2>1. /\ p.step = "selecting" /\ p.share = q.share /\ p.goal = "lapse"
        /\ p.copy = WithoutFailures(q.copy)
    BY <1>2 DEF Request
  <2>2. Set(h, p) /\ q.step = "checking" /\ q.copy.paused # 0 /\ q.copy.paused <= now
    BY <1>8 DEF AccessLapsed, AccessUnderway, At
  <2>. HIDE DEF p
  <2>3. Lapses(p.copy, rw, now) /\ p.copy.accessed <= now
    BY <1>2, <1>6, <2>1, <2>2, WithoutFailuresIs DEF Lapses
  <2>4. Fits(p, rw, n, now)
    BY <1>6, <2>1, <2>2, <2>3 DEF Fits, SaveFits, Lapses
  <2>5. QED  BY <1>4, <2>1, <2>2, <2>4
<1>9. CASE AccessOpen(h)
  <2>. DEFINE p == [q EXCEPT !.step = "verifying"]
  <2>1. p.step = "verifying" /\ p.share = q.share /\ p.copy = q.copy
    BY <1>2 DEF Request
  <2>2. Set(h, p) /\ q.step = "checking" /\ q.copy.paused = 0
    BY <1>9 DEF AccessOpen, AccessUnderway, At
  <2>. HIDE DEF p
  <2>3. QED  BY <1>4, <1>6, <2>1, <2>2 DEF Fits
<1>10. CASE VerifyWrong(h)
  <2>. DEFINE p == [q EXCEPT !.step = "configuring", !.verdict = "none"]
  <2>1. p.step = "configuring" /\ p.share = q.share /\ p.copy = q.copy
    BY <1>2 DEF Request
  <2>2. Set(h, p) /\ q.step = "verifying"
    BY <1>10 DEF VerifyWrong, At
  <2>. HIDE DEF p
  <2>3. QED  BY <1>4, <1>6, <2>1, <2>2 DEF Fits
<1>11. CASE VerifyRight(h)
  <2>. DEFINE p == [q EXCEPT !.step = "selecting", !.goal = "success",
                       !.copy = WithAccess(@), !.tries = 1, !.verdict = "none"]
  <2>1. /\ p.step = "selecting" /\ p.share = q.share /\ p.goal = "success"
        /\ p.copy = WithAccess(q.copy) /\ p.seen = q.seen
    BY <1>2 DEF Request
  <2>2. Set(h, p) /\ q.step = "verifying"
    BY <1>11 DEF VerifyRight, At
  <2>. HIDE DEF p
  <2>3. /\ p.copy.attempts = 0 /\ p.copy.paused = 0 /\ p.copy.accessed = now
    BY <1>2, <2>1, WithAccessIs
  <2>4. Opens(p.copy, rw, now)
    BY <1>2, <1>6, <2>2, <2>3 DEF Opens
  <2>5. Fits(p, rw, n, now)
    BY <1>2, <1>6, <2>1, <2>2, <2>3, <2>4 DEF Fits, SaveFits
  <2>6. QED  BY <1>4, <2>1, <2>2, <2>5
<1>12. CASE RecordFailure(h)
  <2>1. PICK limit \in Limits, minutes \in PauseLengths :
          Set(h, [request[h] EXCEPT !.step = "selecting", !.goal = "failure",
                     !.copy = WithFailure(@, limit, minutes), !.tries = 1])
    BY <1>12 DEF RecordFailure
  <2>. DEFINE p == [q EXCEPT !.step = "selecting", !.goal = "failure",
                       !.copy = WithFailure(@, limit, minutes), !.tries = 1]
  <2>2. /\ p.step = "selecting" /\ p.share = q.share /\ p.goal = "failure"
        /\ p.copy = WithFailure(q.copy, limit, minutes)
    BY <1>2 DEF Request
  <2>3. Set(h, p) /\ q.step = "configuring"
    BY <1>12, <2>1 DEF RecordFailure, At
  <2>. HIDE DEF p
  <2>4. Misses(p.copy, rw, now)
    BY <1>2, <1>6, <2>2, <2>3, WithFailureIs
  <2>5. rw.attempts \in Nat
    BY <1>2 DEF Row
  <2>6. p.copy.attempts > n /\ p.copy.accessed <= now
    BY <1>2, <1>6, <2>3, <2>4, <2>5 DEF Misses
  <2>7. Fits(p, rw, n, now)
    BY <1>6, <2>2, <2>3, <2>4, <2>6 DEF Fits, SaveFits
  <2>8. QED  BY <1>4, <2>2, <2>3, <2>7
<1>13. QED
  BY <1>5, <1>7, <1>8, <1>9, <1>10, <1>11, <1>12
     DEF Access, AccessPaused, VerifyInvalid, ConfigurationFails, Reveal,
         Access

-----------------------------------------------------------------------------
(* Saving and deleting.                                                    *)

\* With no other writer, what is saved is the copy.
LEMMA SavedIsCopy ==
  ASSUME NEW rw \in Row, NEW copy \in Row, rw # NoRow
  PROVE  Saved(rw, rw, copy) = copy
<1>1. Saved(rw, rw, copy) = Merge(rw, rw, copy)
  BY DEF Saved
<1>2. Merge(rw, rw, copy) =
        [expires |-> copy.expires, attempts |-> copy.attempts,
         paused |-> copy.paused, accessed |-> copy.accessed]
  BY DEF Merge, Column
<1>3. QED  BY <1>1, <1>2 DEF Row

\* A save replaces the row of one share by the copy.
LEMMA Savings ==
  ASSUME SerialInv, NEW h \in Handlers, Savable(h), Write(h)
  PROVE  LET q == request[h]
         IN  /\ q.step = "saving" /\ q.share \in Shares /\ expiry[q.share] > 0
             /\ SaveFits(q, row[q.share], counted[q.share], now)
             /\ row' = [row EXCEPT ![q.share] = q.copy]
             /\ q.copy \in Row /\ q.copy # NoRow
             /\ q.share \notin removed
<1>. DEFINE q == request[h]
            rw == row[q.share]
<1>1. q.step = "saving" /\ q.step # "idle"
  BY DEF Savable, At
<1>2. q.share \in Shares /\ q.copy \in Row /\ rw \in Row
  BY <1>1, BusyFields
<1>3. /\ expiry[q.share] > 0 /\ SaveFits(q, rw, counted[q.share], now)
      /\ q.selected = rw /\ rw # NoRow
  BY <1>1 DEF SerialInv, CopiesInv, Fits, SaveFits
<1>4. row' = [row EXCEPT ![q.share] = q.copy]
  BY <1>2, <1>3, SavedIsCopy DEF Write
<1>5. q.copy # NoRow
  <2>1. Kept(request[h]) /\ expiry \in [Shares -> Nat]
    BY DEF SerialInv, ExpiryInv, TypeOK
  <2>2. q.copy.expires = expiry[q.share] /\ expiry[q.share] \in Nat
    BY <1>1, <1>2, <2>1 DEF Kept, Holding
  <2>3. NoRow.expires = 0
    BY DEF NoRow
  <2>4. QED  BY <1>3, <2>2, <2>3
<1>6. q.share \notin removed
  BY <1>2, <1>3 DEF SerialInv, RowsInv
<1>7. QED  BY <1>1, <1>2, <1>3, <1>4, <1>5, <1>6

\* What Count leaves counted is covered by the copy that was saved.
LEMMA CountFits ==
  ASSUME NEW q, NEW rw, NEW n \in Nat, NEW answered \in BOOLEAN, NEW m,
         q.copy \in Row, n <= rw.attempts, rw \in Row, SaveFits(q, rw, n, now),
         m = IF q.goal # "failure" THEN 0
             ELSE IF answered /\ n < MaxCounted THEN n + 1 ELSE n
  PROVE  m \in Nat /\ m <= q.copy.attempts
<1>1. q.copy.attempts \in Nat
  BY DEF Row
<1>2. QED  BY <1>1 DEF SaveFits

LEMMA AfterUpsertIs ==
  ASSUME SerialInv, NEW h \in Handlers, At(h, "saving")
  PROVE  LET q == request[h]
             p == AfterUpsert(h)
         IN  \/ p = Idle
             \/ /\ q.goal = "lapse" /\ p.step = "verifying"
                /\ p.share = q.share /\ p.copy = q.copy
             \/ /\ q.goal = "success" /\ p.step = "revealing"
                /\ p.share = q.share /\ p.seen = q.seen
<1>. DEFINE q == request[h]
            after == [q EXCEPT !.goal = "none", !.selected = NoRow, !.tries = 0]
<1>1. q \in Request
  BY BusyFields DEF At
<1>2. /\ after.share = q.share /\ after.copy = q.copy /\ after.seen = q.seen
      /\ DOMAIN after = DOMAIN q
      /\ "step" \in DOMAIN q /\ "copy" \in DOMAIN q
  BY <1>1 DEF Request
<1>3. AfterUpsert(h) = CASE q.goal = "lapse" -> [after EXCEPT !.step = "verifying"]
                         [] q.goal = "success" -> [after EXCEPT !.step = "revealing",
                                                                !.copy = NoRow]
                         [] OTHER -> Idle
  BY DEF AfterUpsert
<1>. HIDE DEF after
<1>4. CASE q.goal = "lapse"
  <2>1. AfterUpsert(h) = [after EXCEPT !.step = "verifying"]
    BY <1>3, <1>4
  <2>2. QED  BY <1>2, <1>4, <2>1
<1>5. CASE q.goal = "success"
  <2>. DEFINE shown == [after EXCEPT !.step = "revealing"]
  <2>1. AfterUpsert(h) = [shown EXCEPT !.copy = NoRow]
    BY <1>3, <1>5
  <2>2. /\ shown.step = "revealing" /\ shown.share = q.share /\ shown.seen = q.seen
    BY <1>2
  <2>. HIDE DEF shown
  <2>3. QED  BY <1>5, <2>1, <2>2
<1>6. CASE q.goal \notin {"lapse", "success"}
  BY <1>3, <1>6
<1>7. QED  BY <1>4, <1>5, <1>6

LEMMA UpsertSerial ==
  ASSUME SerialInv, NEW h \in Handlers, Upsert(h), ExpiryInv'
  PROVE  SerialInv'
<1>. DEFINE q == request[h]
            s == q.share
            rw == row[q.share]
            n == counted[q.share]
<1>1. q.step \in {"selecting", "saving"} /\ UNCHANGED <<expiry, removed, now>>
  BY DEF Upsert, UpsertSelect, UpsertSucceeds, UpsertConflicts, UpsertBreaks,
         Savable, At, StoreUnchanged, EnvUnchanged
<1>2. /\ q \in Request /\ s \in Shares /\ q.copy \in Row /\ rw \in Row
      /\ n \in Nat /\ q.seen \in Nat /\ q.seen <= now /\ now \in Nat /\ now >= 1
  BY <1>1, BusyFields
<1>3. SaveFits(q, rw, n, now) /\ rw # NoRow /\ n <= rw.attempts
  BY <1>1, <1>2 DEF SerialInv, CopiesInv, RowsInv, Fits, SaveFits
<1>4. ASSUME NEW p, Set(h, p), p = Idle \/ p.share = s,
             p.step # "idle" => Fits(p, rw, n, now), UNCHANGED <<row, counted>>
      PROVE  SerialInv'
  BY <1>1, <1>4, LocalStep
<1>5. ASSUME NEW p, Set(h, p), p = Idle \/ p.share = s, NEW answered \in BOOLEAN,
             NEW m,
             m = IF q.goal # "failure" THEN 0
                 ELSE IF answered /\ n < MaxCounted THEN n + 1 ELSE n,
             p.step # "idle" => Fits(p, q.copy, m, now),
             Savable(h), Write(h), Count(h, answered)
      PROVE  SerialInv'
  <2>1. /\ row' = [row EXCEPT ![s] = q.copy] /\ q.copy # NoRow /\ s \notin removed
    BY <1>5, Savings
  <2>2. counted' = [counted EXCEPT ![s] = m]
    BY <1>5 DEF Count
  <2>3. m \in Nat /\ m <= q.copy.attempts
    BY <1>2, <1>3, <1>5, CountFits
  <2>4. q.copy.accessed <= now
    BY <1>3 DEF SaveFits
  <2>5. s \notin removed' /\ q.step # "idle"
    BY <1>1, <2>1
  <2>. HIDE DEF n, rw
  <2>6. QED  BY <1>1, <1>2, <1>5, <2>1, <2>2, <2>3, <2>4, <2>5, OwnStep
<1>6. CASE UpsertSelect(h)
  <2>. DEFINE p == [q EXCEPT !.step = "saving", !.selected = rw]
  <2>1. /\ p.step = "saving" /\ p.share = s /\ p.goal = q.goal /\ p.copy = q.copy
        /\ p.selected = rw /\ p.seen = q.seen
    BY <1>2 DEF Request
  <2>2. Set(h, p) /\ UNCHANGED <<row, counted>>
    BY <1>6 DEF UpsertSelect, StoreUnchanged
  <2>. HIDE DEF p
  <2>3. Fits(p, rw, n, now)
    BY <1>3, <2>1 DEF Fits, SaveFits
  <2>4. QED  BY <1>4, <2>1, <2>2, <2>3
<1>7. CASE UpsertSucceeds(h)
  <2>. DEFINE m == IF q.goal # "failure" THEN 0
                   ELSE IF TRUE /\ n < MaxCounted THEN n + 1 ELSE n
              p == AfterUpsert(h)
  <2>1. Savable(h) /\ Write(h) /\ Count(h, TRUE) /\ Set(h, p) /\ At(h, "saving")
    BY <1>7 DEF UpsertSucceeds, Savable
  <2>2. q.copy # NoRow
    BY <2>1, Savings
  <2>3. \/ p = Idle
        \/ /\ q.goal = "lapse" /\ p.step = "verifying"
           /\ p.share = q.share /\ p.copy = q.copy
        \/ /\ q.goal = "success" /\ p.step = "revealing"
           /\ p.share = q.share /\ p.seen = q.seen
    BY <2>1, AfterUpsertIs
  <2>. HIDE DEF p, m
  <2>4. p.step # "idle" => Fits(p, q.copy, m, now)
    BY <1>3, <2>2, <2>3 DEF Fits, SaveFits, Idle
  <2>5. QED  BY <1>5, <2>1, <2>3, <2>4 DEF m
<1>8. CASE UpsertConflicts(h)
  BY <1>4, <1>8 DEF UpsertConflicts, Finish, StoreUnchanged, Idle
<1>9. CASE UpsertBreaks(h)
  <2>. DEFINE p == [q EXCEPT !.step = "selecting", !.tries = @ + 1, !.selected = NoRow]
              m == IF q.goal # "failure" THEN 0
                   ELSE IF FALSE /\ n < MaxCounted THEN n + 1 ELSE n
  <2>1. /\ p.step = "selecting" /\ p.share = s /\ p.goal = q.goal /\ p.copy = q.copy
        /\ p.seen = q.seen
    BY <1>2 DEF Request
  <2>2. Set(h, p) \/ Set(h, Idle)
    BY <1>9 DEF UpsertBreaks, Retry, Finish
  <2>. HIDE DEF p
  <2>3. CASE UNCHANGED <<row, counted>>
    <3>1. Fits(p, rw, n, now)
      BY <1>3, <2>1 DEF Fits, SaveFits
    <3>2. Idle.step = "idle"
      BY DEF Idle
    <3>3. QED  BY <1>4, <2>1, <2>2, <2>3, <3>1, <3>2
  <2>4. CASE Savable(h) /\ Write(h) /\ Count(h, FALSE)
    <3>1. q.copy # NoRow
      BY <2>4, Savings
    <3>2. SaveFits(q, q.copy, m, now)
      <4>1. q.goal = "failure" => m = n
        OBVIOUS
      <4>. HIDE DEF m
      <4>2. QED  BY <1>3, <3>1, <4>1 DEF SaveFits
    <3>. HIDE DEF m
    <3>3. Fits(p, q.copy, m, now)
      BY <2>1, <3>2 DEF Fits, SaveFits
    <3>4. Idle.step = "idle"
      BY DEF Idle
    <3>5. QED  BY <1>5, <2>1, <2>2, <2>4, <3>3, <3>4 DEF m
  <2>5. QED  BY <1>9, <2>3, <2>4 DEF UpsertBreaks
<1>10. QED  BY <1>6, <1>7, <1>8, <1>9 DEF Upsert

LEMMA DeleteSerial ==
  ASSUME SerialInv, NEW h \in Handlers, Delete(h), ExpiryInv'
  PROVE  SerialInv'
<1>. DEFINE q == request[h]
            s == q.share
            n == counted[s]
<1>1. /\ q.step \in {"deleting", "removing"} /\ q.step # "idle"
      /\ UNCHANGED <<expiry, counted, now>>
  BY DEF Delete, DeleteSucceeds, DeleteBreaks, Deleting, At, EnvUnchanged
<1>2. /\ q \in Request /\ s \in Shares /\ row[s] \in Row /\ n \in Nat
  BY <1>1, BusyFields
<1>3. counted' = [counted EXCEPT ![s] = n]
  BY <1>1, <1>2 DEF SerialInv, ExpiryInv, TypeOK
<1>4. PICK p : /\ Set(h, p) /\ (p = Idle \/ p.share = s)
               /\ p.step # "idle" => p.step = q.step
  <2>. DEFINE p == [q EXCEPT !.step = q.step, !.tries = @ + 1, !.selected = NoRow]
  <2>1. p.step = q.step /\ p.share = s
    BY <1>2 DEF Request
  <2>2. Set(h, p) \/ Set(h, Idle)
    BY DEF Delete, DeleteSucceeds, DeleteBreaks, Retry, Finish
  <2>. HIDE DEF p
  <2>3. QED  BY <2>1, <2>2 DEF Idle
<1>5. \A rw, t : p.step # "idle" => Fits(p, rw, n, t)
  BY <1>1, <1>4 DEF Fits
<1>6. CASE row' = [row EXCEPT ![s] = NoRow]
  <2>1. removed' = removed \/ removed' = removed \cup {s}
    BY DEF Delete, DeleteSucceeds, DeleteBreaks
  <2>. HIDE DEF n
  <2>2. QED  BY <1>1, <1>2, <1>3, <1>4, <1>5, <1>6, <2>1, NoRowType, OwnStep
<1>7. CASE UNCHANGED <<row, removed>>
  BY <1>1, <1>4, <1>5, <1>7, LocalStep
<1>8. QED  BY <1>6, <1>7 DEF Delete, DeleteSucceeds, DeleteBreaks

-----------------------------------------------------------------------------
(* The cleanup, the clock, restarts and new shares.                        *)

\* What fits a row goes on fitting it as time passes.
LEMMA FitsLater ==
  ASSUME NEW q, NEW rw \in Row, NEW n, NEW t \in Nat, q.copy \in Row,
         Fits(q, rw, n, t)
  PROVE  Fits(q, rw, n, t + 1)
<1>1. q.copy.accessed <= t => q.copy.accessed <= t + 1
  BY DEF Row
<1>2. Lapses(q.copy, rw, t) => Lapses(q.copy, rw, t + 1)
  BY DEF Lapses, Row
<1>3. Opens(q.copy, rw, t) => Opens(q.copy, rw, t + 1)
  BY DEF Opens
<1>4. Misses(q.copy, rw, t) => Misses(q.copy, rw, t + 1)
  <2>1. ASSUME NEW m \in PauseLengths, NEW time \in 1..(t + AtLeast1(m))
        PROVE  time \in 1..(t + 1 + AtLeast1(m))
    BY AtLeast1Positive, LimitsAssumption
  <2>2. QED  BY <2>1 DEF Misses
<1>5. SaveFits(q, rw, n, t) => SaveFits(q, rw, n, t + 1)
  BY <1>1, <1>2, <1>3, <1>4 DEF SaveFits
<1>6. QED  BY <1>5 DEF Fits

LEMMA CleanupSerial ==
  ASSUME SerialInv, ~Overlap, CleanupPass, ExpiryInv'
  PROVE  SerialInv'
<1>1. /\ UNCHANGED <<request, now, expiry, removed, counted>>
      /\ row' = row \/ CleanupRemoves
  BY DEF CleanupPass, CleanupStart, CleanupCount, CleanupDelete, CleanupReport,
         CleanupBreaks, CleanupUnchanged
<1>2. Alone' /\ now' >= 1
  BY <1>1 DEF SerialInv, Alone
<1>3. CASE row' = row
  BY <1>1, <1>2, <1>3 DEF SerialInv, RowsInv, CopiesInv
<1>4. CASE CleanupRemoves
  <2>1. \A s \in Shares :
           IF s \in ExpiredRows THEN row'[s] = NoRow /\ Free(s) ELSE row'[s] = row[s]
    BY <1>4 DEF CleanupRemoves
  <2>2. RowsInv'
    BY <1>1, <2>1 DEF SerialInv, RowsInv
  <2>3. ASSUME NEW h \in Handlers, request[h].step # "idle"
        PROVE  row'[request[h].share] = row[request[h].share]
    BY <1>1, <2>1, <2>3, BusyFields DEF Free
  <2>4. CopiesInv'
    BY <1>1, <2>3 DEF SerialInv, CopiesInv
  <2>5. QED  BY <1>2, <2>2, <2>4 DEF SerialInv
<1>5. QED  BY <1>1, <1>3, <1>4

LEMMA TickSerial == ASSUME SerialInv, Tick, ExpiryInv' PROVE SerialInv'
<1>1. now' = now + 1 /\ UNCHANGED <<row, request, expiry, removed, counted>>
  BY DEF Tick
<1>2. now \in Nat /\ row \in [Shares -> Row]
  BY DEF SerialInv, ExpiryInv, TypeOK
<1>3. RowsInv' /\ Alone' /\ now' >= 1
  BY <1>1, <1>2 DEF SerialInv, RowsInv, Alone, Row
<1>4. ASSUME NEW h \in Handlers, request[h].step # "idle"
      PROVE  Fits(request[h], row[request[h].share], counted[request[h].share], now + 1)
  <2>1. Fits(request[h], row[request[h].share], counted[request[h].share], now)
    BY <1>4 DEF SerialInv, CopiesInv
  <2>2. QED  BY <1>2, <1>4, <2>1, BusyFields, FitsLater
<1>5. CopiesInv'
  BY <1>1, <1>4 DEF SerialInv, CopiesInv
<1>6. QED  BY <1>3, <1>5 DEF SerialInv

LEMMA RestartSerial == ASSUME SerialInv, Restart, ExpiryInv' PROVE SerialInv'
<1>1. UNCHANGED <<row, now, expiry, removed, counted>>
  BY DEF Restart, StoreUnchanged
<1>2. \A h \in Handlers : request'[h].step = "idle"
  BY DEF Restart, Idle
<1>3. QED  BY <1>1, <1>2 DEF SerialInv, RowsInv, CopiesInv, Alone

LEMMA CreateSerial ==
  ASSUME SerialInv, NEW s \in Shares, Create(s), ExpiryInv'
  PROVE  SerialInv'
<1>1. UNCHANGED <<request, removed, counted, now>> /\ expiry[s] = 0
  BY DEF Create, EnvUnchanged
<1>2. PICK hours \in Lifetimes :
         /\ row' = [row EXCEPT ![s] = [NoRow EXCEPT !.expires = now + hours]]
         /\ expiry' = [expiry EXCEPT ![s] = now + hours]
  BY DEF Create
<1>3. /\ row \in [Shares -> Row] /\ expiry \in [Shares -> Nat] /\ now \in Nat
      /\ counted \in [Shares -> Nat]
  BY DEF SerialInv, ExpiryInv, TypeOK
<1>4. /\ row'[s].attempts = 0 /\ row'[s].accessed = 0 /\ expiry'[s] # 0
      /\ \A t \in Shares \ {s} : row'[t] = row[t] /\ expiry'[t] = expiry[t]
  BY <1>2, <1>3, TimesAssumption DEF NoRow
<1>5. counted[s] = 0 /\ s \notin removed
  BY <1>1 DEF SerialInv, RowsInv
<1>6. RowsInv'
  BY <1>1, <1>3, <1>4, <1>5 DEF SerialInv, RowsInv
<1>7. CopiesInv'
  BY <1>1, <1>4, BusyFields DEF SerialInv, CopiesInv
<1>8. QED  BY <1>1, <1>6, <1>7 DEF SerialInv, Alone

LEMMA SerialStep == ~Overlap => (SerialInv /\ [Next]_vars => SerialInv')
<1>. SUFFICES ASSUME ~Overlap, SerialInv, [Next]_vars PROVE SerialInv'
  OBVIOUS
<1>1. ExpiryInv'
  BY ExpiryInvStep DEF SerialInv
<1>2. CASE UNCHANGED vars
  BY <1>1, <1>2 DEF vars, SerialInv, RowsInv, CopiesInv, Alone
<1>3. QED
  BY <1>1, <1>2, ReadSerial, AccessSerial, UpsertSerial, DeleteSerial, CleanupSerial,
     CreateSerial, TickSerial, RestartSerial DEF Next

LEMMA Serial == ASSUME ~Overlap PROVE Spec => []SerialInv
<1>1. SerialInv /\ [Next]_vars => SerialInv'
  BY SerialStep
<1>2. QED  BY <1>1, SerialInit, PTL DEF Spec

(* Alone on its share, a request shows the secret only with the opening on *)
(* record and no pause left, also after a save that had to be repeated     *)
(* (ShareController.cs:220-232).                                           *)
THEOREM RevealRecorded == ASSUME ~Overlap PROVE Spec => []RevealOnRecord
<1>1. ASSUME SerialInv PROVE RevealOnRecord
  <2>1. ASSUME NEW h \in Handlers, At(h, "revealing")
        PROVE  LET stored == row[request[h].share]
               IN  /\ stored # NoRow /\ stored.paused = 0
                   /\ stored.accessed >= request[h].seen
    BY <1>1, <2>1 DEF SerialInv, CopiesInv, Fits, At
  <2>2. QED  BY <2>1 DEF RevealOnRecord
<1>2. SerialInv => RevealOnRecord
  BY <1>1
<1>3. QED  BY <1>2, Serial, PTL

-----------------------------------------------------------------------------
(* The refinement: what the table is to senders and recipients.            *)

Item(s) == [phase |-> Phase(s), attempts |-> row[s].attempts,
            paused |-> row[s].paused, opened |-> row[s].accessed]

Items == [s \in Shares |-> Item(s)]

Quiet == UNCHANGED <<row, expiry>> /\ now' \in {now, now + 1}

Deletion == \E h \in Handlers : Deleting(h) /\ row' = [row EXCEPT ![request[h].share] = NoRow]

Saving == \E h \in Handlers : Savable(h) /\ Write(h)

\* What a step may do to the table, seen from outside.
LEMMA Effects ==
  ASSUME [Next]_vars
  PROVE  \/ Quiet
         \/ \E s \in Shares : Create(s)
         \/ UNCHANGED <<expiry, now>> /\ (Saving \/ Deletion \/ CleanupRemoves)
<1>1. ASSUME UNCHANGED vars \/ Tick \/ Restart PROVE Quiet
  BY <1>1 DEF vars, Tick, Restart, StoreUnchanged, Quiet
<1>2. ASSUME NEW h \in Handlers, NEW s \in Shares,
             AccessRead(h, s) \/ RemovalRead(h, s)
      PROVE  Quiet
  BY <1>2 DEF AccessRead, RemovalRead, StoreUnchanged, EnvUnchanged, Quiet
<1>3. ASSUME NEW h \in Handlers, Access(h) PROVE Quiet
  BY <1>3 DEF Access, AccessExpired, AccessPaused, AccessLapsed, AccessOpen,
         VerifyWrong, VerifyInvalid, VerifyRight, RecordFailure,
         ConfigurationFails, Reveal, StoreUnchanged, EnvUnchanged, Quiet
<1>4. ASSUME NEW h \in Handlers, Upsert(h) \/ Delete(h)
      PROVE  Quiet \/ (UNCHANGED <<expiry, now>> /\ (Saving \/ Deletion))
  BY <1>4 DEF Upsert, UpsertSelect, UpsertSucceeds, UpsertConflicts, UpsertBreaks,
              Delete, DeleteSucceeds, DeleteBreaks, StoreUnchanged, EnvUnchanged,
              Quiet, Saving, Deletion
<1>5. ASSUME CleanupPass PROVE Quiet \/ (UNCHANGED <<expiry, now>> /\ CleanupRemoves)
  BY <1>5 DEF CleanupPass, CleanupStart, CleanupCount, CleanupDelete, CleanupReport,
              CleanupBreaks, CleanupUnchanged, Quiet
<1>6. QED  BY <1>1, <1>2, <1>3, <1>4, <1>5 DEF Next

\* One share changes and the others do not.
LEMMA ItemChange ==
  ASSUME NEW s \in Shares, NEW new, Item(s)' = new,
         \A t \in Shares \ {s} : row'[t] = row[t] /\ expiry'[t] = expiry[t]
  PROVE  Items' = [Items EXCEPT ![s] = new]
<1>1. \A t \in Shares \ {s} : Item(t)' = Item(t)
  BY DEF Item, Phase
<1>2. QED  BY <1>1 DEF Items

\* Creating a share publishes it.
LEMMA CreatePublishes ==
  ASSUME SerialInv, NEW s \in Shares, Create(s)
  PROVE  Atomic!Publish(s)
<1>1. PICK hours \in Lifetimes :
         /\ row' = [row EXCEPT ![s] = [NoRow EXCEPT !.expires = now + hours]]
         /\ expiry' = [expiry EXCEPT ![s] = now + hours]
  BY DEF Create
<1>2. /\ now \in Nat /\ row \in [Shares -> Row] /\ expiry \in [Shares -> Nat]
      /\ now + hours # 0 /\ Genuine(row[s], s) /\ expiry[s] = 0 /\ now' = now
  BY TimesAssumption DEF SerialInv, ExpiryInv, TypeOK, Create, EnvUnchanged
<1>3. row[s] = NoRow
  BY <1>2 DEF Genuine
<1>4. Item(s) = Atomic!Blank
  BY <1>2, <1>3 DEF Item, Phase, Atomic!Blank, NoRow
<1>5. row'[s] = [NoRow EXCEPT !.expires = now + hours]
  BY <1>1, <1>2
<1>6. /\ row'[s].attempts = 0 /\ row'[s].paused = 0 /\ row'[s].accessed = 0
      /\ row'[s].expires = now + hours
  BY <1>5 DEF NoRow
<1>7. Phase(s)' = "live"
  BY <1>2, <1>6 DEF Phase, NoRow
<1>8. Item(s)' = [Atomic!Blank EXCEPT !.phase = "live"]
  <2>1. Item(s)' = [phase |-> Phase(s)', attempts |-> row'[s].attempts,
                    paused |-> row'[s].paused, opened |-> row'[s].accessed]
    BY DEF Item
  <2>2. QED  BY <1>6, <1>7, <2>1 DEF Atomic!Blank
<1>9. \A t \in Shares \ {s} : row'[t] = row[t] /\ expiry'[t] = expiry[t]
  BY <1>1, <1>2
<1>10. Items' = [Items EXCEPT ![s] = [Atomic!Blank EXCEPT !.phase = "live"]]
  BY <1>8, <1>9, ItemChange
<1>11. QED
  BY <1>2, <1>4, <1>10 DEF Atomic!Publish, Atomic!Becomes, Items, Item

\* A save opens the share, counts a failed attempt, ends a pause, or
\* writes what is there.
LEMMA SavingMaps ==
  ASSUME SerialInv, Saving, UNCHANGED <<expiry, now>>
  PROVE  \/ \E s \in Shares : Atomic!Open(s) \/ Atomic!Miss(s) \/ Atomic!Lapse(s)
         \/ Items' = Items
<1>1. PICK h \in Handlers : Savable(h) /\ Write(h)
  BY DEF Saving
<1>2. PICK copy \in Row, s \in Shares, rw \in Row :
         /\ rw = row[s] /\ rw # NoRow /\ copy # NoRow
         /\ row' = [row EXCEPT ![s] = copy]
         /\ \/ copy = rw
            \/ Lapses(copy, rw, now) \/ Opens(copy, rw, now) \/ Misses(copy, rw, now)
  <2>1. LET q == request[h]
        IN  /\ q.copy \in Row /\ q.share \in Shares /\ row[q.share] \in Row
            /\ row[q.share] # NoRow /\ q.copy # NoRow
            /\ row' = [row EXCEPT ![q.share] = q.copy]
            /\ \/ q.copy = row[q.share]
               \/ Lapses(q.copy, row[q.share], now)
               \/ Opens(q.copy, row[q.share], now)
               \/ Misses(q.copy, row[q.share], now)
    <3>1. request[h].step # "idle"
      BY <1>1 DEF Savable, At
    <3>2. QED  BY <1>1, <3>1, Savings, BusyFields DEF SaveFits
  <2>2. QED  BY <2>1
<1>3. row \in [Shares -> Row] /\ row'[s] = copy
  BY <1>2 DEF SerialInv, ExpiryInv, TypeOK
<1>4. /\ Item(s) = [phase |-> "live", attempts |-> rw.attempts,
                    paused |-> rw.paused, opened |-> rw.accessed]
      /\ Item(s)' = [phase |-> "live", attempts |-> copy.attempts,
                     paused |-> copy.paused, opened |-> copy.accessed]
  <2>1. Item(s)' = [phase |-> Phase(s)', attempts |-> row'[s].attempts,
                    paused |-> row'[s].paused, opened |-> row'[s].accessed]
    BY DEF Item
  <2>2. Phase(s) = "live" /\ Phase(s)' = "live"
    BY <1>2, <1>3 DEF Phase
  <2>3. QED  BY <1>2, <1>3, <2>1, <2>2 DEF Item
<1>5. \A t \in Shares \ {s} : row'[t] = row[t] /\ expiry'[t] = expiry[t]
  BY <1>2, <1>3
<1>6. ASSUME NEW new, Item(s)' = new PROVE Items' = [Items EXCEPT ![s] = new]
  BY <1>2, <1>5, <1>6, ItemChange
<1>7. /\ Items[s] = Item(s) /\ Items[s].phase = "live" /\ Items[s].paused = rw.paused
      /\ Items[s].attempts = rw.attempts /\ Items[s].opened = rw.accessed
  BY <1>2, <1>4 DEF Items
<1>8. CASE copy = rw
  <2>1. Items' = [Items EXCEPT ![s] = Items[s]]
    BY <1>4, <1>6, <1>7, <1>8
  <2>2. QED  BY <1>2, <2>1 DEF Items
<1>9. CASE Lapses(copy, rw, now)
  <2>1. Item(s)' = [Item(s) EXCEPT !.attempts = 0, !.paused = 0]
    <3>. DEFINE it == [Item(s) EXCEPT !.attempts = 0]
    <3>1. it = [phase |-> "live", attempts |-> 0, paused |-> rw.paused,
                opened |-> rw.accessed]
      BY <1>4
    <3>2. [Item(s) EXCEPT !.attempts = 0, !.paused = 0] = [it EXCEPT !.paused = 0]
      OBVIOUS
    <3>. HIDE DEF it
    <3>3. [it EXCEPT !.paused = 0] = [phase |-> "live", attempts |-> 0,
                                      paused |-> 0, opened |-> rw.accessed]
      BY <3>1
    <3>4. QED  BY <1>4, <1>9, <3>2, <3>3 DEF Lapses
  <2>2. Items' = [Items EXCEPT ![s] = [Items[s] EXCEPT !.attempts = 0, !.paused = 0]]
    BY <1>6, <1>7, <2>1
  <2>3. Items[s].paused # 0 /\ Items[s].paused <= now
    BY <1>7, <1>9 DEF Lapses
  <2>4. Atomic!Lapse(s)
    BY <1>7, <2>2, <2>3 DEF Atomic!Lapse, Atomic!Live, Atomic!Becomes, Items, Item
  <2>5. QED  BY <1>2, <2>4
<1>10. CASE Opens(copy, rw, now)
  <2>1. Item(s)' = [Item(s) EXCEPT !.attempts = 0, !.opened = copy.accessed]
    <3>. DEFINE it == [Item(s) EXCEPT !.attempts = 0]
    <3>1. it = [phase |-> "live", attempts |-> 0, paused |-> rw.paused,
                opened |-> rw.accessed]
      BY <1>4
    <3>2. [Item(s) EXCEPT !.attempts = 0, !.opened = copy.accessed] =
             [it EXCEPT !.opened = copy.accessed]
      OBVIOUS
    <3>. HIDE DEF it
    <3>3. [it EXCEPT !.opened = copy.accessed] =
             [phase |-> "live", attempts |-> 0, paused |-> rw.paused,
              opened |-> copy.accessed]
      BY <3>1
    <3>4. QED  BY <1>4, <1>10, <3>2, <3>3 DEF Opens
  <2>2. Items' = [Items EXCEPT ![s] = [Items[s] EXCEPT !.attempts = 0,
                                                       !.opened = copy.accessed]]
    BY <1>6, <1>7, <2>1
  <2>3. /\ Items[s].paused = 0 /\ copy.accessed \in 1..now
        /\ copy.accessed >= Items[s].opened
    BY <1>7, <1>10 DEF Opens
  <2>4. Atomic!Open(s)
    BY <1>7, <2>2, <2>3 DEF Atomic!Open, Atomic!Live, Atomic!Becomes, Items, Item
  <2>5. QED  BY <1>2, <2>4
<1>11. CASE Misses(copy, rw, now)
  <2>. DEFINE counting == [Item(s) EXCEPT !.attempts = copy.attempts]
  <2>1. counting = [phase |-> "live", attempts |-> copy.attempts,
                    paused |-> 0, opened |-> rw.accessed]
    BY <1>4, <1>11 DEF Misses
  <2>. HIDE DEF counting
  <2>2. /\ Item(s)' = [phase |-> "live", attempts |-> Items[s].attempts + 1,
                       paused |-> copy.paused, opened |-> rw.accessed]
        /\ copy.attempts = Items[s].attempts + 1 /\ Items[s].paused = 0
    BY <1>4, <1>7, <1>11 DEF Misses
  <2>3. PICK limit \in Limits :
          \/ copy.attempts < AtLeast1(limit) /\ copy.paused = 0
          \/ /\ copy.attempts >= AtLeast1(limit)
             /\ \E m \in PauseLengths : copy.paused \in 1..(now + AtLeast1(m))
    BY <1>11 DEF Misses
  <2>4. CASE copy.attempts < AtLeast1(limit) /\ copy.paused = 0
    <3>1. Item(s)' = counting
      BY <2>1, <2>2, <2>4
    <3>2. Items' = [Items EXCEPT ![s] =
                       [Items[s] EXCEPT !.attempts = Items[s].attempts + 1]]
      BY <1>6, <1>7, <2>2, <3>1 DEF counting
    <3>3. \E l \in {AtLeast1(k) : k \in Limits} : Items[s].attempts + 1 < l
      BY <2>2, <2>4
    <3>4. Atomic!Miss(s)
      BY <1>7, <2>2, <3>2, <3>3
         DEF Atomic!Miss, Atomic!Live, Atomic!Becomes, Items, Item
    <3>5. QED  BY <1>2, <3>4
  <2>5. CASE /\ copy.attempts >= AtLeast1(limit)
             /\ \E m \in PauseLengths : copy.paused \in 1..(now + AtLeast1(m))
    <3>1. PICK m \in PauseLengths : copy.paused \in 1..(now + AtLeast1(m))
      BY <2>5
    <3>2. Item(s)' = [counting EXCEPT !.paused = copy.paused]
      BY <2>1, <2>2, <2>5
    <3>3. Item(s)' = [Item(s) EXCEPT !.attempts = copy.attempts, !.paused = copy.paused]
      BY <3>2 DEF counting
    <3>4. Items' = [Items EXCEPT ![s] = [Items[s] EXCEPT
                       !.attempts = Items[s].attempts + 1, !.paused = copy.paused]]
      BY <1>6, <1>7, <2>2, <3>3
    <3>5. \E l \in {AtLeast1(k) : k \in Limits} : Items[s].attempts + 1 >= l
      BY <2>2, <2>5
    <3>6. \E pause \in {AtLeast1(k) : k \in PauseLengths} :
             copy.paused \in 1..(now + pause)
      BY <3>1
    <3>7. Atomic!Miss(s)
      BY <1>7, <2>2, <3>4, <3>5, <3>6
         DEF Atomic!Miss, Atomic!Live, Atomic!Becomes, Items, Item
    <3>8. QED  BY <1>2, <3>7
  <2>6. QED  BY <2>3, <2>4, <2>5
<1>12. QED  BY <1>2, <1>8, <1>9, <1>10, <1>11

\* Where rows go, the shares are removed.
LEMMA RemovalMaps ==
  ASSUME SerialInv, UNCHANGED <<expiry, now>>, NEW S \in SUBSET Shares,
         \A s \in S : row[s] # NoRow,
         \A s \in Shares : row'[s] = IF s \in S THEN NoRow ELSE row[s]
  PROVE  Atomic!Remove(S)
<1>1. ASSUME NEW s \in S PROVE Phase(s) = "live" /\ expiry[s] # 0
  <2>1. Genuine(row[s], s) /\ row[s] # NoRow
    BY <1>1 DEF SerialInv, ExpiryInv
  <2>2. QED  BY <2>1 DEF Phase, Genuine
<1>2. ASSUME NEW s \in S PROVE Item(s)' = Atomic!Gone
  <2>1. row'[s] = NoRow /\ expiry'[s] # 0
    BY <1>1, <1>2
  <2>2. QED  BY <2>1 DEF Item, Phase, NoRow, Atomic!Blank, Atomic!Gone
<1>3. ASSUME NEW s \in Shares \ S PROVE Item(s)' = Item(s)
  BY <1>3 DEF Item, Phase
<1>4. Items' = [s \in Shares |-> IF s \in S THEN Atomic!Gone ELSE Items[s]]
  BY <1>2, <1>3 DEF Items
<1>5. QED  BY <1>1, <1>4 DEF Atomic!Remove, Atomic!Live, Items, Item

LEMMA DeletionMaps ==
  ASSUME SerialInv, Deletion, UNCHANGED <<expiry, now>>
  PROVE  (\E S \in SUBSET Shares : Atomic!Remove(S)) \/ Items' = Items
<1>1. PICK h \in Handlers : Deleting(h) /\ row' = [row EXCEPT ![request[h].share] = NoRow]
  BY DEF Deletion
<1>2. PICK s \in Shares : row' = [row EXCEPT ![s] = NoRow]
  BY <1>1, BusyFields DEF Deleting, At
<1>3. row \in [Shares -> Row]
  BY DEF SerialInv, ExpiryInv, TypeOK
<1>4. CASE row[s] = NoRow
  <2>1. row' = row
    BY <1>2, <1>3, <1>4
  <2>2. QED  BY <2>1 DEF Items, Item, Phase
<1>5. CASE row[s] # NoRow
  <2>1. \A t \in Shares : row'[t] = IF t \in {s} THEN NoRow ELSE row[t]
    BY <1>2, <1>3
  <2>2. {s} \in SUBSET Shares /\ \A t \in {s} : row[t] # NoRow
    BY <1>2, <1>5
  <2>3. Atomic!Remove({s})
    BY <2>1, <2>2, RemovalMaps
  <2>4. QED  BY <2>2, <2>3
<1>6. QED  BY <1>4, <1>5

LEMMA StepMaps ==
  ASSUME SerialInv, [Next]_vars
  PROVE  Atomic!Next \/ (Items' = Items /\ now' = now)
<1>1. CASE Quiet
  <2>1. Items' = Items
    BY <1>1 DEF Quiet, Items, Item, Phase
  <2>2. now' = now + 1 => Atomic!Advance
    BY <2>1 DEF Atomic!Advance, Items, Item
  <2>3. QED  BY <1>1, <2>1, <2>2 DEF Quiet, Atomic!Next
<1>2. CASE \E s \in Shares : Create(s)
  BY <1>2, CreatePublishes DEF Atomic!Next
<1>3. CASE UNCHANGED <<expiry, now>> /\ Saving
  BY <1>3, SavingMaps DEF Atomic!Next
<1>4. CASE UNCHANGED <<expiry, now>> /\ Deletion
  BY <1>4, DeletionMaps DEF Atomic!Next
<1>5. CASE UNCHANGED <<expiry, now>> /\ CleanupRemoves
  <2>1. PICK S \in SUBSET Shares : S = ExpiredRows
    BY DEF ExpiredRows
  <2>2. \A s \in S : row[s] # NoRow
    BY <2>1 DEF ExpiredRows
  <2>3. \A s \in Shares : row'[s] = IF s \in S THEN NoRow ELSE row[s]
    BY <1>5, <2>1 DEF CleanupRemoves
  <2>4. Atomic!Remove(S)
    BY <1>5, <2>2, <2>3, RemovalMaps
  <2>5. QED  BY <2>4 DEF Atomic!Next
<1>6. QED  BY <1>1, <1>2, <1>3, <1>4, <1>5, Effects

LEMMA InitMaps == Init => Atomic!Init
<1>. SUFFICES ASSUME Init PROVE Atomic!Init
  OBVIOUS
<1>1. ASSUME NEW s \in Shares PROVE Item(s) = Atomic!Blank
  BY <1>1 DEF Init, Item, Phase, NoRow, Atomic!Blank
<1>2. Items = [s \in Shares |-> Atomic!Blank] /\ now = 1
  BY <1>1 DEF Items, Init
<1>3. QED  BY <1>2 DEF Atomic!Init, Items, Item

(* When operations on one share do not overlap, the handlers, the cleanup, *)
(* failures, retries and restarts together do what ShareLifecycle does in  *)
(* atomic steps (ShareController.cs:104-261, DbShareStore.cs:64-119).      *)
THEOREM ImplementsLifecycle == ASSUME ~Overlap PROVE Spec => Lifecycle
<1>1. SerialInv /\ [Next]_vars => [Atomic!Next]_(Atomic!vars)
  BY StepMaps DEF Atomic!vars, Items, Item
<1>2. QED  BY <1>1, InitMaps, Serial, PTL DEF Spec, Lifecycle, Atomic!Spec
=============================================================================

--------------------- MODULE InformationRequests_proofs ---------------------
(***************************************************************************)
(* Proofs about InformationRequests: type correctness, the end of every    *)
(* pause and what deletes a request before its time, however operations    *)
(* overlap, and, when those on one request do not, that the module         *)
(* implements RequestLifecycle and keeps responses.                        *)
(***************************************************************************)
EXTENDS InformationRequests, TLAPS

-----------------------------------------------------------------------------
(* Rows and what handlers make of them.                                    *)

LEMMA NoRowTyped == NoRow \in Row
BY DEF NoRow, Row, Modes

LEMMA SavedTyped ==
  ASSUME NEW old \in Row, NEW selected \in Row, NEW copy \in Row
  PROVE  Saved(old, selected, copy) \in Row
BY NoRowTyped DEF Saved, Merge, Column, Row

LEMMA PositiveTyped == ASSUME NEW n \in Int PROVE AtLeast1(n) \in Nat \ {0}
BY DEF AtLeast1

\* Forgetting failures leaves what the partner and the requester see.
LEMMA WithoutFailuresKeeps ==
  ASSUME NEW r \in Row
  PROVE  /\ WithoutFailures(r) \in Row
         /\ WithoutFailures(r).expires = r.expires
         /\ WithoutFailures(r).payload = r.payload
         /\ WithoutFailures(r).mode = r.mode
BY DEF WithoutFailures, Row

\* And so does counting one.
LEMMA WithFailureKeeps ==
  ASSUME NEW r \in Row, NEW limit \in Limits, NEW minutes \in PauseLengths, now \in Nat
  PROVE  /\ WithFailure(r, limit, minutes) \in Row
         /\ WithFailure(r, limit, minutes).expires = r.expires
         /\ WithFailure(r, limit, minutes).payload = r.payload
         /\ WithFailure(r, limit, minutes).mode = r.mode
<1> DEFINE p == IF r.attempts + 1 >= AtLeast1(limit)
                THEN now + AtLeast1(minutes) ELSE r.paused
<1>1. AtLeast1(limit) \in Nat /\ AtLeast1(minutes) \in Nat
  BY LimitsAssumption, PositiveTyped
<1>2. r.attempts + 1 \in Nat /\ p \in Nat
  BY <1>1 DEF Row
<1>3. WithFailure(r, limit, minutes) = [r EXCEPT !.attempts = r.attempts + 1, !.paused = p]
  BY DEF WithFailure
<1> HIDE DEF p
<1>4. QED  BY <1>2, <1>3 DEF Row

ModeOf(p) == IF p \in ClientPayloads THEN "client" ELSE "server"

\* A response changes payload and mode together, and not the expiration.
LEMMA WithResponseKeeps ==
  ASSUME NEW r \in Row, NEW p \in Payloads
  PROVE  /\ WithResponse(r, p) \in Row
         /\ WithResponse(r, p).expires = r.expires
         /\ WithResponse(r, p).payload = p
         /\ WithResponse(r, p).mode = ModeOf(p)
<1>1. WithResponse(r, p) = [WithoutFailures(r) EXCEPT !.payload = p, !.mode = ModeOf(p)]
  BY DEF WithResponse, ModeOf
<1>2. ModeOf(p) \in Modes
  BY DEF ModeOf, Modes
<1>3. QED  BY <1>1, <1>2, WithoutFailuresKeeps DEF Row

\* An extension changes the expiration only.
LEMMA WithExtensionKeeps ==
  ASSUME NEW r \in Row, NEW hours \in Extensions, now \in Nat
  PROVE  /\ WithExtension(r, hours) \in Row
         /\ WithExtension(r, hours).expires = Later(r.expires, now) + hours
         /\ WithExtension(r, hours).payload = r.payload
         /\ WithExtension(r, hours).mode = r.mode
<1>1. Later(r.expires, now) + hours \in Nat
  BY TimesAssumption DEF Later, Row
<1>2. WithExtension(r, hours) = [r EXCEPT !.expires = Later(r.expires, now) + hours]
  BY DEF WithExtension
<1>3. QED  BY <1>1, <1>2 DEF Row

-----------------------------------------------------------------------------
(* Type correctness.  Locals a handler may have: an idle one has none.     *)

Locals == {q \in Request : IF q.step = "idle" THEN q = Idle ELSE q.id \in Requests}

TypeInv ==
  /\ row \in [Requests -> Row]
  /\ request \in [Handlers -> Locals]
  /\ cleanup \in Cleanup
  /\ now \in Nat /\ restarts \in Nat
  /\ created \subseteq Requests
  /\ stored \in [Requests -> SUBSET Payloads]

LEMMA IdleTyped == Idle \in Locals
BY NoRowTyped DEF Idle, Locals, Request, Steps, Goals

LEMMA TypeInvTypes == TypeInv => TypeOK
<1> SUFFICES ASSUME TypeInv PROVE TypeOK
  OBVIOUS
<1>1. request \in [Handlers -> Request]
  BY DEF TypeInv, Locals
<1>2. \A h \in Handlers : At(h, "idle") \/ request[h].id \in Requests
  BY DEF TypeInv, Locals, At
<1>3. QED  BY <1>1, <1>2 DEF TypeInv, TypeOK

LEMMA InitTyped == Init => TypeInv
<1> SUFFICES ASSUME Init PROVE TypeInv
  OBVIOUS
<1>1. cleanup \in Cleanup
  BY DEF Init, Waiting, Cleanup
<1>2. QED  BY <1>1, NoRowTyped, IdleTyped DEF Init, TypeInv

LEMMA LocalsTyped ==
  ASSUME TypeInv, NEW h \in Handlers, request[h].step # "idle"
  PROVE  /\ request[h] \in Request /\ request[h].id \in Requests
         /\ request[h].copy \in Row /\ request[h].selected \in Row
         /\ request[h].tries \in Nat /\ request[h].goal \in Goals
         /\ row[request[h].id] \in Row
<1>1. request[h] \in Locals
  BY DEF TypeInv
<1>2. request[h] \in Request /\ request[h].id \in Requests
  BY <1>1 DEF Locals
<1>3. QED  BY <1>2 DEF Request, TypeInv

\* A handler's locals change and nothing else does.
LEMMA SetTyped ==
  ASSUME TypeInv, NEW h \in Handlers, NEW q \in Locals, Set(h, q),
         StoreUnchanged, EnvUnchanged
  PROVE  TypeInv'
BY DEF TypeInv, Set, StoreUnchanged, EnvUnchanged

(* What the steps between two accesses to the table make of the locals.    *)

LEMMA SaveTyped ==
  ASSUME NEW q \in Request, q.id \in Requests, NEW goal \in Goals, NEW copy \in Row
  PROVE  [q EXCEPT !.step = "selecting", !.goal = goal, !.copy = copy, !.tries = 1]
            \in Locals
BY DEF Locals, Request, Steps

LEMMA StepTyped ==
  ASSUME NEW q \in Request, q.id \in Requests, NEW step \in Steps \ {"idle"}
  PROVE  [q EXCEPT !.step = step] \in Locals
BY DEF Locals, Request

LEMMA RetryTyped ==
  ASSUME NEW q \in Request, q.id \in Requests, NEW step \in Steps \ {"idle"}
  PROVE  [q EXCEPT !.step = step, !.tries = @ + 1, !.selected = NoRow] \in Locals
<1>1. q.tries + 1 \in Nat
  BY DEF Request
<1>2. QED  BY <1>1, NoRowTyped DEF Locals, Request

LEMMA ReadTyped ==
  ASSUME TypeInv, NEW h \in Handlers, NEW r \in Requests,
         PartnerRead(h, r) \/ ExtendRead(h, r) \/ RevokeRead(h, r)
  PROVE  TypeInv'
<1>1. Idle \in Request /\ row[r] \in Row
  BY IdleTyped DEF Locals, TypeInv
<1>2. ASSUME NEW step \in {"checking", "extending"}
      PROVE  [Idle EXCEPT !.step = step, !.id = r, !.copy = row[r]] \in Locals
  BY <1>1 DEF Locals, Request, Steps
<1>3. [Idle EXCEPT !.step = "revoking", !.id = r, !.tries = 1] \in Locals
  BY <1>1 DEF Locals, Request, Steps
<1>4. QED
  BY <1>2, <1>3, SetTyped DEF PartnerRead, ExtendRead, RevokeRead, Read

LEMMA PartnerTyped ==
  ASSUME TypeInv, NEW h \in Handlers, Partner(h) \/ Requester(h)
  PROVE  TypeInv'
<1> DEFINE q == request[h]
<1>0. StoreUnchanged /\ EnvUnchanged /\ q.step # "idle"
  BY DEF Partner, Requester, PartnerExpired, PartnerRefused, PartnerLapsed,
         PartnerOpen, VerifyWrong, VerifyRight, RecordFailure, ConfigurationFails,
         Show, Update, Extend, ExtendRefused, InTime, At
<1>1. q \in Request /\ q.id \in Requests /\ q.copy \in Row /\ now \in Nat
  BY <1>0, LocalsTyped DEF TypeInv
<1>2. ASSUME Finish(h) PROVE TypeInv'
  BY <1>0, <1>2, IdleTyped, SetTyped DEF Finish
<1>3. ASSUME NEW goal \in Goals, NEW copy \in Row, Save(h, goal, copy) PROVE TypeInv'
  BY <1>0, <1>1, <1>3, SaveTyped, SetTyped DEF Save
<1>4. ASSUME NEW step \in Steps \ {"idle"}, Set(h, [q EXCEPT !.step = step])
      PROVE  TypeInv'
  BY <1>0, <1>1, <1>4, StepTyped, SetTyped
<1>5. CASE PartnerExpired(h)
  <2>1. [q EXCEPT !.step = "deleting", !.tries = 1] \in Locals
    BY <1>1, NoRowTyped DEF Locals, Request, Steps
  <2>2. QED  BY <1>0, <1>5, <2>1, SetTyped DEF PartnerExpired
<1>6. CASE PartnerLapsed(h)
  BY <1>1, <1>3, <1>6, WithoutFailuresKeeps DEF PartnerLapsed, Goals
<1>7. CASE PartnerOpen(h)
  BY <1>4, <1>7 DEF PartnerOpen, Steps
<1>8. CASE VerifyWrong(h)
  BY <1>4, <1>8 DEF VerifyWrong, Steps
<1>9. CASE VerifyRight(h)
  BY <1>1, <1>3, <1>9, WithoutFailuresKeeps DEF VerifyRight, Goals
<1>10. CASE RecordFailure(h)
  BY <1>1, <1>3, <1>10, WithFailureKeeps DEF RecordFailure, Goals
<1>11. CASE \E p \in Payloads : Update(h, p)
  BY <1>1, <1>3, <1>11, WithResponseKeeps DEF Update, Goals
<1>12. CASE \E hours \in Extensions : Extend(h, hours)
  BY <1>1, <1>3, <1>12, WithExtensionKeeps DEF Extend, Goals
<1>13. QED
  BY <1>2, <1>5, <1>6, <1>7, <1>8, <1>9, <1>10, <1>11, <1>12
     DEF Partner, Requester, PartnerRefused, ConfigurationFails, Show, ExtendRefused

LEMMA WriteTyped ==
  ASSUME TypeInv, NEW h \in Handlers, request[h].step # "idle", Write(h)
  PROVE  row' \in [Requests -> Row] /\ stored' \in [Requests -> SUBSET Payloads]
<1> DEFINE new == Saved(row[request[h].id], request[h].selected, request[h].copy)
<1>1. new \in Row /\ request[h].id \in Requests
  BY LocalsTyped, SavedTyped
<1>2. {new.payload} \ {NoPayload} \subseteq Payloads
  BY <1>1 DEF Row
<1>3. /\ row' = [row EXCEPT ![request[h].id] = new]
      /\ stored' = [stored EXCEPT ![request[h].id] = @ \cup ({new.payload} \ {NoPayload})]
  BY DEF Write
<1> HIDE DEF new
<1>4. QED  BY <1>1, <1>2, <1>3 DEF TypeInv

LEMMA StoreTyped ==
  ASSUME TypeInv, NEW h \in Handlers, Store(h)
  PROVE  TypeInv'
<1> DEFINE q == request[h]
<1>0. q.step \in {"selecting", "saving", "deleting", "revoking"} /\ q.step # "idle"
  BY DEF Store, UpsertSelect, UpsertSucceeds, UpsertConflicts, UpsertBreaks,
         DeleteSucceeds, DeleteBreaks, Deleting, Savable, At
<1>1. q \in Request /\ q.id \in Requests /\ q.copy \in Row /\ row[q.id] \in Row
  BY <1>0, LocalsTyped
<1>2. cleanup' = cleanup /\ now' = now /\ restarts' = restarts /\ created' = created
  BY DEF Store, UpsertSelect, UpsertSucceeds, UpsertConflicts, UpsertBreaks,
         DeleteSucceeds, DeleteBreaks, StoreUnchanged, EnvUnchanged
<1>3. row' \in [Requests -> Row] /\ stored' \in [Requests -> SUBSET Payloads]
  <2>1. Write(h) => row' \in [Requests -> Row] /\ stored' \in [Requests -> SUBSET Payloads]
    BY <1>0, WriteTyped
  <2>2. Deletes(h) => row' \in [Requests -> Row]
    BY NoRowTyped DEF Deletes, TypeInv
  <2>3. row \in [Requests -> Row] /\ stored \in [Requests -> SUBSET Payloads]
    BY DEF TypeInv
  <2>4. QED
    BY <2>1, <2>2, <2>3
       DEF Store, UpsertSelect, UpsertSucceeds, UpsertConflicts, UpsertBreaks,
           DeleteSucceeds, DeleteBreaks, StoreUnchanged
<1>4. AfterUpsert(h) \in Locals
  <2> DEFINE after == [q EXCEPT !.goal = "none", !.selected = NoRow, !.tries = 0]
  <2>1. after \in Request /\ after.id \in Requests
    BY <1>1, NoRowTyped DEF Request, Goals
  <2>2. \A step \in {"verifying", "answering"} : [after EXCEPT !.step = step] \in Locals
    BY <2>1, StepTyped DEF Steps
  <2>3. AfterUpsert(h) \in {[after EXCEPT !.step = "verifying"],
                            [after EXCEPT !.step = "answering"], Idle}
    BY DEF AfterUpsert
  <2>4. QED  BY <2>2, <2>3, IdleTyped
<1>5. \E p \in Locals : Set(h, p)
  <2>1. [q EXCEPT !.step = "saving", !.selected = row[q.id]] \in Locals
    BY <1>1 DEF Locals, Request, Steps
  <2>2. ASSUME NEW step \in {"selecting", q.step}, Retry(h, step)
        PROVE  \E p \in Locals : Set(h, p)
    BY <1>0, <1>1, <2>2, RetryTyped DEF Retry, Steps
  <2>3. ASSUME Finish(h) PROVE \E p \in Locals : Set(h, p)
    BY <2>3, IdleTyped DEF Finish
  <2>4. QED
    BY <1>4, <2>1, <2>2, <2>3
       DEF Store, UpsertSelect, UpsertSucceeds, UpsertConflicts, UpsertBreaks,
           DeleteSucceeds, DeleteBreaks
<1>6. request' \in [Handlers -> Locals]
  BY <1>5 DEF Set, TypeInv
<1>7. QED  BY <1>2, <1>3, <1>6 DEF TypeInv

LEMMA CleanupTyped == ASSUME TypeInv, CleanupPass PROVE TypeInv'
<1>1. row' \in [Requests -> Row]
  <2>1. CleanupRemoves => row' \in [Requests -> Row]
    BY NoRowTyped DEF CleanupRemoves, TypeInv
  <2>2. QED
    BY <2>1 DEF CleanupPass, CleanupStart, CleanupShares, CleanupDelete,
                CleanupReport, CleanupBreaks, TypeInv
<1>2. cleanup' \in Cleanup
  BY DEF CleanupPass, CleanupStart, CleanupShares, CleanupDelete,
         CleanupReport, CleanupBreaks, TypeInv, Cleanup, Waiting
<1>3. UNCHANGED <<request, now, restarts, created, stored>>
  BY DEF CleanupPass, CleanupStart, CleanupShares, CleanupDelete,
         CleanupReport, CleanupBreaks, CleanupUnchanged
<1>4. QED  BY <1>1, <1>2, <1>3 DEF TypeInv

LEMMA CreateTyped == ASSUME TypeInv, NEW r \in Requests, Create(r) PROVE TypeInv'
<1>1. PICK hours \in Lifetimes :
         row' = [row EXCEPT ![r] = [NoRow EXCEPT !.expires = now + hours]]
  BY DEF Create
<1>2. now + hours \in Nat
  BY TimesAssumption DEF TypeInv
<1>3. [NoRow EXCEPT !.expires = now + hours] \in Row
  BY <1>2, NoRowTyped DEF Row
<1>4. row' \in [Requests -> Row] /\ created' \subseteq Requests
  BY <1>1, <1>3 DEF Create, TypeInv
<1>5. QED  BY <1>4 DEF Create, EnvUnchanged, TypeInv

LEMMA TickTyped == ASSUME TypeInv, Tick PROVE TypeInv'
BY DEF TypeInv, Tick

LEMMA RestartTyped == ASSUME TypeInv, Restart PROVE TypeInv'
<1>1. cleanup' \in Cleanup /\ restarts' \in Nat
  BY DEF Restart, Waiting, Cleanup, TypeInv
<1>2. QED  BY <1>1, IdleTyped DEF Restart, StoreUnchanged, TypeInv

LEMMA StepTypeInv == TypeInv /\ [Next]_vars => TypeInv'
<1> SUFFICES ASSUME TypeInv, [Next]_vars PROVE TypeInv'
  OBVIOUS
<1>1. CASE UNCHANGED vars
  BY <1>1 DEF vars, TypeInv
<1>2. QED
  BY <1>1, ReadTyped, PartnerTyped, StoreTyped, CleanupTyped, CreateTyped,
     TickTyped, RestartTyped DEF Next

LEMMA Typed == Spec => []TypeInv
BY InitTyped, StepTypeInv, PTL DEF Spec

(* The table and the locals of all its users stay well-typed, however      *)
(* operations, failures, passes of the cleanup and restarts overlap.       *)
THEOREM TypeCorrect == Spec => []TypeOK
BY Typed, TypeInvTypes, PTL
-----------------------------------------------------------------------------
(* Pauses end.  Partners, requesters and the store overlap in any way and  *)
(* save copies of any age; a pause was computed from the time of a failure *)
(* and travels with the copies, and that time is not later than now.       *)

WithinPause(time) == \E minutes \in PauseLengths : time <= now + AtLeast1(minutes)

Bounded(r) == r.paused # 0 => WithinPause(r.paused)

PauseHorizon == \A r \in Requests : Bounded(row[r])

PauseInv == TypeInv /\ PauseHorizon /\ \A h \in Handlers : Bounded(request[h].copy)

\* An absent row has no pause; a saved one has it from the row or the copy.
LEMMA SavedBounded ==
  /\ Bounded(NoRow) /\ Bounded(Idle.copy)
  /\ \A old, selected, copy :
        Bounded(old) /\ Bounded(copy) => Bounded(Saved(old, selected, copy))
<1>1. Bounded(NoRow) /\ Bounded(Idle.copy)
  BY DEF Bounded, NoRow, Idle
<1>2. ASSUME NEW old, NEW selected, NEW copy, Bounded(old), Bounded(copy)
      PROVE  Bounded(Saved(old, selected, copy))
  <2>1. Merge(old, selected, copy).paused \in {old.paused, copy.paused}
    BY DEF Merge, Column
  <2>2. QED  BY <1>1, <1>2, <2>1 DEF Saved, Bounded
<1>3. QED  BY <1>1, <1>2

\* So has what handlers make of a copy, unless a failure starts it now.
LEMMA CopiesBounded ==
  ASSUME NEW r \in Row, Bounded(r), now \in Nat
  PROVE  /\ Bounded(WithoutFailures(r))
         /\ \A p \in Payloads : Bounded(WithResponse(r, p))
         /\ \A hours \in Extensions : Bounded(WithExtension(r, hours))
         /\ \A limit \in Limits, minutes \in PauseLengths :
                Bounded(WithFailure(r, limit, minutes))
<1>1. WithoutFailures(r).paused = 0
  BY DEF WithoutFailures, Row
<1>2. \A p \in Payloads : WithResponse(r, p).paused = 0
  BY <1>1, WithoutFailuresKeeps DEF WithResponse, Row
<1>3. \A hours \in Extensions : WithExtension(r, hours).paused = r.paused
  BY DEF WithExtension, Row
<1>4. ASSUME NEW limit \in Limits, NEW minutes \in PauseLengths
      PROVE  Bounded(WithFailure(r, limit, minutes))
  <2>1. WithFailure(r, limit, minutes).paused \in {r.paused, now + AtLeast1(minutes)}
    BY DEF WithFailure, Row
  <2>2. now + AtLeast1(minutes) <= now + AtLeast1(minutes)
    BY PositiveTyped, LimitsAssumption
  <2>3. QED  BY <2>1, <2>2 DEF Bounded, WithinPause
<1>5. QED  BY <1>1, <1>2, <1>3, <1>4 DEF Bounded

\* While the time stays, so do the bounds of everything that stays.
LEMMA TimeStays == now' = now => \A r : Bounded(r) => (r.paused # 0 => WithinPause(r.paused)')
BY DEF Bounded, WithinPause

LEMMA BoundedSet ==
  ASSUME PauseInv, NEW h \in Handlers, NEW q, Set(h, q), Bounded(q.copy), now' = now,
         TypeInv', \A r \in Requests : row'[r] = row[r] \/ Bounded(row'[r])
  PROVE  PauseInv'
<1>1. \A g \in Handlers : Bounded(request'[g].copy)
  BY DEF Set, PauseInv, TypeInv
<1>2. \A r \in Requests : Bounded(row'[r])
  BY DEF PauseInv, PauseHorizon
<1>3. QED  BY <1>1, <1>2, TimeStays DEF PauseInv, PauseHorizon, Bounded

LEMMA ReadBounded ==
  ASSUME PauseInv, NEW h \in Handlers, NEW r \in Requests,
         PartnerRead(h, r) \/ ExtendRead(h, r) \/ RevokeRead(h, r)
  PROVE  PauseInv'
<1>1. TypeInv' /\ row' = row /\ now' = now
  BY ReadTyped
     DEF PauseInv, PartnerRead, ExtendRead, RevokeRead, Read, StoreUnchanged, EnvUnchanged
<1>2. ASSUME NEW step, Read(h, r, step) PROVE PauseInv'
  <2> DEFINE q == [Idle EXCEPT !.step = step, !.id = r, !.copy = row[r]]
  <2>1. q.copy = row[r] /\ Set(h, q)
    BY <1>2 DEF Idle, Read
  <2> HIDE DEF q
  <2>2. QED  BY <1>1, <2>1, BoundedSet DEF PauseInv, PauseHorizon
<1>3. CASE RevokeRead(h, r)
  <2> DEFINE q == [Idle EXCEPT !.step = "revoking", !.id = r, !.tries = 1]
  <2>1. q.copy = Idle.copy /\ Set(h, q)
    BY <1>3 DEF Idle, RevokeRead
  <2> HIDE DEF q
  <2>2. QED  BY <1>1, <2>1, SavedBounded, BoundedSet
<1>4. QED  BY <1>2, <1>3 DEF PartnerRead, ExtendRead

LEMMA PartnerBounded ==
  ASSUME PauseInv, NEW h \in Handlers, Partner(h) \/ Requester(h)
  PROVE  PauseInv'
<1>0. /\ TypeInv' /\ row' = row /\ now' = now /\ now \in Nat
      /\ request[h].step # "idle"
  BY PartnerTyped
     DEF PauseInv, TypeInv, Partner, Requester, PartnerExpired, PartnerRefused,
         PartnerLapsed, PartnerOpen, VerifyWrong, VerifyRight, RecordFailure,
         ConfigurationFails, Show, Update, Extend, ExtendRefused, InTime, At,
         StoreUnchanged, EnvUnchanged
<1>1. /\ request[h] \in Request /\ request[h].copy \in Row
      /\ Bounded(request[h].copy)
  BY <1>0, LocalsTyped DEF PauseInv
<1>2. ASSUME NEW q, Set(h, q), Bounded(q.copy) PROVE PauseInv'
  BY <1>0, <1>2, BoundedSet
<1>3. ASSUME Finish(h) PROVE PauseInv'
  BY <1>2, <1>3, SavedBounded DEF Finish
<1>4. ASSUME NEW goal, NEW copy, Bounded(copy), Save(h, goal, copy) PROVE PauseInv'
  <2> DEFINE q == [request[h] EXCEPT !.step = "selecting", !.goal = goal,
                                     !.copy = copy, !.tries = 1]
  <2>1. q.copy = copy /\ Set(h, q)
    BY <1>1, <1>4 DEF Request, Save
  <2> HIDE DEF q
  <2>2. QED  BY <1>2, <1>4, <2>1
<1>5. ASSUME NEW step, Set(h, [request[h] EXCEPT !.step = step]) PROVE PauseInv'
  <2> DEFINE q == [request[h] EXCEPT !.step = step]
  <2>1. q.copy = request[h].copy /\ Set(h, q)
    BY <1>1, <1>5 DEF Request
  <2> HIDE DEF q
  <2>2. QED  BY <1>1, <1>2, <2>1
<1>6. CASE PartnerExpired(h)
  <2> DEFINE q == [request[h] EXCEPT !.step = "deleting", !.tries = 1]
  <2>1. q.copy = request[h].copy /\ Set(h, q)
    BY <1>1, <1>6 DEF Request, PartnerExpired
  <2> HIDE DEF q
  <2>2. QED  BY <1>1, <1>2, <2>1
<1>7. CASE PartnerLapsed(h) \/ VerifyRight(h)
  BY <1>0, <1>1, <1>4, <1>7, CopiesBounded DEF PartnerLapsed, VerifyRight
<1>8. CASE PartnerOpen(h) \/ VerifyWrong(h)
  BY <1>5, <1>8 DEF PartnerOpen, VerifyWrong
<1>9. CASE RecordFailure(h)
  BY <1>0, <1>1, <1>4, <1>9, CopiesBounded DEF RecordFailure
<1>10. CASE \E p \in Payloads : Update(h, p)
  BY <1>0, <1>1, <1>4, <1>10, CopiesBounded DEF Update
<1>11. CASE \E hours \in Extensions : Extend(h, hours)
  BY <1>0, <1>1, <1>4, <1>11, CopiesBounded DEF Extend
<1>12. QED
  BY <1>3, <1>6, <1>7, <1>8, <1>9, <1>10, <1>11
     DEF Partner, Requester, PartnerRefused, ConfigurationFails, Show, ExtendRefused

LEMMA StoreBounded ==
  ASSUME PauseInv, NEW h \in Handlers, Store(h)
  PROVE  PauseInv'
<1> DEFINE q == request[h]
           new == Saved(row[q.id], q.selected, q.copy)
<1>0. /\ TypeInv' /\ now' = now /\ q.step # "idle" /\ row \in [Requests -> Row]
  BY StoreTyped
     DEF PauseInv, TypeInv, Store, UpsertSelect, UpsertSucceeds, UpsertConflicts,
         UpsertBreaks, DeleteSucceeds, DeleteBreaks, Deleting, Savable, At, EnvUnchanged
<1>1. /\ q \in Request /\ q.id \in Requests /\ Bounded(q.copy)
      /\ Bounded(row[q.id]) /\ Bounded(new)
  BY <1>0, LocalsTyped, SavedBounded DEF PauseInv, PauseHorizon
<1>2. \A r \in Requests : row'[r] = row[r] \/ Bounded(row'[r])
  <2>1. row' = row \/ row' = [row EXCEPT ![q.id] = new] \/ row' = [row EXCEPT ![q.id] = NoRow]
    BY DEF Store, UpsertSelect, UpsertSucceeds, UpsertConflicts, UpsertBreaks,
           DeleteSucceeds, DeleteBreaks, Deletes, Write, StoreUnchanged
  <2> HIDE DEF new
  <2>2. QED  BY <1>0, <1>1, <2>1, SavedBounded
<1>3. ASSUME NEW p, Set(h, p), Bounded(p.copy) PROVE PauseInv'
  BY <1>0, <1>2, <1>3, BoundedSet
<1>4. ASSUME Finish(h) PROVE PauseInv'
  BY <1>3, <1>4, SavedBounded DEF Finish
<1>5. ASSUME NEW step, Retry(h, step) PROVE PauseInv'
  <2> DEFINE p == [q EXCEPT !.step = step, !.tries = @ + 1, !.selected = NoRow]
  <2>1. p.copy = q.copy /\ Set(h, p)
    BY <1>1, <1>5 DEF Request, Retry
  <2> HIDE DEF p
  <2>2. QED  BY <1>1, <1>3, <2>1
<1>6. CASE UpsertSelect(h)
  <2> DEFINE p == [q EXCEPT !.step = "saving", !.selected = row[q.id]]
  <2>1. p.copy = q.copy /\ Set(h, p)
    BY <1>1, <1>6 DEF Request, UpsertSelect
  <2> HIDE DEF p
  <2>2. QED  BY <1>1, <1>3, <2>1
<1>7. CASE UpsertSucceeds(h)
  <2>1. AfterUpsert(h).copy \in {q.copy, Idle.copy}
    BY <1>1 DEF AfterUpsert, Request
  <2>2. QED  BY <1>1, <1>3, <1>7, <2>1, SavedBounded DEF UpsertSucceeds
<1>8. QED
  BY <1>4, <1>5, <1>6, <1>7
     DEF Store, UpsertConflicts, UpsertBreaks, DeleteSucceeds, DeleteBreaks

LEMMA RestBounded ==
  ASSUME PauseInv,
         \/ \E r \in Requests : Create(r)
         \/ CleanupPass \/ Tick \/ Restart \/ UNCHANGED vars
  PROVE  PauseInv'
<1>0. TypeInv' /\ now \in Nat /\ row \in [Requests -> Row]
  BY CreateTyped, CleanupTyped, TickTyped, RestartTyped DEF PauseInv, TypeInv, vars
<1>1. ASSUME NEW r \in Requests, Create(r) PROVE PauseInv'
  <2>1. PICK hours \in Lifetimes :
            row' = [row EXCEPT ![r] = [NoRow EXCEPT !.expires = now + hours]]
    BY <1>1 DEF Create
  <2>2. row'[r].paused = 0 /\ \A t \in Requests \ {r} : row'[t] = row[t]
    BY <1>0, <2>1 DEF NoRow
  <2>3. request' = request /\ now' = now
    BY <1>1 DEF Create, EnvUnchanged
  <2>4. QED  BY <1>0, <2>2, <2>3, TimeStays DEF PauseInv, PauseHorizon, Bounded
<1>2. CASE CleanupPass
  <2>1. /\ request' = request /\ now' = now
        /\ \A r \in Requests : row'[r] = row[r] \/ row'[r] = NoRow
    BY <1>2 DEF CleanupPass, CleanupStart, CleanupShares, CleanupDelete,
                CleanupReport, CleanupBreaks, CleanupRemoves, CleanupUnchanged
  <2>2. \A r \in Requests : Bounded(row'[r])
    BY <2>1, SavedBounded DEF PauseInv, PauseHorizon
  <2>3. QED  BY <1>0, <2>1, <2>2, TimeStays DEF PauseInv, PauseHorizon, Bounded
<1>3. CASE Tick
  <2>1. now' = now + 1 /\ row' = row /\ request' = request
    BY <1>3 DEF Tick
  <2>2. ASSUME NEW time \in Nat, WithinPause(time) PROVE WithinPause(time)'
    <3>1. PICK minutes \in PauseLengths : time <= now + AtLeast1(minutes)
      BY <2>2 DEF WithinPause
    <3>2. time <= now' + AtLeast1(minutes)
      BY <1>0, <2>1, <3>1, PositiveTyped, LimitsAssumption
    <3>3. QED  BY <3>2 DEF WithinPause
  <2>3. /\ \A r \in Requests : row[r].paused \in Nat
        /\ \A h \in Handlers : request[h].copy.paused \in Nat
    BY <1>0 DEF PauseInv, TypeInv, Locals, Request, Row
  <2>4. QED  BY <1>0, <2>1, <2>2, <2>3 DEF PauseInv, PauseHorizon, Bounded
<1>4. CASE Restart
  <2>1. row' = row /\ now' = now /\ \A h \in Handlers : Bounded(request'[h].copy)
    BY <1>4, SavedBounded DEF Restart, StoreUnchanged
  <2>2. QED  BY <1>0, <2>1, TimeStays DEF PauseInv, PauseHorizon, Bounded
<1>5. CASE UNCHANGED vars
  BY <1>0, <1>5, TimeStays DEF vars, PauseInv, PauseHorizon, Bounded
<1>6. QED  BY <1>1, <1>2, <1>3, <1>4, <1>5

LEMMA PauseInvInit == Init => PauseInv
BY InitTyped, SavedBounded DEF Init, PauseInv, PauseHorizon

(* However partners' failures, submissions, extensions, retries and the    *)
(* cleanup overlap, no information request is paused further ahead than a  *)
(* pause length an administrator can have set                              *)
(* (InformationRequestController.cs:450).                                  *)
THEOREM PausesEnd == Spec => []PauseHorizon
<1>1. PauseInv /\ [Next]_vars => PauseInv'
  BY ReadBounded, PartnerBounded, StoreBounded, RestBounded DEF Next
<1>2. PauseInv => PauseHorizon
  BY DEF PauseInv
<1>3. QED  BY <1>1, <1>2, PauseInvInit, PTL DEF Spec

-----------------------------------------------------------------------------
(* When operations on one request do not overlap, the copy of a handler    *)
(* is the row, but for what the operation is about to change: rw is the    *)
(* row of the handler with locals q, st the responses it ever held, and t  *)
(* the time.                                                               *)

Extended(new, old, t) ==
  \E hours \in Extensions, u \in 1..t : new = Later(old, u) + hours

SaveFits(q, rw, st, t) ==
  /\ rw # NoRow
  /\ q.goal # "response" => q.copy.payload = rw.payload /\ q.copy.mode = rw.mode
  /\ q.goal = "response" =>
        \/ q.copy.payload = rw.payload /\ q.copy.mode = rw.mode
        \/ /\ q.copy.payload \in Payloads \ st
           /\ q.copy.mode = ModeOf(q.copy.payload)
  /\ q.goal # "extension" => q.copy.expires = rw.expires
  /\ q.goal = "extension" =>
        q.copy.expires = rw.expires \/ Extended(q.copy.expires, rw.expires, t)

Fits(q, rw, st, t) ==
  /\ q.step \in {"checking", "verifying", "configuring", "answering", "extending"} =>
        rw # NoRow /\ q.copy = rw
  /\ q.step \in {"selecting", "saving"} => SaveFits(q, rw, st, t)
  /\ q.step = "saving" => q.selected = rw
  /\ q.step = "deleting" => rw.expires <= t

RowsInv ==
  \A r \in Requests :
    /\ row[r] # NoRow => r \in created /\ row[r].expires >= 1
    /\ row[r].payload # NoPayload => row[r].payload \in stored[r]

CopiesInv ==
  \A h \in Handlers : request[h].step # "idle" =>
     /\ request[h].id \in created
     /\ Fits(request[h], row[request[h].id], stored[request[h].id], now)

Alone ==
  \A h, g \in Handlers :
    h # g /\ request[h].step # "idle" => request[g].id # request[h].id

ClockInv == now >= 1 /\ cleanup.asOf <= now

SerialInv == TypeInv /\ RowsInv /\ CopiesInv /\ Alone /\ ClockInv

LEMMA InitSerial == Init => SerialInv
<1> SUFFICES ASSUME Init PROVE SerialInv
  OBVIOUS
<1>1. \A r \in Requests : row[r] = NoRow
  BY DEF Init
<1>2. RowsInv
  BY <1>1 DEF RowsInv, NoRow
<1>3. \A h \in Handlers : request[h].step = "idle"
  BY DEF Init, Idle
<1>4. CopiesInv /\ Alone /\ ClockInv
  BY <1>3 DEF Init, CopiesInv, Alone, ClockInv, Waiting
<1>5. QED  BY <1>2, <1>4, InitTyped DEF SerialInv

\* An operation that goes on, or ends, keeps its request to itself.
LEMMA SetAlone ==
  ASSUME TypeInv, Alone, NEW h \in Handlers, NEW q \in Locals, Set(h, q),
         request[h].step # "idle", q.step = "idle" \/ q.id = request[h].id
  PROVE  Alone'
<1>1. /\ request'[h] = q /\ \A g \in Handlers \ {h} : request'[g] = request[g]
  BY DEF Set, TypeInv
<1>2. ASSUME NEW f \in Handlers, NEW g \in Handlers, f # g, request'[f].step # "idle"
      PROVE  request'[g].id # request'[f].id
  <2>1. CASE f = h
    <3>1. request'[f].id = request[h].id /\ request'[g] = request[g]
      BY <1>1, <1>2, <2>1
    <3>2. QED  BY <1>2, <2>1, <3>1 DEF Alone
  <2>2. CASE f # h /\ g = h
    <3>1. request[f].step # "idle" /\ request'[f] = request[f]
      BY <1>1, <1>2, <2>2
    <3>2. request[h].id # request[f].id /\ request[f].id \in Requests
      BY <2>2, <3>1, LocalsTyped DEF Alone
    <3>3. q.step = "idle" => q.id = NoRequest
      BY DEF Locals, Idle
    <3>4. QED  BY <1>1, <2>2, <3>1, <3>2, <3>3, RequestsAssumption
  <2>3. CASE f # h /\ g # h
    BY <1>1, <1>2, <2>3 DEF Alone
  <2>4. QED  BY <2>1, <2>2, <2>3
<1>3. QED  BY <1>2 DEF Alone

\* A step of one handler that writes no row.
LEMMA LocalStep ==
  ASSUME SerialInv, NEW h \in Handlers, NEW q \in Locals, Set(h, q),
         request[h].step # "idle", q.step = "idle" \/ q.id = request[h].id,
         q.step # "idle" => Fits(q, row[q.id], stored[q.id], now),
         TypeInv', UNCHANGED <<row, created, stored, now, cleanup>>
  PROVE  SerialInv'
<1>1. /\ request'[h] = q /\ \A g \in Handlers \ {h} : request'[g] = request[g]
  BY DEF Set, SerialInv, TypeInv
<1>2. Alone'
  BY SetAlone DEF SerialInv
<1>3. RowsInv' /\ ClockInv'
  BY DEF SerialInv, RowsInv, ClockInv
<1>4. CopiesInv'
  BY <1>1 DEF SerialInv, CopiesInv
<1>5. QED  BY <1>2, <1>3, <1>4 DEF SerialInv

\* Where the row of a request changes, and only its handler has it.
LEMMA RowStep ==
  ASSUME SerialInv, NEW h \in Handlers, NEW q \in Locals, Set(h, q),
         request[h].step # "idle", q.step = "idle" \/ q.id = request[h].id,
         NEW new \in Row, NEW held \in SUBSET Payloads,
         row' = [row EXCEPT ![request[h].id] = new],
         stored' = [stored EXCEPT ![request[h].id] = held],
         new # NoRow => request[h].id \in created /\ new.expires >= 1,
         new.payload # NoPayload => new.payload \in held,
         q.step # "idle" => Fits(q, new, held, now),
         TypeInv', UNCHANGED <<created, now, cleanup>>
  PROVE  SerialInv'
<1> DEFINE r == request[h].id
<1>1. /\ request'[h] = q /\ \A g \in Handlers \ {h} : request'[g] = request[g]
  BY DEF Set, SerialInv, TypeInv
<1>2. r \in Requests
  BY LocalsTyped DEF SerialInv
<1>3. /\ row'[r] = new /\ stored'[r] = held
      /\ \A s \in Requests \ {r} : row'[s] = row[s] /\ stored'[s] = stored[s]
  BY <1>2 DEF SerialInv, TypeInv
<1>4. Alone'
  BY SetAlone DEF SerialInv
<1>5. RowsInv'
  BY <1>2, <1>3 DEF SerialInv, RowsInv
<1>6. ASSUME NEW g \in Handlers, request'[g].step # "idle"
      PROVE  /\ request'[g].id \in created'
             /\ Fits(request'[g], row'[request'[g].id], stored'[request'[g].id], now')
  <2>1. CASE g = h
    BY <1>1, <1>3, <1>6, <2>1 DEF SerialInv, CopiesInv
  <2>2. CASE g # h
    <3>1. request'[g] = request[g] /\ request[g].step # "idle"
      BY <1>1, <1>6, <2>2
    <3>2. request[g].id \in Requests /\ request[g].id # r
      BY <2>2, <3>1, LocalsTyped DEF SerialInv, Alone
    <3>3. /\ request[g].id \in created
          /\ Fits(request[g], row[request[g].id], stored[request[g].id], now)
      BY <3>1 DEF SerialInv, CopiesInv
    <3>4. QED  BY <1>3, <3>1, <3>2, <3>3
  <2>3. QED  BY <2>1, <2>2
<1>7. CopiesInv'
  BY <1>6 DEF CopiesInv
<1>8. QED  BY <1>4, <1>5, <1>7 DEF SerialInv, ClockInv

LEMMA ReadSerial ==
  ASSUME SerialInv, ~Overlap, NEW h \in Handlers, NEW r \in Requests,
         PartnerRead(h, r) \/ ExtendRead(h, r) \/ RevokeRead(h, r)
  PROVE  SerialInv'
<1>1. /\ UNCHANGED <<row, created, stored, now, cleanup>>
      /\ At(h, "idle") /\ row[r] # NoRow /\ Free(r)
  BY DEF PartnerRead, ExtendRead, RevokeRead, Read, StoreUnchanged, EnvUnchanged
<1>2. TypeInv'
  BY ReadTyped DEF SerialInv
<1>3. PICK q : /\ Set(h, q) /\ q.id = r /\ q.step \in {"checking", "extending", "revoking"}
               /\ q.step # "revoking" => q.copy = row[r]
  <2>1. ASSUME NEW step \in {"checking", "extending"}, Read(h, r, step)
        PROVE  \E q : /\ Set(h, q) /\ q.id = r
                      /\ q.step \in {"checking", "extending", "revoking"}
                      /\ q.step # "revoking" => q.copy = row[r]
    <3> DEFINE q == [Idle EXCEPT !.step = step, !.id = r, !.copy = row[r]]
    <3>1. q.id = r /\ q.step = step /\ q.copy = row[r]
      BY DEF Idle
    <3>2. Set(h, q)
      BY <2>1 DEF Read
    <3> HIDE DEF q
    <3>3. QED  BY <3>1, <3>2
  <2>2. ASSUME RevokeRead(h, r)
        PROVE  \E q : /\ Set(h, q) /\ q.id = r
                      /\ q.step \in {"checking", "extending", "revoking"}
                      /\ q.step # "revoking" => q.copy = row[r]
    <3> DEFINE q == [Idle EXCEPT !.step = "revoking", !.id = r, !.tries = 1]
    <3>1. q.id = r /\ q.step = "revoking"
      BY DEF Idle
    <3>2. Set(h, q)
      BY <2>2 DEF RevokeRead
    <3> HIDE DEF q
    <3>3. QED  BY <3>1, <3>2
  <2>3. QED  BY <2>1, <2>2 DEF PartnerRead, ExtendRead
<1>4. /\ request'[h] = q /\ \A g \in Handlers \ {h} : request'[g] = request[g]
  BY <1>3 DEF Set, SerialInv, TypeInv
<1>5. Alone'
  BY <1>1, <1>3, <1>4 DEF SerialInv, Alone, Free
<1>6. RowsInv' /\ ClockInv'
  BY <1>1 DEF SerialInv, RowsInv, ClockInv
<1>7. Fits(q, row[r], stored[r], now) /\ r \in created
  BY <1>1, <1>3 DEF Fits, SerialInv, RowsInv
<1>8. CopiesInv'
  BY <1>1, <1>3, <1>4, <1>7 DEF SerialInv, CopiesInv
<1>9. QED  BY <1>2, <1>5, <1>6, <1>8 DEF SerialInv

LEMMA PartnerSerial ==
  ASSUME SerialInv, NEW h \in Handlers, Partner(h) \/ Requester(h)
  PROVE  SerialInv'
<1> DEFINE q == request[h]
           rw == row[q.id]
           st == stored[q.id]
<1>1. /\ UNCHANGED <<row, created, stored, now, cleanup>>
      /\ q.step \in {"checking", "verifying", "configuring", "answering", "extending"}
  BY DEF Partner, Requester, PartnerExpired, PartnerRefused, PartnerLapsed,
         PartnerOpen, VerifyWrong, VerifyRight, RecordFailure, ConfigurationFails,
         Show, Update, Extend, ExtendRefused, InTime, At, StoreUnchanged, EnvUnchanged
<1>2. TypeInv' /\ TypeInv
  BY PartnerTyped DEF SerialInv
<1>3. q \in Request /\ q.id \in Requests /\ q.copy \in Row /\ now \in Nat
  BY <1>1, <1>2, LocalsTyped DEF TypeInv
<1>4. Fits(q, rw, st, now) /\ rw # NoRow /\ q.copy = rw
  BY <1>1 DEF SerialInv, CopiesInv, Fits
<1>5. ASSUME NEW p \in Locals, Set(h, p), p.step = "idle" \/ p.id = q.id,
             p.step # "idle" => Fits(p, rw, st, now)
      PROVE  SerialInv'
  <2>1. q.step # "idle" /\ p.step # "idle" => Fits(p, row[p.id], stored[p.id], now)
    BY <1>1, <1>5
  <2>2. QED  BY <1>1, <1>2, <1>5, <2>1, LocalStep
<1>6. ASSUME Finish(h) PROVE SerialInv'
  BY <1>5, <1>6, IdleTyped DEF Finish, Idle
<1>7. ASSUME NEW goal \in Goals, NEW copy \in Row, Save(h, goal, copy),
             SaveFits([goal |-> goal, copy |-> copy], rw, st, now)
      PROVE  SerialInv'
  <2> DEFINE p == [q EXCEPT !.step = "selecting", !.goal = goal, !.copy = copy,
                            !.tries = 1]
  <2>1. p \in Locals
    BY <1>3, SaveTyped
  <2>2. Set(h, p)
    BY <1>7 DEF Save
  <2>3. p.step = "selecting" /\ p.id = q.id /\ p.goal = goal /\ p.copy = copy
    BY <1>3 DEF Request
  <2> HIDE DEF p
  <2>4. Fits(p, rw, st, now)
    BY <1>7, <2>3 DEF Fits, SaveFits
  <2>5. QED  BY <1>5, <2>1, <2>2, <2>3, <2>4
<1>8. CASE PartnerExpired(h)
  <2> DEFINE p == [q EXCEPT !.step = "deleting", !.tries = 1]
  <2>1. p \in Locals /\ p.step = "deleting" /\ p.id = q.id
    BY <1>3, NoRowTyped DEF Locals, Request, Steps
  <2>2. Set(h, p) /\ rw.expires <= now
    BY <1>4, <1>8 DEF PartnerExpired
  <2> HIDE DEF p
  <2>3. Fits(p, rw, st, now)
    BY <2>1, <2>2 DEF Fits
  <2>4. QED  BY <1>5, <2>1, <2>2, <2>3
<1>9. ASSUME NEW step \in {"verifying", "configuring"}, Set(h, [q EXCEPT !.step = step])
      PROVE  SerialInv'
  <2> DEFINE p == [q EXCEPT !.step = step]
  <2>1. p \in Locals
    BY <1>3, StepTyped DEF Steps
  <2>2. p.step = step /\ p.id = q.id /\ p.copy = q.copy
    BY <1>3 DEF Request
  <2>3. Set(h, p)
    BY <1>9
  <2> HIDE DEF p
  <2>4. Fits(p, rw, st, now)
    BY <1>4, <1>9, <2>2 DEF Fits
  <2>5. QED  BY <1>5, <2>1, <2>2, <2>3, <2>4
<1>10. CASE PartnerLapsed(h) \/ VerifyRight(h)
  BY <1>3, <1>4, <1>7, <1>10, WithoutFailuresKeeps
     DEF PartnerLapsed, VerifyRight, SaveFits, Goals
<1>11. CASE RecordFailure(h)
  BY <1>3, <1>4, <1>7, <1>11, WithFailureKeeps DEF RecordFailure, SaveFits, Goals
<1>12. ASSUME NEW p \in Payloads, Update(h, p) PROVE SerialInv'
  <2>1. p \notin st
    BY <1>3, <1>12 DEF Update, Fresh
  <2>2. QED
    BY <1>3, <1>4, <1>7, <1>12, <2>1, WithResponseKeeps DEF Update, SaveFits, Goals
<1>13. ASSUME NEW hours \in Extensions, Extend(h, hours) PROVE SerialInv'
  <2>1. now \in 1..now
    BY <1>3 DEF SerialInv, ClockInv
  <2>2. WithExtension(q.copy, hours) \in Row
        /\ WithExtension(q.copy, hours).expires = Later(rw.expires, now) + hours
        /\ WithExtension(q.copy, hours).payload = rw.payload
        /\ WithExtension(q.copy, hours).mode = rw.mode
    BY <1>3, <1>4, WithExtensionKeeps
  <2>3. Extended(WithExtension(q.copy, hours).expires, rw.expires, now)
    BY <2>1, <2>2 DEF Extended
  <2>4. SaveFits([goal |-> "extension", copy |-> WithExtension(q.copy, hours)],
                 rw, st, now)
    BY <1>4, <2>2, <2>3 DEF SaveFits
  <2>5. QED  BY <1>7, <1>13, <2>2, <2>4 DEF Extend, Goals
<1>14. QED
  BY <1>6, <1>8, <1>9, <1>10, <1>11, <1>12, <1>13
     DEF Partner, Requester, PartnerRefused, PartnerOpen, VerifyWrong,
         ConfigurationFails, Show, ExtendRefused

-----------------------------------------------------------------------------
(* Saving and deleting.                                                    *)

\* With no other writer, what is saved is the copy.
LEMMA SavedIsCopy ==
  ASSUME NEW rw \in Row, NEW copy \in Row, rw # NoRow
  PROVE  Saved(rw, rw, copy) = copy
<1>1. Saved(rw, rw, copy) = Merge(rw, rw, copy)
  BY DEF Saved
<1>2. Merge(rw, rw, copy) =
        [expires |-> copy.expires, payload |-> copy.payload, mode |-> copy.mode,
         attempts |-> copy.attempts, paused |-> copy.paused]
  BY DEF Merge, Column
<1>3. QED  BY <1>1, <1>2 DEF Row

LEMMA Savings ==
  ASSUME SerialInv, NEW h \in Handlers, Savable(h), Write(h)
  PROVE  LET q == request[h]
             held == stored[q.id] \cup ({q.copy.payload} \ {NoPayload})
         IN  /\ q.step = "saving" /\ q.id \in created /\ q.copy \in Row
             /\ SaveFits(q, row[q.id], stored[q.id], now)
             /\ row' = [row EXCEPT ![q.id] = q.copy]
             /\ stored' = [stored EXCEPT ![q.id] = held]
             /\ held \in SUBSET Payloads
             /\ q.copy # NoRow /\ q.copy.expires >= 1
             /\ q.copy.payload # NoPayload => q.copy.payload \in held
<1> DEFINE q == request[h]
           rw == row[q.id]
           held == stored[q.id] \cup ({q.copy.payload} \ {NoPayload})
<1>1. q.step = "saving" /\ q.step # "idle"
  BY DEF Savable, At
<1>2. q.id \in Requests /\ q.copy \in Row /\ rw \in Row
  BY <1>1, LocalsTyped DEF SerialInv
<1>3. /\ q.id \in created /\ SaveFits(q, rw, stored[q.id], now)
      /\ q.selected = rw /\ rw # NoRow
  BY <1>1 DEF SerialInv, CopiesInv, Fits, SaveFits
<1>4. Saved(rw, q.selected, q.copy) = q.copy
  BY <1>2, <1>3, SavedIsCopy
<1>5. row' = [row EXCEPT ![q.id] = q.copy] /\ stored' = [stored EXCEPT ![q.id] = held]
  BY <1>4 DEF Write
<1>6. held \in SUBSET Payloads
  BY <1>2 DEF Row, SerialInv, TypeInv
<1>7. q.copy.expires >= 1
  <2>1. rw.expires \in Nat /\ rw.expires >= 1
    BY <1>2, <1>3 DEF SerialInv, RowsInv, Row
  <2>2. CASE q.copy.expires = rw.expires
    BY <2>1, <2>2
  <2>3. CASE Extended(q.copy.expires, rw.expires, now)
    <3>1. PICK hours \in Extensions, u \in 1..now :
             q.copy.expires = Later(rw.expires, u) + hours
      BY <2>3 DEF Extended
    <3>2. hours \in Nat /\ hours >= 1 /\ u \in Nat
      BY TimesAssumption DEF SerialInv, TypeInv
    <3>3. Later(rw.expires, u) \in Nat
      BY <2>1, <3>2 DEF Later
    <3>4. QED  BY <3>1, <3>2, <3>3
  <2>4. QED  BY <1>3, <2>2, <2>3 DEF SaveFits
<1>8. q.copy # NoRow
  BY <1>7 DEF NoRow
<1>9. QED  BY <1>1, <1>2, <1>3, <1>5, <1>6, <1>7, <1>8

LEMMA AfterUpsertIs ==
  ASSUME TypeInv, NEW h \in Handlers, request[h].step # "idle"
  PROVE  /\ AfterUpsert(h) \in Locals
         /\ \/ AfterUpsert(h).step = "idle"
            \/ /\ AfterUpsert(h).step \in {"verifying", "answering"}
               /\ AfterUpsert(h).id = request[h].id
               /\ AfterUpsert(h).copy = request[h].copy
<1> DEFINE q == request[h]
           after == [q EXCEPT !.goal = "none", !.selected = NoRow, !.tries = 0]
<1>1. q \in Request /\ q.id \in Requests
  BY LocalsTyped
<1>2. after \in Request /\ after.id = q.id /\ after.copy = q.copy
  BY <1>1, NoRowTyped DEF Request, Goals
<1>3. AfterUpsert(h) \in {[after EXCEPT !.step = "verifying"],
                          [after EXCEPT !.step = "answering"], Idle}
  BY DEF AfterUpsert
<1> HIDE DEF after
<1>4. ASSUME NEW step \in {"verifying", "answering"}
      PROVE  LET p == [after EXCEPT !.step = step]
             IN  p \in Locals /\ p.step = step /\ p.id = q.id /\ p.copy = q.copy
  <2>1. [after EXCEPT !.step = step] \in Locals
    BY <1>1, <1>2, StepTyped DEF Steps
  <2>2. QED  BY <1>2, <2>1 DEF Request
<1>5. Idle.step = "idle"
  BY DEF Idle
<1>6. QED  BY <1>3, <1>4, <1>5, IdleTyped

LEMMA UpsertSerial ==
  ASSUME SerialInv, NEW h \in Handlers,
         \/ UpsertSelect(h) \/ UpsertSucceeds(h) \/ UpsertConflicts(h) \/ UpsertBreaks(h)
  PROVE  SerialInv'
<1> DEFINE q == request[h]
           rw == row[q.id]
           st == stored[q.id]
           held == stored[q.id] \cup ({q.copy.payload} \ {NoPayload})
<1>1. q.step \in {"selecting", "saving"} /\ q.step # "idle"
  BY DEF UpsertSelect, UpsertSucceeds, UpsertConflicts, UpsertBreaks, Savable, At
<1>2. TypeInv' /\ TypeInv /\ UNCHANGED <<created, now, cleanup>>
  <2>1. Store(h)
    BY DEF Store
  <2>2. QED
    BY <2>1, StoreTyped DEF SerialInv, UpsertSelect, UpsertSucceeds, UpsertConflicts,
                 UpsertBreaks, StoreUnchanged, EnvUnchanged
<1>3. q \in Request /\ q.id \in Requests /\ q.copy \in Row /\ rw \in Row
  BY <1>1, <1>2, LocalsTyped
<1>4. SaveFits(q, rw, st, now)
  BY <1>1 DEF SerialInv, CopiesInv, Fits
<1>5. CASE UpsertSelect(h)
  <2> DEFINE p == [q EXCEPT !.step = "saving", !.selected = rw]
  <2>1. p \in Locals
    BY <1>3 DEF Locals, Request, Steps
  <2>2. /\ p.step = "saving" /\ p.id = q.id /\ p.goal = q.goal /\ p.copy = q.copy
        /\ p.selected = rw
    BY <1>3 DEF Request
  <2>3. Set(h, p) /\ UNCHANGED <<row, stored>>
    BY <1>5 DEF UpsertSelect, StoreUnchanged
  <2> HIDE DEF p
  <2>4. Fits(p, row[p.id], stored[p.id], now)
    BY <1>4, <2>2 DEF Fits, SaveFits
  <2>5. QED  BY <1>1, <1>2, <2>1, <2>2, <2>3, <2>4, LocalStep
<1>6. ASSUME Finish(h), UNCHANGED <<row, stored>> PROVE SerialInv'
  BY <1>1, <1>2, <1>6, IdleTyped, LocalStep DEF Finish, Idle
<1>7. ASSUME Savable(h), Write(h), NEW p \in Locals, Set(h, p),
             p.step = "idle" \/ p.id = q.id,
             p.step # "idle" => Fits(p, q.copy, held, now)
      PROVE  SerialInv'
  <2>1. /\ row' = [row EXCEPT ![q.id] = q.copy] /\ stored' = [stored EXCEPT ![q.id] = held]
        /\ held \in SUBSET Payloads /\ q.id \in created /\ q.copy.expires >= 1
        /\ q.copy.payload # NoPayload => q.copy.payload \in held
    BY <1>7, Savings
  <2> HIDE DEF held
  <2>2. QED  BY <1>1, <1>2, <1>3, <1>7, <2>1, RowStep
<1>8. CASE UpsertSucceeds(h)
  <2>1. Savable(h) /\ Write(h) /\ Set(h, AfterUpsert(h))
    BY <1>8 DEF UpsertSucceeds
  <2>2. q.copy # NoRow
    BY <2>1, Savings
  <2>3. /\ AfterUpsert(h) \in Locals
        /\ \/ AfterUpsert(h).step = "idle"
           \/ /\ AfterUpsert(h).step \in {"verifying", "answering"}
              /\ AfterUpsert(h).id = q.id /\ AfterUpsert(h).copy = q.copy
    BY <1>1, <1>2, AfterUpsertIs
  <2>4. AfterUpsert(h).step # "idle" => Fits(AfterUpsert(h), q.copy, held, now)
    BY <2>2, <2>3 DEF Fits
  <2>5. QED  BY <1>7, <2>1, <2>3, <2>4
<1>9. CASE UpsertConflicts(h)
  BY <1>6, <1>9 DEF UpsertConflicts, StoreUnchanged
<1>10. CASE UpsertBreaks(h)
  <2> DEFINE p == [q EXCEPT !.step = "selecting", !.tries = @ + 1, !.selected = NoRow]
  <2>1. p \in Locals
    BY <1>3, RetryTyped DEF Steps
  <2>2. p.step = "selecting" /\ p.id = q.id /\ p.goal = q.goal /\ p.copy = q.copy
    BY <1>3 DEF Request
  <2>3. Set(h, p) \/ Finish(h)
    BY <1>10 DEF UpsertBreaks, Retry
  <2> HIDE DEF p
  <2>4. CASE Savable(h) /\ Write(h)
    <3>1. q.copy # NoRow
      BY <2>4, Savings
    <3>2. Fits(p, q.copy, held, now)
      BY <2>2, <3>1 DEF Fits, SaveFits
    <3>3. QED  BY <1>7, <2>1, <2>2, <2>3, <2>4, <3>2, IdleTyped DEF Finish, Idle
  <2>5. CASE UNCHANGED <<row, stored>>
    <3>1. Fits(p, row[p.id], stored[p.id], now)
      BY <1>4, <2>2 DEF Fits, SaveFits
    <3>2. CASE Set(h, p)
      BY <1>1, <1>2, <2>1, <2>2, <2>5, <3>1, <3>2, LocalStep
    <3>3. QED  BY <1>6, <2>3, <2>5, <3>2
  <2>6. QED  BY <1>10, <2>4, <2>5 DEF UpsertBreaks
<1>11. QED  BY <1>5, <1>8, <1>9, <1>10

LEMMA DeleteSerial ==
  ASSUME SerialInv, NEW h \in Handlers, DeleteSucceeds(h) \/ DeleteBreaks(h)
  PROVE  SerialInv'
<1> DEFINE q == request[h]
           st == stored[q.id]
<1>1. q.step \in {"deleting", "revoking"} /\ q.step # "idle"
  BY DEF DeleteSucceeds, DeleteBreaks, Deleting, At
<1>2. TypeInv' /\ TypeInv /\ UNCHANGED <<created, now, cleanup>> /\ stored' = stored
  <2>1. Store(h)
    BY DEF Store
  <2>2. QED
    BY <2>1, StoreTyped DEF SerialInv, DeleteSucceeds, DeleteBreaks, EnvUnchanged
<1>3. q \in Request /\ q.id \in Requests /\ now \in Nat /\ st \in SUBSET Payloads
  BY <1>1, <1>2, LocalsTyped DEF TypeInv
<1>4. PICK p \in Locals :
        /\ Set(h, p) /\ (p.step = "idle" \/ p.id = q.id)
        /\ p.step # "idle" => p.step = q.step
  <2> DEFINE p == [q EXCEPT !.step = q.step, !.tries = @ + 1, !.selected = NoRow]
  <2>1. p \in Locals /\ p.step = q.step /\ p.id = q.id
    BY <1>1, <1>3, RetryTyped DEF Request, Steps
  <2>2. Set(h, p) \/ Set(h, Idle)
    BY DEF DeleteSucceeds, DeleteBreaks, Retry, Finish
  <2> HIDE DEF p
  <2>3. QED  BY <2>1, <2>2, IdleTyped DEF Idle
<1>5. CASE Deletes(h)
  <2>1. row' = [row EXCEPT ![q.id] = NoRow] /\ stored' = [stored EXCEPT ![q.id] = st]
    BY <1>2, <1>3, <1>5 DEF Deletes, TypeInv
  <2>2. p.step # "idle" => Fits(p, NoRow, st, now)
    BY <1>1, <1>3, <1>4 DEF Fits, NoRow
  <2>3. NoRow.payload = NoPayload
    BY DEF NoRow
  <2>4. QED  BY <1>1, <1>2, <1>3, <1>4, <2>1, <2>2, <2>3, NoRowTyped, RowStep
<1>6. CASE row' = row
  <2>1. q.step = "deleting" => row[q.id].expires <= now
    BY <1>1 DEF SerialInv, CopiesInv, Fits
  <2>2. p.step # "idle" => Fits(p, row[p.id], stored[p.id], now)
    BY <1>1, <1>4, <2>1 DEF Fits
  <2>3. QED  BY <1>1, <1>2, <1>4, <1>6, <2>2, LocalStep
<1>7. QED  BY <1>5, <1>6 DEF DeleteSucceeds, DeleteBreaks

-----------------------------------------------------------------------------
(* The cleanup, the clock, restarts and new requests.                      *)

\* What fits a row goes on fitting it as time passes.
LEMMA FitsLater ==
  ASSUME NEW q, NEW rw \in Row, NEW st, NEW t \in Nat, NEW u \in Nat, t <= u,
         Fits(q, rw, st, t)
  PROVE  Fits(q, rw, st, u)
<1>1. \A n : Extended(n, rw.expires, t) => Extended(n, rw.expires, u)
  BY DEF Extended
<1>2. rw.expires <= t => rw.expires <= u
  BY DEF Row
<1>3. SaveFits(q, rw, st, t) => SaveFits(q, rw, st, u)
  BY <1>1 DEF SaveFits
<1>4. QED  BY <1>2, <1>3 DEF Fits

\* What a pass does to the table: nothing, or CleanupRemoves.
LEMMA CleanupSteps ==
  ASSUME TypeInv, CleanupPass
  PROVE  /\ CleanupUnchanged
         /\ row' = row \/ CleanupRemoves
         /\ cleanup'.asOf \in {cleanup.asOf, now, 0}
<1>1. cleanup \in Cleanup
  BY DEF TypeInv
<1>2. QED
  BY <1>1 DEF CleanupPass, CleanupStart, CleanupShares, CleanupDelete, CleanupReport,
              CleanupBreaks, Waiting, Cleanup, CleanupRemoves

LEMMA CleanupSerial ==
  ASSUME SerialInv, ~Overlap, CleanupPass
  PROVE  SerialInv'
<1>1. TypeInv /\ TypeInv' /\ UNCHANGED <<request, now, created, stored>>
  BY CleanupTyped, CleanupSteps DEF SerialInv, CleanupUnchanged
<1>2. ClockInv'
  BY <1>1, CleanupSteps DEF SerialInv, ClockInv, TypeInv, Cleanup
<1>3. Alone'
  BY <1>1 DEF SerialInv, Alone
<1>4. CASE row' = row
  BY <1>1, <1>2, <1>3, <1>4 DEF SerialInv, RowsInv, CopiesInv
<1>5. CASE CleanupRemoves
  <2>1. \A r \in Requests :
           IF r \in ExpiredRows THEN row'[r] = NoRow /\ Free(r) ELSE row'[r] = row[r]
    BY <1>5 DEF CleanupRemoves
  <2>2. RowsInv'
    BY <1>1, <2>1 DEF SerialInv, RowsInv, NoRow
  <2>3. ASSUME NEW h \in Handlers, request[h].step # "idle"
        PROVE  row'[request[h].id] = row[request[h].id]
    BY <1>1, <2>1, <2>3, LocalsTyped DEF Free
  <2>4. CopiesInv'
    BY <1>1, <2>3 DEF SerialInv, CopiesInv
  <2>5. QED  BY <1>1, <1>2, <1>3, <2>2, <2>4 DEF SerialInv
<1>6. QED  BY <1>1, <1>4, <1>5, CleanupSteps

LEMMA TickSerial == ASSUME SerialInv, Tick PROVE SerialInv'
<1>1. TypeInv /\ TypeInv' /\ now' = now + 1
      /\ UNCHANGED <<row, request, cleanup, created, stored>>
  BY TickTyped DEF SerialInv, Tick
<1>2. RowsInv' /\ Alone'
  BY <1>1 DEF SerialInv, RowsInv, Alone
<1>3. ClockInv'
  BY <1>1 DEF SerialInv, ClockInv, TypeInv, Cleanup
<1>4. ASSUME NEW h \in Handlers, request[h].step # "idle"
      PROVE  Fits(request[h], row[request[h].id], stored[request[h].id], now + 1)
  <2>1. Fits(request[h], row[request[h].id], stored[request[h].id], now)
    BY <1>4 DEF SerialInv, CopiesInv
  <2>2. row[request[h].id] \in Row /\ now \in Nat /\ now + 1 \in Nat /\ now <= now + 1
    BY <1>1, <1>4, LocalsTyped DEF TypeInv
  <2>3. QED  BY <2>1, <2>2, FitsLater
<1>5. CopiesInv'
  BY <1>1, <1>4 DEF SerialInv, CopiesInv
<1>6. QED  BY <1>1, <1>2, <1>3, <1>5 DEF SerialInv

LEMMA RestartSerial == ASSUME SerialInv, Restart PROVE SerialInv'
<1>1. TypeInv' /\ UNCHANGED <<row, now, created, stored>> /\ cleanup'.asOf = 0
  BY RestartTyped DEF SerialInv, Restart, StoreUnchanged, Waiting
<1>2. \A h \in Handlers : request'[h].step = "idle"
  BY DEF Restart, Idle
<1>3. RowsInv' /\ CopiesInv' /\ Alone'
  BY <1>1, <1>2 DEF SerialInv, RowsInv, CopiesInv, Alone
<1>4. ClockInv'
  BY <1>1 DEF SerialInv, TypeInv, ClockInv
<1>5. QED  BY <1>1, <1>3, <1>4 DEF SerialInv

LEMMA CreateSerial ==
  ASSUME SerialInv, NEW r \in Requests, Create(r)
  PROVE  SerialInv'
<1>1. TypeInv /\ TypeInv' /\ UNCHANGED <<request, stored, now, cleanup>>
  BY CreateTyped DEF SerialInv, Create, EnvUnchanged
<1>2. PICK hours \in Lifetimes :
         row' = [row EXCEPT ![r] = [NoRow EXCEPT !.expires = now + hours]]
  BY DEF Create
<1>3. now + hours >= 1
  BY <1>1, TimesAssumption DEF TypeInv
<1>4. /\ row'[r].expires >= 1 /\ row'[r].payload = NoPayload
      /\ \A s \in Requests \ {r} : row'[s] = row[s]
      /\ r \notin created /\ created' = created \cup {r}
  BY <1>1, <1>2, <1>3 DEF Create, TypeInv, NoRow
<1>5. RowsInv'
  BY <1>1, <1>4 DEF SerialInv, RowsInv
<1>6. CopiesInv'
  BY <1>1, <1>4, LocalsTyped DEF SerialInv, CopiesInv
<1>7. QED  BY <1>1, <1>5, <1>6 DEF SerialInv, Alone, ClockInv

LEMMA StepSerial == ~Overlap => (SerialInv /\ [Next]_vars => SerialInv')
<1> SUFFICES ASSUME ~Overlap, SerialInv, [Next]_vars PROVE SerialInv'
  OBVIOUS
<1>1. CASE UNCHANGED vars
  BY <1>1 DEF vars, SerialInv, TypeInv, RowsInv, CopiesInv, Alone, ClockInv
<1>2. QED
  BY <1>1, ReadSerial, PartnerSerial, UpsertSerial, DeleteSerial, CleanupSerial,
     CreateSerial, TickSerial, RestartSerial DEF Next, Store

LEMMA Serial == ASSUME ~Overlap PROVE Spec => []SerialInv
<1>1. SerialInv /\ [Next]_vars => SerialInv'
  BY StepSerial
<1>2. QED  BY <1>1, InitSerial, PTL DEF Spec

-----------------------------------------------------------------------------
(* What a step may do to the table, seen from outside.                     *)

Quiet == UNCHANGED <<row, created>> /\ now' \in {now, now + 1}

Deletion == \E h \in Handlers : Deleting(h) /\ Deletes(h)

Saving == \E h \in Handlers : Savable(h) /\ Write(h)

LEMMA Effects ==
  ASSUME TypeInv, [Next]_vars
  PROVE  \/ Quiet
         \/ \E r \in Requests : Create(r)
         \/ UNCHANGED <<created, now>> /\ (Saving \/ Deletion \/ CleanupRemoves)
<1>1. ASSUME UNCHANGED vars \/ Tick \/ Restart PROVE Quiet
  BY <1>1 DEF vars, Tick, Restart, StoreUnchanged, Quiet
<1>2. ASSUME NEW h \in Handlers, NEW r \in Requests,
             PartnerRead(h, r) \/ ExtendRead(h, r) \/ RevokeRead(h, r)
      PROVE  Quiet
  BY <1>2 DEF PartnerRead, ExtendRead, RevokeRead, Read, StoreUnchanged,
              EnvUnchanged, Quiet
<1>3. ASSUME NEW h \in Handlers, Partner(h) \/ Requester(h) PROVE Quiet
  BY <1>3 DEF Partner, Requester, PartnerExpired, PartnerRefused, PartnerLapsed,
         PartnerOpen, VerifyWrong, VerifyRight, RecordFailure, ConfigurationFails,
         Show, Update, Extend, ExtendRefused, StoreUnchanged, EnvUnchanged, Quiet
<1>4. ASSUME NEW h \in Handlers, Store(h)
      PROVE  Quiet \/ (UNCHANGED <<created, now>> /\ (Saving \/ Deletion))
  BY <1>4 DEF Store, UpsertSelect, UpsertSucceeds, UpsertConflicts, UpsertBreaks,
              DeleteSucceeds, DeleteBreaks, StoreUnchanged, EnvUnchanged, Quiet,
              Saving, Deletion
<1>5. ASSUME CleanupPass PROVE Quiet \/ (UNCHANGED <<created, now>> /\ CleanupRemoves)
  BY <1>5, CleanupSteps DEF CleanupUnchanged, Quiet
<1>6. QED  BY <1>1, <1>2, <1>3, <1>4, <1>5 DEF Next

-----------------------------------------------------------------------------
(* Deletions, however operations overlap.  A copy was read from a request  *)
(* that existed, and a handler that deletes an expired link found it       *)
(* expired in its copy.                                                    *)

Held(q, t) ==
  /\ q.step \notin {"idle", "revoking"} => q.copy.expires >= 1
  /\ q.step = "deleting" => q.copy.expires <= t

HeldInv ==
  /\ TypeInv
  /\ cleanup.asOf <= now
  /\ \A r \in Requests : row[r] # NoRow => row[r].expires >= 1
  /\ \A h \in Handlers : Held(request[h], now)

\* One handler goes on, and rows go, stay or are saved.
LEMMA HeldSet ==
  ASSUME HeldInv, NEW h \in Handlers, NEW q, Set(h, q), Held(q, now), TypeInv',
         UNCHANGED <<now, cleanup>>,
         \A r \in Requests : row'[r] \in {row[r], NoRow} \/ row'[r].expires >= 1
  PROVE  HeldInv'
<1>1. \A g \in Handlers : Held(request'[g], now)
  BY DEF Set, HeldInv, TypeInv
<1>2. \A r \in Requests : row'[r] # NoRow => row'[r].expires >= 1
  BY DEF HeldInv
<1>3. QED  BY <1>1, <1>2 DEF HeldInv

LEMMA IdleHeld == \A t : Held(Idle, t)
BY DEF Held, Idle

LEMMA ReadHeld ==
  ASSUME HeldInv, NEW h \in Handlers, NEW r \in Requests,
         PartnerRead(h, r) \/ ExtendRead(h, r) \/ RevokeRead(h, r)
  PROVE  HeldInv'
<1>1. TypeInv' /\ row' = row /\ UNCHANGED <<now, cleanup>> /\ row[r].expires >= 1
  BY ReadTyped
     DEF HeldInv, PartnerRead, ExtendRead, RevokeRead, Read, StoreUnchanged, EnvUnchanged
<1>2. ASSUME NEW step \in {"checking", "extending"}, Read(h, r, step) PROVE HeldInv'
  <2> DEFINE q == [Idle EXCEPT !.step = step, !.id = r, !.copy = row[r]]
  <2>1. q.copy = row[r] /\ q.step = step /\ Set(h, q)
    BY <1>2 DEF Idle, Read
  <2> HIDE DEF q
  <2>2. Held(q, now)
    BY <1>1, <2>1 DEF Held
  <2>3. QED  BY <1>1, <2>1, <2>2, HeldSet
<1>3. CASE RevokeRead(h, r)
  <2> DEFINE q == [Idle EXCEPT !.step = "revoking", !.id = r, !.tries = 1]
  <2>1. q.step = "revoking" /\ Set(h, q)
    BY <1>3 DEF Idle, RevokeRead
  <2> HIDE DEF q
  <2>2. Held(q, now)
    BY <2>1 DEF Held
  <2>3. QED  BY <1>1, <2>1, <2>2, HeldSet
<1>4. QED  BY <1>2, <1>3 DEF PartnerRead, ExtendRead

LEMMA PartnerHeld ==
  ASSUME HeldInv, NEW h \in Handlers, Partner(h) \/ Requester(h)
  PROVE  HeldInv'
<1> DEFINE q == request[h]
<1>1. /\ TypeInv' /\ row' = row /\ UNCHANGED <<now, cleanup>> /\ now \in Nat
      /\ q.step \in {"checking", "verifying", "configuring", "answering", "extending"}
  BY PartnerTyped
     DEF HeldInv, TypeInv, Partner, Requester, PartnerExpired, PartnerRefused,
         PartnerLapsed, PartnerOpen, VerifyWrong, VerifyRight, RecordFailure,
         ConfigurationFails, Show, Update, Extend, ExtendRefused, InTime, At,
         StoreUnchanged, EnvUnchanged
<1>2. q \in Request /\ q.copy \in Row /\ q.copy.expires >= 1 /\ q.copy.expires \in Nat
  BY <1>1, LocalsTyped DEF HeldInv, Held, Row
<1>3. ASSUME NEW p, Set(h, p), Held(p, now) PROVE HeldInv'
  BY <1>1, <1>3, HeldSet
<1>4. ASSUME Finish(h) PROVE HeldInv'
  BY <1>3, <1>4, IdleHeld DEF Finish
<1>5. ASSUME NEW goal, NEW copy, copy.expires >= 1, Save(h, goal, copy) PROVE HeldInv'
  <2> DEFINE p == [q EXCEPT !.step = "selecting", !.goal = goal, !.copy = copy,
                            !.tries = 1]
  <2>1. p.step = "selecting" /\ p.copy = copy /\ Set(h, p)
    BY <1>2, <1>5 DEF Request, Save
  <2> HIDE DEF p
  <2>2. QED  BY <1>3, <1>5, <2>1 DEF Held
<1>6. ASSUME NEW step \in {"verifying", "configuring"}, Set(h, [q EXCEPT !.step = step])
      PROVE  HeldInv'
  <2> DEFINE p == [q EXCEPT !.step = step]
  <2>1. p.step = step /\ p.copy = q.copy /\ Set(h, p)
    BY <1>2, <1>6 DEF Request
  <2> HIDE DEF p
  <2>2. QED  BY <1>2, <1>3, <2>1 DEF Held
<1>7. CASE PartnerExpired(h)
  <2> DEFINE p == [q EXCEPT !.step = "deleting", !.tries = 1]
  <2>1. p.step = "deleting" /\ p.copy = q.copy /\ Set(h, p) /\ q.copy.expires <= now
    BY <1>2, <1>7 DEF Request, PartnerExpired
  <2> HIDE DEF p
  <2>2. QED  BY <1>2, <1>3, <2>1 DEF Held
<1>8. CASE PartnerLapsed(h) \/ VerifyRight(h)
  BY <1>2, <1>5, <1>8, WithoutFailuresKeeps DEF PartnerLapsed, VerifyRight
<1>9. CASE PartnerOpen(h) \/ VerifyWrong(h)
  BY <1>6, <1>9 DEF PartnerOpen, VerifyWrong
<1>10. CASE RecordFailure(h)
  BY <1>1, <1>2, <1>5, <1>10, WithFailureKeeps DEF RecordFailure
<1>11. CASE \E p \in Payloads : Update(h, p)
  BY <1>2, <1>5, <1>11, WithResponseKeeps DEF Update
<1>12. ASSUME NEW hours \in Extensions, Extend(h, hours) PROVE HeldInv'
  <2>1. WithExtension(q.copy, hours).expires = Later(q.copy.expires, now) + hours
    BY <1>1, <1>2, WithExtensionKeeps
  <2>2. Later(q.copy.expires, now) \in Nat /\ hours \in Nat /\ hours >= 1
    BY <1>1, <1>2, TimesAssumption DEF Later
  <2>3. QED  BY <1>5, <1>12, <2>1, <2>2 DEF Extend
<1>13. QED
  BY <1>4, <1>7, <1>8, <1>9, <1>10, <1>11, <1>12
     DEF Partner, Requester, PartnerRefused, ConfigurationFails, Show, ExtendRefused

\* What a save leaves of a request that exists outlives the clock's start.
LEMMA SavedHeld ==
  ASSUME NEW old \in Row, NEW selected \in Row, NEW copy \in Row, copy.expires >= 1,
         old # NoRow => old.expires >= 1
  PROVE  Saved(old, selected, copy) = NoRow \/ Saved(old, selected, copy).expires >= 1
<1>1. Merge(old, selected, copy).expires \in {old.expires, copy.expires}
  BY DEF Merge, Column
<1>2. QED  BY <1>1 DEF Saved

LEMMA StoreHeld ==
  ASSUME HeldInv, NEW h \in Handlers, Store(h)
  PROVE  HeldInv'
<1> DEFINE q == request[h]
           new == Saved(row[q.id], q.selected, q.copy)
<1>1. /\ TypeInv' /\ UNCHANGED <<now, cleanup>> /\ row \in [Requests -> Row]
      /\ q.step \in {"selecting", "saving", "deleting", "revoking"} /\ q.step # "idle"
  BY StoreTyped
     DEF HeldInv, TypeInv, Store, UpsertSelect, UpsertSucceeds, UpsertConflicts,
         UpsertBreaks, DeleteSucceeds, DeleteBreaks, Deleting, Savable, At, EnvUnchanged
<1>2. /\ q \in Request /\ q.id \in Requests /\ q.copy \in Row /\ q.selected \in Row
      /\ row[q.id] \in Row
      /\ row[q.id] # NoRow => row[q.id].expires >= 1
      /\ q.step # "revoking" => q.copy.expires >= 1
      /\ q.step = "deleting" => q.copy.expires <= now
  BY <1>1, LocalsTyped DEF HeldInv, Held
<1>3. \A r \in Requests : row'[r] \in {row[r], NoRow} \/ row'[r].expires >= 1
  <2>1. CASE Savable(h) /\ Write(h)
    <3>1. new = NoRow \/ new.expires >= 1
      BY <1>2, <2>1, SavedHeld DEF Savable, At
    <3>2. row' = [row EXCEPT ![q.id] = new]
      BY <2>1 DEF Write
    <3> HIDE DEF new
    <3>3. QED  BY <1>1, <1>2, <3>1, <3>2
  <2>2. CASE row' = row \/ Deletes(h)
    BY <1>1, <1>2, <2>2 DEF Deletes
  <2>3. QED
    BY <2>1, <2>2 DEF Store, UpsertSelect, UpsertSucceeds, UpsertConflicts, UpsertBreaks,
                      DeleteSucceeds, DeleteBreaks, StoreUnchanged
<1>4. ASSUME NEW p, Set(h, p), Held(p, now) PROVE HeldInv'
  BY <1>1, <1>3, <1>4, HeldSet
<1>5. ASSUME Finish(h) PROVE HeldInv'
  BY <1>4, <1>5, IdleHeld DEF Finish
<1>6. ASSUME Retry(h, "selecting"), q.step # "revoking" PROVE HeldInv'
  <2> DEFINE p == [q EXCEPT !.step = "selecting", !.tries = @ + 1, !.selected = NoRow]
  <2>1. p.step = "selecting" /\ p.copy = q.copy /\ Set(h, p)
    BY <1>2, <1>6 DEF Request, Retry
  <2> HIDE DEF p
  <2>2. QED  BY <1>2, <1>4, <1>6, <2>1 DEF Held
<1>7. CASE UpsertSelect(h)
  <2> DEFINE p == [q EXCEPT !.step = "saving", !.selected = row[q.id]]
  <2>1. p.step = "saving" /\ p.copy = q.copy /\ Set(h, p) /\ q.step = "selecting"
    BY <1>2, <1>7 DEF Request, UpsertSelect, At
  <2> HIDE DEF p
  <2>2. QED  BY <1>2, <1>4, <2>1 DEF Held
<1>8. CASE UpsertSucceeds(h)
  <2>1. \/ AfterUpsert(h).step = "idle"
        \/ /\ AfterUpsert(h).step \in {"verifying", "answering"}
           /\ AfterUpsert(h).copy = q.copy
    BY <1>1, AfterUpsertIs DEF HeldInv
  <2>2. q.step = "saving" /\ Set(h, AfterUpsert(h))
    BY <1>8 DEF UpsertSucceeds, Savable, At
  <2>3. QED  BY <1>2, <1>4, <2>1, <2>2 DEF Held
<1>9. CASE UpsertBreaks(h)
  BY <1>5, <1>6, <1>9 DEF UpsertBreaks, At
<1>10. CASE DeleteBreaks(h)
  <2> DEFINE p == [q EXCEPT !.step = q.step, !.tries = @ + 1, !.selected = NoRow]
  <2>1. p.step = q.step /\ p.copy = q.copy /\ (Set(h, p) \/ Finish(h))
    BY <1>2, <1>10 DEF Request, DeleteBreaks, Retry
  <2> HIDE DEF p
  <2>2. Held(p, now)
    BY <1>2, <2>1 DEF Held
  <2>3. QED  BY <1>4, <1>5, <2>1, <2>2
<1>11. QED
  BY <1>5, <1>7, <1>8, <1>9, <1>10 DEF Store, UpsertConflicts, DeleteSucceeds

LEMMA RestHeld ==
  ASSUME HeldInv,
         \/ \E r \in Requests : Create(r)
         \/ CleanupPass \/ Tick \/ Restart \/ UNCHANGED vars
  PROVE  HeldInv'
<1>1. TypeInv /\ TypeInv' /\ now \in Nat /\ row \in [Requests -> Row] /\ cleanup \in Cleanup
  BY CreateTyped, CleanupTyped, TickTyped, RestartTyped DEF HeldInv, TypeInv, vars
<1>2. ASSUME NEW r \in Requests, Create(r) PROVE HeldInv'
  <2>1. PICK hours \in Lifetimes :
           row' = [row EXCEPT ![r] = [NoRow EXCEPT !.expires = now + hours]]
    BY <1>2 DEF Create
  <2>2. now + hours >= 1
    BY <1>1, TimesAssumption
  <2>3. row'[r].expires >= 1 /\ \A s \in Requests \ {r} : row'[s] = row[s]
    BY <1>1, <2>1, <2>2 DEF NoRow
  <2>4. UNCHANGED <<request, now, cleanup>>
    BY <1>2 DEF Create, EnvUnchanged
  <2>5. QED  BY <1>1, <2>3, <2>4 DEF HeldInv
<1>3. CASE CleanupPass
  <2>1. /\ UNCHANGED <<request, now>> /\ cleanup'.asOf \in {cleanup.asOf, now, 0}
        /\ \A r \in Requests : row'[r] \in {row[r], NoRow}
    BY <1>1, <1>3, CleanupSteps DEF CleanupUnchanged, CleanupRemoves
  <2>2. cleanup'.asOf <= now
    BY <1>1, <2>1 DEF HeldInv, Cleanup
  <2>3. QED  BY <1>1, <2>1, <2>2 DEF HeldInv
<1>4. CASE Tick
  <2>1. now' = now + 1 /\ UNCHANGED <<row, request, cleanup>>
    BY <1>4 DEF Tick
  <2>2. cleanup.asOf <= now' /\ \A h \in Handlers : Held(request[h], now')
    BY <1>1, <2>1 DEF HeldInv, Held, TypeInv, Locals, Request, Row, Cleanup
  <2>3. QED  BY <1>1, <2>1, <2>2 DEF HeldInv
<1>5. CASE Restart
  <2>1. UNCHANGED <<row, now>> /\ cleanup'.asOf = 0
    BY <1>5 DEF Restart, StoreUnchanged, Waiting
  <2>2. \A h \in Handlers : Held(request'[h], now)
    BY <1>5, IdleHeld DEF Restart
  <2>3. QED  BY <1>1, <2>1, <2>2 DEF HeldInv
<1>6. CASE UNCHANGED vars
  BY <1>1, <1>6 DEF vars, HeldInv
<1>7. QED  BY <1>2, <1>3, <1>4, <1>5, <1>6

LEMMA Holding == Spec => []HeldInv
<1>1. Init => HeldInv
  <2> SUFFICES ASSUME Init PROVE HeldInv
    OBVIOUS
  <2>1. cleanup.asOf <= now
    BY DEF Init, Waiting
  <2>2. QED  BY <2>1, InitTyped, IdleHeld DEF Init, HeldInv
<1>2. HeldInv /\ [Next]_vars => HeldInv'
  BY ReadHeld, PartnerHeld, StoreHeld, RestHeld DEF Next
<1>3. QED  BY <1>1, <1>2, PTL DEF Spec

\* A save leaves no request absent that was there.
LEMMA SavingKeeps ==
  ASSUME HeldInv, Saving, NEW r \in Requests, row[r] # NoRow
  PROVE  row'[r] # NoRow
<1>1. PICK h \in Handlers : Savable(h) /\ Write(h)
  BY DEF Saving
<1> DEFINE q == request[h]
           new == Saved(row[q.id], q.selected, q.copy)
<1>2. /\ q.id \in Requests /\ q.selected \in Row /\ q.copy \in Row
      /\ q.copy.expires >= 1 /\ row \in [Requests -> Row]
  <2>1. q.step = "saving"
    BY <1>1 DEF Savable, At
  <2>2. QED  BY <2>1, LocalsTyped DEF HeldInv, Held, TypeInv
<1>3. row[q.id] # NoRow => new.expires >= 1
  <2>1. Merge(row[q.id], q.selected, q.copy).expires \in {row[q.id].expires, q.copy.expires}
    BY DEF Merge, Column
  <2>2. QED  BY <1>2, <2>1 DEF Saved, HeldInv
<1>4. row' = [row EXCEPT ![q.id] = new]
  BY <1>1 DEF Write
<1> HIDE DEF new
<1>5. row'[r] = row[r] \/ (r = q.id /\ row'[r] = new)
  BY <1>2, <1>4
<1>6. QED  BY <1>3, <1>5 DEF NoRow

(* However operations overlap, a request whose expiration lies ahead is    *)
(* deleted by a revocation, or by a partner's request overtaken by an      *)
(* extension after it found the link expired                               *)
(* (InformationRequestController.cs:212-216), and by nothing else; neither *)
(* the cleanup nor a save of any copy takes it away (FEATURES.md:43).      *)
THEOREM DeletedWhenExpired == Spec => OnlyExpiredDeleted
<1> DEFINE Cause(r) ==
      \E h \in Handlers :
        /\ request[h].id = r
        /\ \/ At(h, "revoking")
           \/ At(h, "deleting") /\ request[h].copy.expires # row[r].expires
<1>1. ASSUME HeldInv, [Next]_vars, NEW r \in Requests, row[r].expires > now,
             row'[r] = NoRow
      PROVE  Cause(r)
  <2>1. /\ row \in [Requests -> Row] /\ row[r] \in Row /\ row[r].expires \in Nat
        /\ now \in Nat /\ TypeInv
    BY <1>1 DEF HeldInv, TypeInv, Row
  <2>2. row[r] # NoRow /\ row'[r] # row[r]
    BY <1>1, <2>1 DEF NoRow
  <2>3. CASE Quiet
    BY <2>2, <2>3 DEF Quiet
  <2>4. CASE \E s \in Requests : Create(s)
    <3>1. PICK s \in Requests, hours \in Lifetimes :
             row' = [row EXCEPT ![s] = [NoRow EXCEPT !.expires = now + hours]]
      BY <2>4 DEF Create
    <3>2. now + hours # 0
      BY <2>1, TimesAssumption
    <3>3. QED  BY <1>1, <2>1, <2>2, <3>1, <3>2 DEF NoRow
  <2>5. CASE Saving
    BY <1>1, <2>2, <2>5, SavingKeeps
  <2>6. CASE Deletion
    <3>1. PICK h \in Handlers : Deleting(h) /\ Deletes(h)
      BY <2>6 DEF Deletion
    <3>2. request[h].id = r
      BY <2>1, <2>2, <3>1 DEF Deletes
    <3>3. At(h, "deleting") => request[h].copy.expires <= now
      BY <1>1 DEF HeldInv, Held, At
    <3>4. At(h, "deleting") => request[h].copy.expires # row[r].expires
      BY <1>1, <2>1, <3>3
    <3>5. QED  BY <3>1, <3>2, <3>4 DEF Deleting
  <2>7. CASE CleanupRemoves
    <3>1. r \in ExpiredRows
      BY <2>2, <2>7 DEF CleanupRemoves
    <3>2. row[r].expires <= cleanup.asOf /\ cleanup.asOf <= now /\ cleanup.asOf \in Nat
      BY <1>1, <2>1, <3>1 DEF ExpiredRows, HeldInv, TypeInv, Cleanup
    <3>3. QED  BY <1>1, <2>1, <3>2
  <2>8. QED  BY <1>1, <2>1, <2>3, <2>4, <2>5, <2>6, <2>7, Effects
<1>2. HeldInv /\ [Next]_vars =>
        [\A r \in Requests :
          row[r].expires > now /\ row'[r] = NoRow
              => \E h \in Handlers :
                    /\ request[h].id = r
                    /\ \/ At(h, "revoking")
                       \/ /\ At(h, "deleting")
                          /\ request[h].copy.expires # row[r].expires]_vars
  BY <1>1
<1>3. QED  BY <1>2, Holding, PTL DEF Spec, OnlyExpiredDeleted

-----------------------------------------------------------------------------
(* Responses, when operations on one request do not overlap.               *)

\* A deletion removes one request, at the end of its time or by revocation.
LEMMA DeletionIs ==
  ASSUME SerialInv, NEW h \in Handlers, Deleting(h), Deletes(h)
  PROVE  /\ request[h].id \in Requests /\ request[h].id \in created
         /\ row' = [row EXCEPT ![request[h].id] = NoRow]
         /\ At(h, "revoking") \/ row[request[h].id].expires <= now
<1>1. request[h].step \in {"deleting", "revoking"} /\ request[h].step # "idle"
  BY DEF Deleting, At
<1>2. request[h].id \in Requests
  BY <1>1, LocalsTyped DEF SerialInv
<1>3. /\ request[h].id \in created
      /\ Fits(request[h], row[request[h].id], stored[request[h].id], now)
  BY <1>1 DEF SerialInv, CopiesInv
<1>4. QED  BY <1>1, <1>2, <1>3 DEF Fits, Deletes, At

\* A save replaces the row of one request by the copy.
LEMMA SavingIs ==
  ASSUME SerialInv, NEW h \in Handlers, Savable(h), Write(h)
  PROVE  LET q == request[h]
         IN  /\ q.id \in Requests /\ q.copy \in Row /\ row[q.id] \in Row
             /\ SaveFits(q, row[q.id], stored[q.id], now)
             /\ row' = [row EXCEPT ![q.id] = q.copy]
             /\ q.copy # NoRow
<1>1. request[h].step # "idle"
  BY DEF Savable, At
<1>2. QED  BY <1>1, Savings, LocalsTyped DEF SerialInv

(* When operations on one request do not overlap, a stored response gives  *)
(* way only to one never stored before                                     *)
(* (Views/InformationRequest/Submitted.cshtml:15).                         *)
THEOREM ResponsesKept == ASSUME ~Overlap PROVE Spec => ResponseKept
<1>1. ASSUME SerialInv, [Next]_vars, NEW r \in Requests,
             row[r].payload # NoPayload, row'[r] # NoRow
      PROVE  \/ row'[r].payload = row[r].payload
             \/ row'[r].payload \in Payloads \ stored[r]
  <2>1. row \in [Requests -> Row]
    BY <1>1 DEF SerialInv, TypeInv
  <2>2. CASE Quiet
    BY <2>2 DEF Quiet
  <2>3. CASE \E s \in Requests : Create(s)
    <3>1. PICK s \in Requests : Create(s)
      BY <2>3
    <3>2. s \notin created /\ row[s] = NoRow
      BY <1>1, <3>1 DEF Create, SerialInv, RowsInv
    <3>3. s # r
      BY <1>1, <3>2 DEF NoRow
    <3>4. QED  BY <2>1, <3>1, <3>3 DEF Create
  <2>4. CASE Saving
    <3>1. PICK h \in Handlers : Savable(h) /\ Write(h)
      BY <2>4 DEF Saving
    <3>2. /\ row' = [row EXCEPT ![request[h].id] = request[h].copy]
          /\ SaveFits(request[h], row[request[h].id], stored[request[h].id], now)
      BY <1>1, <3>1, SavingIs
    <3>3. QED  BY <2>1, <3>2 DEF SaveFits
  <2>5. CASE Deletion
    <3>1. PICK h \in Handlers : row' = [row EXCEPT ![request[h].id] = NoRow]
      BY <2>5 DEF Deletion, Deletes
    <3>2. QED  BY <1>1, <2>1, <3>1
  <2>6. CASE CleanupRemoves
    BY <1>1, <2>6 DEF CleanupRemoves
  <2>7. QED  BY <1>1, <2>2, <2>3, <2>4, <2>5, <2>6, Effects DEF SerialInv
<1>2. SerialInv /\ [Next]_vars =>
        [\A r \in Requests :
           row[r].payload # NoPayload /\ row'[r] # NoRow
              => \/ row'[r].payload = row[r].payload
                 \/ row'[r].payload \in Payloads \ stored[r]]_vars
  BY <1>1
<1>3. QED  BY <1>2, Serial, PTL DEF Spec, ResponseKept

-----------------------------------------------------------------------------
(* The refinement: what the table is to requester and partner.             *)

Item(r) == [phase |-> Phase(r), expires |-> row[r].expires,
            payload |-> row[r].payload, mode |-> row[r].mode]

Items == [r \in Requests |-> Item(r)]

\* One request changes and the others do not.
LEMMA ItemChange ==
  ASSUME NEW r \in Requests, NEW new, Item(r)' = new,
         \A s \in Requests \ {r} : row'[s] = row[s] /\ (s \in created' <=> s \in created)
  PROVE  Items' = [Items EXCEPT ![r] = new]
<1>1. \A s \in Requests \ {r} : Item(s)' = Item(s)
  BY DEF Item, Phase
<1>2. QED  BY <1>1 DEF Items

\* Creating a request publishes it.
LEMMA CreatePublishes ==
  ASSUME SerialInv, NEW r \in Requests, Create(r)
  PROVE  Atomic!Publish(r)
<1>1. PICK hours \in Lifetimes :
         row' = [row EXCEPT ![r] = [NoRow EXCEPT !.expires = now + hours]]
  BY DEF Create
<1>2. now \in Nat /\ row \in [Requests -> Row] /\ now + hours # 0
  BY TimesAssumption DEF SerialInv, TypeInv
<1>3. row[r] = NoRow /\ Phase(r) = "new"
  BY DEF SerialInv, RowsInv, Create, Phase
<1>4. Item(r) = Atomic!Blank
  BY <1>3 DEF Item, Atomic!Blank, NoRow
<1>5. row'[r] # NoRow /\ row'[r] = [NoRow EXCEPT !.expires = now + hours]
  BY <1>1, <1>2 DEF NoRow
<1>6. Phase(r)' = "live"
  BY <1>5 DEF Phase
<1>7. Item(r)' = [Atomic!Blank EXCEPT !.phase = "live", !.expires = now + hours]
  <2>1. Item(r)' = [phase |-> Phase(r)', expires |-> row'[r].expires,
                    payload |-> row'[r].payload, mode |-> row'[r].mode]
    BY DEF Item
  <2>2. /\ row'[r].expires = now + hours
        /\ row'[r].payload = NoPayload /\ row'[r].mode = "server"
    BY <1>5 DEF NoRow
  <2>3. [Atomic!Blank EXCEPT !.phase = "live", !.expires = now + hours] =
           [phase |-> "live", expires |-> now + hours, payload |-> NoPayload,
            mode |-> "server"]
    <3> DEFINE live == [Atomic!Blank EXCEPT !.phase = "live"]
    <3>1. live = [phase |-> "live", expires |-> 0, payload |-> NoPayload,
                  mode |-> "server"]
      BY DEF Atomic!Blank
    <3>2. [Atomic!Blank EXCEPT !.phase = "live", !.expires = now + hours] =
             [live EXCEPT !.expires = now + hours]
      OBVIOUS
    <3> HIDE DEF live
    <3>3. QED  BY <3>1, <3>2
  <2>4. QED  BY <1>6, <2>1, <2>2, <2>3
<1>8. \A s \in Requests \ {r} : row'[s] = row[s] /\ (s \in created' <=> s \in created)
  BY <1>1, <1>2 DEF Create
<1>9. Items' = [Items EXCEPT ![r] =
                   [Atomic!Blank EXCEPT !.phase = "live", !.expires = now + hours]]
  BY <1>7, <1>8, ItemChange
<1>10. now' = now
  BY DEF Create, EnvUnchanged
<1>11. QED
  BY <1>4, <1>9, <1>10 DEF Atomic!Publish, Atomic!Becomes, Items, Item

\* A save submits, extends, or shows nothing new.
LEMMA SavingMaps ==
  ASSUME SerialInv, Saving, UNCHANGED <<created, now>>
  PROVE  (\E r \in Requests : Atomic!Submit(r) \/ Atomic!Extend(r)) \/ Items' = Items
<1>1. PICK h \in Handlers : Savable(h) /\ Write(h)
  BY DEF Saving
<1>0. request[h] \in Request
  <2>1. request[h].step # "idle"
    BY <1>1 DEF Savable, At
  <2>2. QED  BY <2>1, LocalsTyped DEF SerialInv
<1>2. PICK q \in Request, r \in Requests, rw \in Row :
         /\ rw = row[r] /\ q.copy \in Row
         /\ SaveFits(q, rw, stored[r], now)
         /\ row' = [row EXCEPT ![r] = q.copy] /\ q.copy # NoRow
  BY <1>0, <1>1, SavingIs
<1>3. rw # NoRow /\ row'[r] = q.copy
  BY <1>2 DEF SaveFits, SerialInv, TypeInv
<1>4. /\ Item(r) = [phase |-> "live", expires |-> rw.expires,
                    payload |-> rw.payload, mode |-> rw.mode]
      /\ Item(r)' = [phase |-> "live", expires |-> q.copy.expires,
                     payload |-> q.copy.payload, mode |-> q.copy.mode]
  <2>1. Item(r)' = [phase |-> Phase(r)', expires |-> row'[r].expires,
                    payload |-> row'[r].payload, mode |-> row'[r].mode]
    BY DEF Item
  <2>2. Phase(r) = "live" /\ Phase(r)' = "live"
    BY <1>2, <1>3 DEF Phase
  <2>3. QED  BY <1>2, <1>3, <2>1, <2>2 DEF Item
<1>5. \A s \in Requests \ {r} : row'[s] = row[s] /\ (s \in created' <=> s \in created)
  BY <1>2 DEF SerialInv, TypeInv
<1>6. ASSUME NEW new, Item(r)' = new PROVE Items' = [Items EXCEPT ![r] = new]
  BY <1>2, <1>5, <1>6, ItemChange
<1>7. Items[r] = Item(r)
  BY <1>2 DEF Items
<1>8. CASE q.copy.payload = rw.payload /\ q.copy.mode = rw.mode
           /\ q.copy.expires = rw.expires
  <2>1. Items' = [Items EXCEPT ![r] = Items[r]]
    BY <1>4, <1>6, <1>7, <1>8
  <2>2. QED  BY <1>2, <2>1 DEF Items
<1>9. CASE /\ q.copy.payload \in Payloads \ stored[r]
           /\ q.copy.mode = ModeOf(q.copy.payload) /\ q.copy.expires = rw.expires
  <2>1. q.copy.payload # rw.payload
    BY <1>2, <1>9, PayloadsAssumption DEF SerialInv, RowsInv
  <2>2. Item(r)' = [Item(r) EXCEPT !.payload = q.copy.payload,
                                   !.mode = Atomic!ModeOf(q.copy.payload)]
    <3>1. ModeOf(q.copy.payload) = Atomic!ModeOf(q.copy.payload)
      BY DEF ModeOf, Atomic!ModeOf
    <3>2. \A p, m : [Item(r) EXCEPT !.payload = p, !.mode = m] =
             [phase |-> "live", expires |-> rw.expires, payload |-> p, mode |-> m]
      <4> TAKE p, m
      <4> DEFINE it == [Item(r) EXCEPT !.payload = p]
      <4>1. it = [phase |-> "live", expires |-> rw.expires, payload |-> p,
                  mode |-> rw.mode]
        BY <1>4
      <4>2. [Item(r) EXCEPT !.payload = p, !.mode = m] = [it EXCEPT !.mode = m]
        OBVIOUS
      <4> HIDE DEF it
      <4>3. QED  BY <4>1, <4>2
    <3>3. Item(r)' = [phase |-> "live", expires |-> rw.expires,
                      payload |-> q.copy.payload, mode |-> Atomic!ModeOf(q.copy.payload)]
      BY <1>4, <1>9, <3>1
    <3>4. QED  BY <3>2, <3>3
  <2>3. Items' = [Items EXCEPT ![r] = [Items[r] EXCEPT
                    !.payload = q.copy.payload, !.mode = Atomic!ModeOf(q.copy.payload)]]
    BY <1>6, <1>7, <2>2
  <2>4. Items[r].phase = "live" /\ Items[r].payload = rw.payload
    BY <1>4, <1>7
  <2>5. Atomic!Submit(r)
    BY <1>9, <2>1, <2>3, <2>4
       DEF Atomic!Submit, Atomic!Live, Atomic!Becomes, Items, Item
  <2>6. QED  BY <1>2, <2>5
<1>10. CASE /\ Extended(q.copy.expires, rw.expires, now)
            /\ q.copy.payload = rw.payload /\ q.copy.mode = rw.mode
  <2>1. PICK hours \in Extensions, t \in 1..now :
           q.copy.expires = Later(rw.expires, t) + hours
    BY <1>10 DEF Extended
  <2>2. Items[r].phase = "live" /\ Items[r].expires = rw.expires
    BY <1>4, <1>7
  <2>3. Item(r)' = [Item(r) EXCEPT !.expires = Later(rw.expires, t) + hours]
    BY <1>4, <1>10, <2>1
  <2>4. Items' = [Items EXCEPT ![r] = [Items[r] EXCEPT
                    !.expires = (IF rw.expires > t THEN rw.expires ELSE t) + hours]]
    BY <1>6, <1>7, <2>3 DEF Later
  <2>5. Atomic!Extend(r)
    BY <2>2, <2>4 DEF Atomic!Extend, Atomic!Live, Atomic!Becomes, Items, Item
  <2>6. QED  BY <1>2, <2>5
<1>11. QED  BY <1>2, <1>8, <1>9, <1>10 DEF SaveFits

\* Where rows go, the requests are removed.
LEMMA RemovalMaps ==
  ASSUME SerialInv, UNCHANGED <<created, now>>, NEW S \in SUBSET Requests,
         \A r \in S : row[r] # NoRow,
         \A r \in Requests : row'[r] = IF r \in S THEN NoRow ELSE row[r]
  PROVE  Atomic!Remove(S)
<1>1. ASSUME NEW r \in S PROVE Phase(r) = "live" /\ r \in created
  BY <1>1 DEF Phase, SerialInv, RowsInv
<1>2. ASSUME NEW r \in S PROVE Item(r)' = [Atomic!Blank EXCEPT !.phase = "gone"]
  <2>1. row'[r] = NoRow /\ r \in created'
    BY <1>1, <1>2
  <2>2. QED  BY <2>1 DEF Item, Phase, NoRow, Atomic!Blank
<1>3. ASSUME NEW r \in Requests \ S PROVE Item(r)' = Item(r)
  BY <1>3 DEF Item, Phase
<1>4. Items' = [r \in Requests |-> IF r \in S THEN [Atomic!Blank EXCEPT !.phase = "gone"]
                                   ELSE Items[r]]
  BY <1>2, <1>3 DEF Items
<1>5. QED  BY <1>1, <1>4 DEF Atomic!Remove, Atomic!Live, Items, Item

LEMMA DeletionMaps ==
  ASSUME SerialInv, Deletion, UNCHANGED <<created, now>>
  PROVE  (\E S \in SUBSET Requests : Atomic!Remove(S)) \/ Items' = Items
<1>1. PICK h \in Handlers : Deleting(h) /\ Deletes(h)
  BY DEF Deletion
<1>2. PICK r \in Requests : row' = [row EXCEPT ![r] = NoRow]
  BY <1>1, DeletionIs
<1>0. row \in [Requests -> Row]
  BY DEF SerialInv, TypeInv
<1>3. CASE row[r] = NoRow
  <2>1. row' = row
    BY <1>0, <1>2, <1>3
  <2>2. QED  BY <2>1 DEF Items, Item, Phase
<1>4. CASE row[r] # NoRow
  <2>1. \A s \in Requests : row'[s] = IF s \in {r} THEN NoRow ELSE row[s]
    BY <1>0, <1>2
  <2>2. {r} \in SUBSET Requests /\ \A s \in {r} : row[s] # NoRow
    BY <1>2, <1>4
  <2>3. Atomic!Remove({r})
    BY <2>1, <2>2, RemovalMaps
  <2>4. QED  BY <2>2, <2>3
<1>5. QED  BY <1>3, <1>4

LEMMA StepMaps ==
  ASSUME SerialInv, [Next]_vars
  PROVE  Atomic!Next \/ (Items' = Items /\ now' = now)
<1>1. CASE Quiet
  <2>1. Items' = Items
    BY <1>1 DEF Quiet, Items, Item, Phase
  <2>2. now' = now + 1 => Atomic!Advance
    BY <2>1 DEF Atomic!Advance, Items, Item
  <2>3. QED  BY <1>1, <2>1, <2>2 DEF Quiet, Atomic!Next
<1>2. CASE \E r \in Requests : Create(r)
  BY <1>2, CreatePublishes DEF Atomic!Next
<1>3. CASE UNCHANGED <<created, now>> /\ Saving
  BY <1>3, SavingMaps DEF Atomic!Next
<1>4. CASE UNCHANGED <<created, now>> /\ Deletion
  BY <1>4, DeletionMaps DEF Atomic!Next
<1>5. CASE UNCHANGED <<created, now>> /\ CleanupRemoves
  <2>0. PICK S \in SUBSET Requests : S = ExpiredRows
    BY DEF ExpiredRows
  <2>1. \A r \in S : row[r] # NoRow
    BY <2>0 DEF ExpiredRows
  <2>2. \A r \in Requests : row'[r] = IF r \in S THEN NoRow ELSE row[r]
    BY <1>5, <2>0 DEF CleanupRemoves
  <2>3. Atomic!Remove(S)
    BY <1>5, <2>1, <2>2, RemovalMaps
  <2>4. QED  BY <2>3 DEF Atomic!Next
<1>6. QED  BY <1>1, <1>2, <1>3, <1>4, <1>5, Effects DEF SerialInv

LEMMA InitMaps == Init => Atomic!Init
<1> SUFFICES ASSUME Init PROVE Atomic!Init
  OBVIOUS
<1>1. ASSUME NEW r \in Requests PROVE Item(r) = Atomic!Blank
  BY <1>1 DEF Init, Item, Phase, NoRow, Atomic!Blank
<1>2. Items = [r \in Requests |-> Atomic!Blank] /\ now = 1
  BY <1>1 DEF Items, Init
<1>3. QED  BY <1>2 DEF Atomic!Init, Items, Item

(* When operations on one request do not overlap, the handlers, the        *)
(* cleanup, failures, retries and restarts together do what                *)
(* RequestLifecycle does in atomic steps                                   *)
(* (InformationRequestController.cs:118-174,                               *)
(* InformationRequestsController.cs:238-313).                              *)
THEOREM ImplementsLifecycle == ASSUME ~Overlap PROVE Spec => Lifecycle
<1>1. SerialInv /\ [Next]_vars => [Atomic!Next]_(Atomic!vars)
  BY StepMaps DEF Atomic!vars, Items, Item
<1>2. QED  BY <1>1, InitMaps, Serial, PTL DEF Spec, Lifecycle, Atomic!Spec
=============================================================================

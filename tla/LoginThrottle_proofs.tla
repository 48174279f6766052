----------------------- MODULE LoginThrottle_proofs -----------------------
(***************************************************************************)
(* Theorems about LoginThrottle, for any number of accounts, objects and   *)
(* concurrent requests and any limit, pause, window and cap.               *)
(***************************************************************************)
EXTENDS LoginThrottle, TLAPS

-----------------------------------------------------------------------------
(* What the pause of an entry depends on.                                  *)

(* A failure keeps an entry well-typed, pauses it when it reaches the      *)
(* limit, and never beyond PauseMinutes from the time it was taken at.     *)
LEMMA FailedEntry ==
  ASSUME NEW e \in Entry, NEW at \in Nat, NEW t \in Nat, at <= t,
         e.paused <= t + PauseMinutes
  PROVE  /\ Failed(e, at) \in Entry
         /\ Failed(e, at).failed <= e.failed + 1
         /\ Failed(e, at).paused <= t + PauseMinutes
         /\ Failed(e, at).failed >= FailedAttemptLimit
                => Failed(e, at).paused # 0
<1> DEFINE lapsed == e.paused # 0 /\ e.paused <= at
           forgotten == e.last # 0 /\ e.last + FailureWindowMinutes <= at
           failed == (IF lapsed \/ forgotten THEN 0 ELSE e.failed) + 1
           paused == IF lapsed THEN 0 ELSE e.paused
           pause == IF paused = 0 /\ failed >= FailedAttemptLimit
                    THEN at + PauseMinutes ELSE paused
<1>1. /\ FailedAttemptLimit \in Nat \ {0} /\ PauseMinutes \in Nat \ {0}
      /\ FailureWindowMinutes \in Nat \ {0}
  BY OptionsAssumption
<1>2. e.failed \in Nat /\ e.last \in Nat /\ e.paused \in Nat
  BY DEF Entry
<1>3. failed \in Nat /\ failed <= e.failed + 1
  BY <1>2
<1>4. paused \in Nat /\ paused <= t + PauseMinutes
  BY <1>1, <1>2
<1>5. pause \in Nat /\ pause <= t + PauseMinutes
  BY <1>1, <1>4
<1>6. failed >= FailedAttemptLimit => pause # 0
  BY <1>1, <1>4
<1>7. Failed(e, at) = [failed |-> failed, last |-> at, paused |-> pause]
  BY DEF Failed
<1> HIDE DEF failed, pause
<1>8. QED  BY <1>3, <1>5, <1>6, <1>7 DEF Entry

LEMMA NewEntryType ==
  /\ NewEntry \in Entry /\ NewEntry.failed = 0 /\ NewEntry.paused = 0
  /\ NewEntry.failed < FailedAttemptLimit
BY OptionsAssumption DEF NewEntry, Entry

-----------------------------------------------------------------------------
(* Type correctness.  The times requests took are in the past.             *)

InTime == \A h \in Handlers : request[h].at <= now

(* What a request may hold between its steps.                              *)
Busy == {r \in Request :
           /\ r.step = "idle" \/ r.account \in Accounts
           /\ r.step \in {"checking", "inspecting", "failing"}
                 => r.entry \in Entries
           /\ r.step = "inspecting" => r.pruned \in Accounts
           /\ r.at <= now}

RequestsOK == request \in [Handlers -> Busy]

LEMMA BusyRequests == TypeOK /\ InTime => RequestsOK
BY DEF TypeOK, InTime, RequestsOK, Busy, At

LEMMA IdleType == ASSUME now \in Nat PROVE Idle \in Busy
BY DEF Idle, Request, Steps, Busy

LEMMA SetType ==
  ASSUME RequestsOK, NEW h \in Handlers, NEW r \in Busy, Set(h, r), now' = now
  PROVE  RequestsOK'
BY DEF RequestsOK, Set, Busy

(* A request moves on to another well-typed state.                         *)
LEMMA StepType ==
  ASSUME TypeOK, InTime, NEW h \in Handlers,
         Check(h) \/ Prune(h) \/ Record(h)
  PROVE  RequestsOK'
<1>0. /\ RequestsOK /\ request[h] \in Busy /\ request[h] \in Request
      /\ now \in Nat /\ Idle \in Busy
      /\ table \in [Accounts -> Entries \cup {NoEntry}]
      /\ NoEntry \notin Entries
  BY BusyRequests, IdleType, AccountsAssumption DEF TypeOK, RequestsOK, Busy
<1>1. ASSUME NEW k \in Accounts, SignIn(h, k)  PROVE RequestsOK'
  <2>1. \A step \in {"verifying", "checking"} :
          (step = "checking" => table[k] \in Entries)
              => [Idle EXCEPT !.step = step, !.account = k, !.entry = table[k]]
                     \in Busy
    BY <1>0, <1>1 DEF Idle, Busy, Request, Steps
  <2>2. CASE table[k] = NoEntry
    <3>1. Set(h, [Idle EXCEPT !.step = "verifying", !.account = k,
                              !.entry = table[k]])
      BY <1>1, <2>2 DEF SignIn
    <3>2. [Idle EXCEPT !.step = "verifying", !.account = k, !.entry = table[k]]
              \in Busy
      BY <2>1
    <3>3. QED  BY <1>0, <1>1, <3>1, <3>2, SetType DEF SignIn, TableUnchanged
  <2>3. CASE table[k] # NoEntry
    <3>1. Set(h, [Idle EXCEPT !.step = "checking", !.account = k,
                              !.entry = table[k]])
      BY <1>1, <2>3 DEF SignIn
    <3>2. [Idle EXCEPT !.step = "checking", !.account = k, !.entry = table[k]]
              \in Busy
      BY <1>0, <1>1, <2>1, <2>3
    <3>3. QED  BY <1>0, <1>1, <3>1, <3>2, SetType DEF SignIn, TableUnchanged
  <2>4. QED  BY <2>2, <2>3
<1>2. CASE Paused(h) \/ Abandon(h) \/ RecordFailure(h) \/ RecordSuccess(h)
  <2>1. Set(h, Idle) /\ now' = now
    BY <1>2 DEF Paused, Abandon, RecordFailure, RecordSuccess, TableUnchanged
  <2>2. QED  BY <1>0, <2>1, SetType
<1>3. CASE Proceed(h)
  <2> DEFINE r == [request[h] EXCEPT !.step = "verifying", !.entry = NoEntry]
  <2>1. r \in Busy
    BY <1>0, <1>3 DEF Proceed, At, Busy, Request, Steps
  <2>2. QED  BY <1>0, <1>3, <2>1, SetType DEF Proceed, TableUnchanged
<1>4. CASE WrongCredentials(h)
  <2> DEFINE r == [request[h] EXCEPT !.step = "counting", !.at = now]
  <2>0. now <= now /\ request[h].account \in Accounts
    BY <1>0, <1>4 DEF WrongCredentials, At, Busy
  <2>1. r \in Request /\ r.step = "counting" /\ r.at = now
        /\ r.account = request[h].account
    BY <1>0 DEF Request, Steps
  <2>2. r \in Busy
    BY <2>0, <2>1 DEF Busy
  <2>3. QED  BY <1>0, <1>4, <2>2, SetType DEF WrongCredentials, TableUnchanged
<1>5. CASE PruneIfNeeded(h)
  <2>1. [request[h] EXCEPT !.step = "adding"] \in Busy
    BY <1>0, <1>5 DEF PruneIfNeeded, At, Busy, Request, Steps
  <2>2. [request[h] EXCEPT !.step = "pruning", !.todo = Tracked] \in Busy
    BY <1>0, <1>5 DEF PruneIfNeeded, At, Busy, Request, Steps, Tracked
  <2>3. QED  BY <1>0, <1>5, <2>1, <2>2, SetType DEF PruneIfNeeded, TableUnchanged
<1>6. CASE PruneNext(h)
  <2>1. PICK k \in request[h].todo \cap Tracked :
          Set(h, [request[h] EXCEPT !.step = "inspecting", !.entry = table[k],
                                    !.pruned = k, !.todo = @ \ {k}])
    BY <1>6 DEF PruneNext
  <2>2. k \in Accounts /\ table[k] \in Entries
    BY <1>0 DEF Tracked
  <2>3. [request[h] EXCEPT !.step = "inspecting", !.entry = table[k],
                           !.pruned = k, !.todo = @ \ {k}] \in Busy
    BY <1>0, <1>6, <2>2 DEF PruneNext, At, Busy, Request, Steps
  <2>4. QED  BY <1>0, <1>6, <2>1, <2>3, SetType DEF PruneNext, TableUnchanged
<1>7. CASE PruneEntry(h)
  <2>1. [request[h] EXCEPT !.step = "pruning", !.entry = NoEntry,
                           !.pruned = NoAccount] \in Busy
    BY <1>0, <1>7 DEF PruneEntry, At, Busy, Request, Steps
  <2>2. QED  BY <1>0, <1>7, <2>1, SetType DEF PruneEntry
<1>8. CASE PruneEnd(h)
  <2>1. [request[h] EXCEPT !.step = "adding", !.todo = {}] \in Busy
    BY <1>0, <1>8 DEF PruneEnd, At, Busy, Request, Steps
  <2>2. QED  BY <1>0, <1>8, <2>1, SetType DEF PruneEnd, TableUnchanged
<1>9. CASE Get(h)
  <2>1. request[h].account \in Accounts
    BY <1>0, <1>9 DEF Get, At, Busy
  <2>2. [request[h] EXCEPT !.step = "failing",
                           !.entry = table[request[h].account]] \in Busy
    BY <1>0, <1>9, <2>1 DEF Get, At, Busy, Request, Steps
  <2>3. QED  BY <1>0, <1>9, <2>2, SetType DEF Get, TableUnchanged
<1>10. CASE Add(h)
  <2>1. PICK e \in Entries \ Referenced :
          Set(h, [request[h] EXCEPT !.step = "failing", !.entry = e])
    BY <1>10 DEF Add
  <2>2. [request[h] EXCEPT !.step = "failing", !.entry = e] \in Busy
    BY <1>0, <1>10, <2>1 DEF Add, At, Busy, Request, Steps
  <2>3. QED  BY <1>0, <1>10, <2>1, <2>2, SetType DEF Add
<1>11. QED
  BY <1>1, <1>2, <1>3, <1>4, <1>5, <1>6, <1>7, <1>8, <1>9, <1>10
  DEF Check, Prune, Record

-----------------------------------------------------------------------------
(* The entries.  An entry is written when it is added and by failures.     *)

EntriesOK ==
  \A e \in Entries :
      /\ entry[e] \in Entry
      /\ entry[e].paused <= now + PauseMinutes
      /\ entry[e].failed >= FailedAttemptLimit => entry[e].paused # 0

PauseInv == TypeOK /\ InTime /\ PauseHorizon /\ LimitPauses

LEMMA PauseInvInit == Init => PauseInv
<1>1. SUFFICES ASSUME Init PROVE PauseInv
  OBVIOUS
<1>2. 1 \in Nat /\ Idle \in Request /\ Idle.step = "idle" /\ Idle.at = 0
  BY DEF Idle, Request, Steps
<1>3. PauseMinutes \in Nat /\ FailedAttemptLimit \in Nat \ {0}
  BY OptionsAssumption
<1>4. TypeOK
  BY <1>1, <1>2, NewEntryType DEF Init, TypeOK, At
<1>5. InTime
  BY <1>1, <1>2 DEF Init, InTime
<1>6. PauseHorizon /\ LimitPauses
  BY <1>1, <1>3, NewEntryType DEF Init, PauseHorizon, LimitPauses
<1>7. QED  BY <1>4, <1>5, <1>6 DEF PauseInv

(* The table, the entries and the counts stay well-typed.                  *)
LEMMA RestType ==
  ASSUME PauseInv, NEW h \in Handlers, Check(h) \/ Prune(h) \/ Record(h)
  PROVE  /\ table' \in [Accounts -> Entries \cup {NoEntry}]
         /\ entry' \in [Entries -> Entry]
         /\ streak' \in [Accounts -> Nat]
         /\ now' = now
         /\ PauseHorizon' /\ LimitPauses'
<1>0. /\ request[h] \in Busy /\ request[h] \in Request
      /\ table \in [Accounts -> Entries \cup {NoEntry}]
      /\ entry \in [Entries -> Entry] /\ streak \in [Accounts -> Nat]
      /\ now \in Nat /\ PauseMinutes \in Nat /\ FailedAttemptLimit \in Nat \ {0}
      /\ PauseHorizon /\ LimitPauses
  BY BusyRequests, OptionsAssumption DEF PauseInv, TypeOK, RequestsOK, Busy
<1>1. CASE TableUnchanged
  BY <1>0, <1>1 DEF TableUnchanged, PauseHorizon, LimitPauses
<1>2. CASE PruneEntry(h) \/ RecordSuccess(h)
  <2>1. UNCHANGED <<entry, now>>
    BY <1>2 DEF PruneEntry, RecordSuccess
  <2>2. table' \in [Accounts -> Entries \cup {NoEntry}]
    BY <1>0, <1>2 DEF PruneEntry, RecordSuccess
  <2>3. streak' \in [Accounts -> Nat]
    BY <1>0, <1>2 DEF PruneEntry, RecordSuccess
  <2>4. QED  BY <1>0, <2>1, <2>2, <2>3 DEF PauseHorizon, LimitPauses
<1>3. CASE Add(h)
  <2>1. PICK e \in Entries \ Referenced :
          /\ table' = [table EXCEPT ![request[h].account] = e]
          /\ entry' = [entry EXCEPT ![e] = NewEntry]
    BY <1>3 DEF Add
  <2>2. UNCHANGED <<now, streak>>
    BY <1>3 DEF Add
  <2>3. entry' \in [Entries -> Entry]
    BY <1>0, <2>1, NewEntryType
  <2>4. PauseHorizon' /\ LimitPauses'
    BY <1>0, <2>1, <2>2, NewEntryType DEF PauseHorizon, LimitPauses
  <2>5. QED  BY <1>0, <2>1, <2>2, <2>3, <2>4
<1>4. CASE RecordFailure(h)
  <2> DEFINE e == request[h].entry
             new == Failed(entry[e], request[h].at)
  <2>1. e \in Entries /\ request[h].at \in Nat /\ request[h].at <= now
    BY <1>0, <1>4 DEF RecordFailure, At, Busy, Request
  <2>2. entry[e] \in Entry /\ entry[e].paused <= now + PauseMinutes
    BY <1>0, <2>1 DEF PauseHorizon
  <2>3. /\ new \in Entry /\ new.paused <= now + PauseMinutes
        /\ new.failed >= FailedAttemptLimit => new.paused # 0
    BY <1>0, <2>1, <2>2, FailedEntry
  <2>4. entry' = [entry EXCEPT ![e] = new] /\ UNCHANGED <<table, now>>
    BY <1>4 DEF RecordFailure
  <2>5. streak' \in [Accounts -> Nat]
    <3> DEFINE a == request[h].account
    <3>1. a \in Accounts /\ streak[a] \in Nat /\ streak[a] + 1 \in Nat
      BY <1>0, <1>4 DEF RecordFailure, At, Busy
    <3>2. \E n \in Nat : streak' = [streak EXCEPT ![a] = n]
      BY <3>1, <1>4 DEF RecordFailure
    <3>3. QED  BY <1>0, <3>2
  <2> HIDE DEF new, e
  <2>6. entry' \in [Entries -> Entry]
    BY <1>0, <2>1, <2>3, <2>4
  <2>7. PauseHorizon' /\ LimitPauses'
    BY <1>0, <2>1, <2>3, <2>4 DEF PauseHorizon, LimitPauses
  <2>8. QED  BY <1>0, <2>4, <2>5, <2>6, <2>7
<1>5. QED
  BY <1>1, <1>2, <1>3, <1>4
  DEF Check, Prune, Record, SignIn, Paused, Proceed, Abandon, PruneIfNeeded,
      PruneNext, PruneEnd, WrongCredentials, Get

LEMMA PauseInvNext == PauseInv /\ [Next]_vars => PauseInv'
<1>1. SUFFICES ASSUME PauseInv, [Next]_vars PROVE PauseInv'
  OBVIOUS
<1>2. ASSUME NEW h \in Handlers, Check(h) \/ Prune(h) \/ Record(h)
      PROVE  PauseInv'
  <2>1. RequestsOK'
    BY <1>1, <1>2, StepType DEF PauseInv
  <2>2. TypeOK' /\ InTime'
    BY <1>1, <1>2, <2>1, RestType DEF RequestsOK, Busy, TypeOK, InTime, At, PauseInv
  <2>3. QED  BY <1>1, <1>2, <2>2, RestType DEF PauseInv
<1>3. CASE Tick
  <2>1. /\ now' = now + 1 /\ now \in Nat /\ PauseMinutes \in Nat
        /\ UNCHANGED <<table, entry, request, streak>>
    BY <1>1, <1>3, OptionsAssumption DEF Tick, PauseInv, TypeOK
  <2>2. TypeOK'
    BY <1>1, <2>1 DEF PauseInv, TypeOK, At
  <2>3. \A h \in Handlers : request[h].at \in Nat /\ request[h].at <= now
    BY <1>1 DEF PauseInv, TypeOK, InTime, Request
  <2>4. \A e \in Entries : entry[e].paused \in Nat
    BY <1>1 DEF PauseInv, TypeOK, Entry
  <2>5. InTime' /\ PauseHorizon' /\ LimitPauses'
    BY <1>1, <2>1, <2>3, <2>4 DEF PauseInv, InTime, PauseHorizon, LimitPauses
  <2>6. QED  BY <2>2, <2>5 DEF PauseInv
<1>4. CASE Restart
  <2>1. /\ Idle \in Request /\ Idle.step = "idle" /\ Idle.at = 0
        /\ now \in Nat /\ PauseMinutes \in Nat /\ FailedAttemptLimit \in Nat \ {0}
    BY <1>1, OptionsAssumption DEF Idle, Request, Steps, PauseInv, TypeOK
  <2>2. TypeOK' /\ InTime'
    BY <1>1, <1>4, <2>1, NewEntryType
    DEF Restart, PauseInv, TypeOK, InTime, At
  <2>3. PauseHorizon' /\ LimitPauses'
    BY <1>4, <2>1, NewEntryType DEF Restart, PauseHorizon, LimitPauses
  <2>4. QED  BY <2>2, <2>3 DEF PauseInv
<1>5. CASE UNCHANGED vars
  BY <1>1, <1>5 DEF vars, PauseInv, TypeOK, InTime, PauseHorizon, LimitPauses, At
<1>6. QED  BY <1>1, <1>2, <1>3, <1>4, <1>5 DEF Next

(* Types: the table and the locals of every request stay well-typed.       *)
THEOREM TypeCorrect == Spec => []TypeOK
<1>1. PauseInv => TypeOK
  BY DEF PauseInv
<1>2. QED  BY <1>1, PauseInvInit, PauseInvNext, PTL DEF Spec

(* However many failures race for an entry, with times taken before they   *)
(* waited for its lock, no pause ends later than PauseMinutes from now     *)
(* (RecordFailure, LoginThrottleService.cs:47-80).                         *)
THEOREM PausesEnd == Spec => []PauseHorizon
<1>1. PauseInv => PauseHorizon
  BY DEF PauseInv
<1>2. QED  BY <1>1, PauseInvInit, PauseInvNext, PTL DEF Spec

(* An entry that has reached the limit is paused, or was until the pause   *)
(* lapsed (RecordFailure, LoginThrottleService.cs:47-80).                  *)
THEOREM LimitReached == Spec => []LimitPauses
<1>1. PauseInv => LimitPauses
  BY DEF PauseInv
<1>2. QED  BY <1>1, PauseInvInit, PauseInvNext, PTL DEF Spec

-----------------------------------------------------------------------------
(* Consecutive failures.  A count belongs to the account whose entry it is *)
(* in: no two accounts share an entry, and a request that is about to      *)
(* count holds an entry of its own account, or one no longer in the table. *)

Owned ==
  /\ \A k, m \in Accounts : table[k] = table[m] /\ table[k] # NoEntry => k = m
  /\ \A h \in Handlers, k \in Accounts :
        At(h, "failing") /\ request[h].entry = table[k]
            => request[h].account = k

StreakBounded == \A k \in Accounts : streak[k] <= FailedAttemptLimit

CountInv == PauseInv /\ Owned /\ StreakBounded /\ OnlyConsecutiveCounted

LEMMA CountInvInit == Init => CountInv
<1>1. SUFFICES ASSUME Init PROVE CountInv
  OBVIOUS
<1>2. /\ FailedAttemptLimit \in Nat \ {0}
      /\ \A k \in Accounts : table[k] = NoEntry /\ streak[k] = 0
      /\ \A h \in Handlers : request[h].step = "idle"
  BY <1>1, OptionsAssumption DEF Init, Idle
<1>3. Owned /\ StreakBounded /\ OnlyConsecutiveCounted
  BY <1>2 DEF Owned, StreakBounded, OnlyConsecutiveCounted, Tracked, At
<1>4. QED  BY <1>1, <1>3, PauseInvInit DEF CountInv

(* Facts about the state the steps below start from.                       *)
LEMMA CountFacts ==
  ASSUME CountInv
  PROVE  /\ request \in [Handlers -> Busy]
         /\ request \in [Handlers -> Request]
         /\ table \in [Accounts -> Entries \cup {NoEntry}]
         /\ entry \in [Entries -> Entry]
         /\ streak \in [Accounts -> Nat]
         /\ FailedAttemptLimit \in Nat \ {0}
         /\ NoEntry \notin Entries
BY BusyRequests, OptionsAssumption, AccountsAssumption
DEF CountInv, PauseInv, TypeOK, RequestsOK

(* A step of a request that writes neither table nor entries, and does not *)
(* come to hold an entry to count in.                                      *)
LEMMA OtherStep ==
  ASSUME CountInv, NEW h \in Handlers, NEW r, Set(h, r), TableUnchanged,
         r.step # "failing"
  PROVE  Owned' /\ StreakBounded' /\ OnlyConsecutiveCounted'
<1>1. \A g \in Handlers : At(g, "failing")' =>
          At(g, "failing") /\ request'[g] = request[g]
  BY CountFacts DEF Set, At
<1>2. QED
  BY <1>1 DEF CountInv, TableUnchanged, Owned, StreakBounded,
              OnlyConsecutiveCounted, Tracked

LEMMA CountStep ==
  ASSUME CountInv, NEW h \in Handlers, Check(h) \/ Prune(h) \/ Record(h)
  PROVE  Owned' /\ StreakBounded' /\ OnlyConsecutiveCounted'
<1>0. CountInv /\ Owned /\ StreakBounded /\ OnlyConsecutiveCounted
  BY DEF CountInv
<1>1. ASSUME NEW k \in Accounts, SignIn(h, k)
      PROVE  Owned' /\ StreakBounded' /\ OnlyConsecutiveCounted'
  <2>1. PICK r : Set(h, r) /\ r.step # "failing" /\ TableUnchanged
    BY <1>1 DEF SignIn, Idle
  <2>2. QED  BY <2>1, OtherStep
<1>2. CASE Paused(h) \/ Abandon(h)
  <2>1. Set(h, Idle) /\ TableUnchanged /\ Idle.step # "failing"
    BY <1>2 DEF Paused, Abandon, Idle
  <2>2. QED  BY <2>1, OtherStep
<1>3. CASE \/ Proceed(h) \/ WrongCredentials(h) \/ PruneIfNeeded(h)
           \/ PruneNext(h) \/ PruneEnd(h)
  <2>1. request[h] \in Request
    BY CountFacts
  <2>2. PICK r : Set(h, r) /\ r.step # "failing" /\ TableUnchanged
    BY <1>3, <2>1
    DEF Proceed, WrongCredentials, PruneIfNeeded, PruneNext, PruneEnd, Request
  <2>3. QED  BY <2>2, OtherStep
<1>4. CASE PruneEntry(h)
  <2>1. /\ UNCHANGED <<entry, now, streak>>
        /\ \A k \in Accounts : table'[k] \in {table[k], NoEntry}
    BY <1>4, CountFacts DEF PruneEntry
  <2>2. \A g \in Handlers : At(g, "failing")' =>
            /\ At(g, "failing") /\ request'[g] = request[g]
            /\ request[g].entry \in Entries
    BY <1>4, CountFacts DEF PruneEntry, Set, At, Busy, Request
  <2>3. Owned'
    BY <1>0, <2>1, <2>2, CountFacts DEF Owned
  <2>4. StreakBounded' /\ OnlyConsecutiveCounted'
    BY <1>0, <2>1 DEF StreakBounded, OnlyConsecutiveCounted, Tracked
  <2>5. QED  BY <2>3, <2>4
<1>5. CASE Get(h)
  <2> DEFINE a == request[h].account
  <2>1. a \in Accounts /\ table[a] \in Entries /\ request[h] \in Request
    BY <1>5, CountFacts DEF Get, At, Busy
  <2>2. /\ request'[h].entry = table[a] /\ request'[h].account = a
        /\ \A g \in Handlers \ {h} : request'[g] = request[g]
        /\ TableUnchanged
    BY <1>5, <2>1, CountFacts DEF Get, Set, Request
  <2>3. Owned'
    <3>1. \A k, m \in Accounts :
            table'[k] = table'[m] /\ table'[k] # NoEntry => k = m
      BY <1>0, <2>2 DEF Owned, TableUnchanged
    <3>2. ASSUME NEW g \in Handlers, NEW k \in Accounts,
                 At(g, "failing")', request'[g].entry = table'[k]
          PROVE  request'[g].account = k
      <4>1. CASE g = h
        <5>1. table[a] = table[k] /\ table[a] # NoEntry
          BY <2>1, <2>2, <3>2, <4>1, CountFacts DEF TableUnchanged
        <5>2. QED  BY <1>0, <2>1, <2>2, <4>1, <5>1 DEF Owned
      <4>2. CASE g # h
        BY <1>0, <2>2, <3>2, <4>2 DEF Owned, TableUnchanged, At
      <4>3. QED  BY <4>1, <4>2
    <3>3. QED  BY <3>1, <3>2 DEF Owned
  <2>4. QED
    BY <1>0, <2>2, <2>3
    DEF TableUnchanged, StreakBounded, OnlyConsecutiveCounted, Tracked
<1>6. CASE Add(h)
  <2> DEFINE a == request[h].account
  <2>1. a \in Accounts /\ table[a] = NoEntry /\ request[h] \in Request
    BY <1>6, CountFacts DEF Add, At, Busy
  <2>2. PICK e \in Entries \ Referenced :
          /\ table' = [table EXCEPT ![a] = e]
          /\ entry' = [entry EXCEPT ![e] = NewEntry]
          /\ Set(h, [request[h] EXCEPT !.step = "failing", !.entry = e])
    BY <1>6 DEF Add
  <2>3. /\ request'[h].entry = e /\ request'[h].account = a
        /\ \A g \in Handlers \ {h} : request'[g] = request[g]
        /\ streak' = streak
    BY <1>6, <2>1, <2>2, CountFacts DEF Add, Set, Request
  <2>4. /\ \A k \in Accounts : table[k] # e
        /\ \A g \in Handlers : request[g].entry # e
        /\ e # NoEntry
    BY <2>2, CountFacts DEF Referenced
  <2>5. /\ table'[a] = e
        /\ \A k \in Accounts \ {a} : table'[k] = table[k]
    BY <2>1, <2>2, CountFacts
  <2>6. Owned'
    <3>1. \A k, m \in Accounts :
            table'[k] = table'[m] /\ table'[k] # NoEntry => k = m
      BY <1>0, <2>4, <2>5 DEF Owned
    <3>2. ASSUME NEW g \in Handlers, NEW k \in Accounts,
                 At(g, "failing")', request'[g].entry = table'[k]
          PROVE  request'[g].account = k
      <4>1. CASE g = h
        BY <2>3, <2>4, <2>5, <3>2, <4>1
      <4>2. CASE g # h
        <5>1. request'[g] = request[g] /\ k # a
          BY <2>3, <2>4, <2>5, <3>2, <4>2
        <5>2. QED  BY <1>0, <2>5, <3>2, <5>1 DEF Owned, At
      <4>3. QED  BY <4>1, <4>2
    <3>3. QED  BY <3>1, <3>2 DEF Owned
  <2>7. entry'[e].failed = 0 /\ \A d \in Entries \ {e} : entry'[d] = entry[d]
    BY <2>2, CountFacts, NewEntryType
  <2>8. OnlyConsecutiveCounted'
    <3>1. ASSUME NEW k \in Accounts, table'[k] # NoEntry
          PROVE  \/ entry'[table'[k]].failed <= streak'[k]
                 \/ streak'[k] = FailedAttemptLimit
      <4>1. CASE k = a
        BY <2>3, <2>5, <2>7, <4>1, CountFacts
      <4>2. CASE k # a
        <5>1. table'[k] = table[k] /\ table[k] \in Entries \ {e}
          BY <2>4, <2>5, <3>1, <4>2, CountFacts
        <5>2. QED
          BY <1>0, <2>3, <2>7, <3>1, <5>1 DEF OnlyConsecutiveCounted, Tracked
      <4>3. QED  BY <4>1, <4>2
    <3>2. QED  BY <3>1 DEF OnlyConsecutiveCounted, Tracked
  <2>9. QED  BY <1>0, <2>3, <2>6, <2>8 DEF StreakBounded
<1>7. CASE RecordFailure(h)
  <2> DEFINE a == request[h].account
             e == request[h].entry
  <2>1. /\ At(h, "failing") /\ a \in Accounts /\ e \in Entries
        /\ request[h].at \in Nat /\ request[h].at <= now
        /\ entry[e] \in Entry /\ entry[e].paused <= now + PauseMinutes
        /\ now \in Nat /\ streak[a] \in Nat
    BY <1>7, CountFacts
    DEF RecordFailure, At, Busy, Request, CountInv, PauseInv, PauseHorizon, TypeOK
  <2>2. Failed(entry[e], request[h].at) \in Entry
        /\ Failed(entry[e], request[h].at).failed <= entry[e].failed + 1
    BY <2>1, FailedEntry
  <2>3. /\ entry' = [entry EXCEPT ![e] = Failed(entry[e], request[h].at)]
        /\ table' = table
        /\ streak' = [streak EXCEPT ![a] =
               IF streak[a] < FailedAttemptLimit THEN streak[a] + 1
                                                 ELSE streak[a]]
    BY <1>7 DEF RecordFailure
  <2>4. /\ entry'[e] = Failed(entry[e], request[h].at)
        /\ \A d \in Entries \ {e} : entry'[d] = entry[d]
    BY <2>1, <2>3, CountFacts
  <2>5. /\ streak'[a] = IF streak[a] < FailedAttemptLimit THEN streak[a] + 1
                                                         ELSE streak[a]
        /\ \A k \in Accounts \ {a} : streak'[k] = streak[k]
    BY <2>1, <2>3, CountFacts
  <2>6. StreakBounded'
    BY <1>0, <2>1, <2>5, CountFacts DEF StreakBounded
  <2>7. Owned'
    <3>1. \A g \in Handlers : At(g, "failing")' =>
              At(g, "failing") /\ request'[g] = request[g]
      BY <1>7, CountFacts DEF RecordFailure, Set, At, Idle
    <3>2. QED  BY <1>0, <2>3, <3>1 DEF Owned
  <2>8. OnlyConsecutiveCounted'
    <3>1. ASSUME NEW k \in Accounts, table[k] # NoEntry
          PROVE  \/ entry'[table[k]].failed <= streak'[k]
                 \/ streak'[k] = FailedAttemptLimit
      <4>0. /\ table[k] \in Entries /\ entry[table[k]].failed \in Nat
            /\ \/ entry[table[k]].failed <= streak[k]
               \/ streak[k] = FailedAttemptLimit
        BY <1>0, <3>1, CountFacts DEF OnlyConsecutiveCounted, Tracked, Entry
      <4>1. CASE table[k] = e
        <5>1. k = a
          BY <1>0, <2>1, <4>1 DEF Owned
        <5>2. entry'[e].failed \in Nat /\ entry'[e].failed <= entry[e].failed + 1
          BY <2>2, <2>4 DEF Entry
        <5>3. streak[a] <= FailedAttemptLimit
          BY <1>0, <2>1 DEF StreakBounded
        <5>4. CASE streak[a] < FailedAttemptLimit
          <6>1. streak'[a] = streak[a] + 1 /\ entry[e].failed <= streak[a]
            BY <2>1, <2>5, <4>0, <4>1, <5>1, <5>4, CountFacts
          <6>2. entry'[e].failed <= streak'[a]
            BY <2>1, <4>0, <4>1, <5>2, <6>1
          <6>3. QED  BY <4>1, <5>1, <6>2
        <5>5. CASE ~(streak[a] < FailedAttemptLimit)
          <6>1. streak'[a] = streak[a] /\ streak[a] = FailedAttemptLimit
            BY <2>1, <2>5, <5>3, <5>5, CountFacts
          <6>2. QED  BY <5>1, <6>1
        <5>6. QED  BY <5>4, <5>5
      <4>2. CASE table[k] # e /\ k # a
        BY <2>4, <2>5, <4>0, <4>2
      <4>3. CASE table[k] # e /\ k = a
        <5>1. entry'[table[k]] = entry[table[k]] /\ streak[k] <= FailedAttemptLimit
          BY <1>0, <2>4, <4>0, <4>3 DEF StreakBounded
        <5>2. CASE streak[k] < FailedAttemptLimit
          <6>1. streak'[k] = streak[k] + 1 /\ entry[table[k]].failed <= streak[k]
            BY <2>1, <2>5, <4>0, <4>3, <5>2, CountFacts
          <6>2. QED  BY <2>1, <4>0, <4>3, <5>1, <6>1
        <5>3. CASE ~(streak[k] < FailedAttemptLimit)
          BY <2>1, <2>5, <4>3, <5>1, <5>3, CountFacts
        <5>4. QED  BY <5>2, <5>3
      <4>4. QED  BY <4>1, <4>2, <4>3
    <3>2. QED  BY <2>3, <3>1 DEF OnlyConsecutiveCounted, Tracked
  <2>9. QED  BY <2>6, <2>7, <2>8
<1>8. CASE RecordSuccess(h)
  <2> DEFINE a == request[h].account
  <2>1. a \in Accounts
    BY <1>8, CountFacts DEF RecordSuccess, At, Busy
  <2>2. /\ table'[a] = NoEntry /\ streak'[a] = 0 /\ entry' = entry
        /\ \A k \in Accounts \ {a} :
              table'[k] = table[k] /\ streak'[k] = streak[k]
    BY <1>8, <2>1, CountFacts DEF RecordSuccess
  <2>3. \A g \in Handlers : At(g, "failing")' =>
            /\ At(g, "failing") /\ request'[g] = request[g]
            /\ request[g].entry \in Entries
    BY <1>8, CountFacts DEF RecordSuccess, Set, At, Idle, Busy, Request
  <2>4. Owned'
    BY <1>0, <2>2, <2>3, CountFacts DEF Owned
  <2>5. StreakBounded'
    BY <1>0, <2>1, <2>2, CountFacts DEF StreakBounded
  <2>6. OnlyConsecutiveCounted'
    BY <1>0, <2>2 DEF OnlyConsecutiveCounted, Tracked
  <2>7. QED  BY <2>4, <2>5, <2>6
<1>9. QED
  BY <1>1, <1>2, <1>3, <1>4, <1>5, <1>6, <1>7, <1>8
  DEF Check, Prune, Record

LEMMA CountInvNext == CountInv /\ [Next]_vars => CountInv'
<1>1. SUFFICES ASSUME CountInv, [Next]_vars PROVE CountInv'
  OBVIOUS
<1>2. PauseInv'
  BY <1>1, PauseInvNext DEF CountInv
<1>3. ASSUME NEW h \in Handlers, Check(h) \/ Prune(h) \/ Record(h)
      PROVE  Owned' /\ StreakBounded' /\ OnlyConsecutiveCounted'
  BY <1>1, <1>3, CountStep
<1>4. ASSUME Tick \/ UNCHANGED vars
      PROVE  Owned' /\ StreakBounded' /\ OnlyConsecutiveCounted'
  BY <1>1, <1>4
  DEF CountInv, Tick, vars, Owned, StreakBounded, OnlyConsecutiveCounted,
      Tracked, At
<1>5. ASSUME Restart
      PROVE  Owned' /\ StreakBounded' /\ OnlyConsecutiveCounted'
  <2>1. /\ FailedAttemptLimit \in Nat \ {0}
        /\ \A k \in Accounts : table'[k] = NoEntry /\ streak'[k] = 0
        /\ \A h \in Handlers : request'[h].step = "idle"
    BY <1>5, OptionsAssumption DEF Restart, Idle
  <2>2. QED
    BY <2>1 DEF Owned, StreakBounded, OnlyConsecutiveCounted,
                      Tracked, At
<1>6. Owned' /\ StreakBounded' /\ OnlyConsecutiveCounted'
  <2>1. CASE Next
    BY <1>1, <1>3, <1>4, <1>5, <2>1 DEF Next, CountInv
  <2>2. CASE UNCHANGED vars
    BY <1>4, <2>2 DEF CountInv
  <2>3. QED  BY <1>1, <2>1, <2>2
<1>7. QED  BY <1>2, <1>6 DEF CountInv

(* Failures from before a successful sign-in never count towards a pause,  *)
(* in whatever way requests overlap (RecordSuccess and RecordFailure,      *)
(* LoginThrottleService.cs:47-85).                                         *)
THEOREM ConsecutiveOnly == Spec => []OnlyConsecutiveCounted
<1>1. CountInv => OnlyConsecutiveCounted
  BY DEF CountInv
<1>2. QED  BY <1>1, CountInvInit, CountInvNext, PTL DEF Spec

-----------------------------------------------------------------------------
(* Running pauses.                                                         *)

\* A failure leaves a pause alone that runs past the time it was taken at.
LEMMA FailedKeepsPause ==
  ASSUME NEW e \in Entry, NEW at \in Nat, e.paused > at
  PROVE  Failed(e, at).paused = e.paused
BY DEF Failed, Entry

\* Nor does the pruning find such an entry stale.
LEMMA PausedNotStale ==
  ASSUME NEW e, NEW at, e.paused > at
  PROVE  ~Stale(e, at)
BY DEF Stale

LEMMA PauseStep ==
  ASSUME PauseInv, Next, NEW k \in Accounts, PauseLost(k)
  PROVE  \/ \E h \in Handlers : request[h].account = k /\ RecordSuccess(h)
         \/ \E h \in Handlers : /\ At(h, "inspecting") /\ request[h].pruned = k
                                /\ request[h].entry # table[k]
         \/ Restart
<1>. DEFINE e == table[k]
<1>1. /\ table \in [Accounts -> Entries \cup {NoEntry}] /\ entry \in [Entries -> Entry]
      /\ now \in Nat /\ e \in Entries /\ entry[e] \in Entry /\ entry[e].paused > now
      /\ table'[k] # e \/ entry'[e].paused # entry[e].paused
  BY DEF PauseLost, Tracked, PauseInv, TypeOK
<1>2. \A h \in Handlers : request[h].at \in Nat /\ entry[e].paused > request[h].at
  BY <1>1 DEF PauseInv, TypeOK, InTime, Request, Entry
<1>3. ASSUME TableUnchanged PROVE FALSE
  BY <1>1, <1>3 DEF TableUnchanged
<1>4. ASSUME NEW h \in Handlers, PruneEntry(h)
      PROVE  At(h, "inspecting") /\ request[h].pruned = k /\ request[h].entry # e
  <2>1. /\ table' # table /\ entry' = entry /\ Stale(entry[request[h].entry], request[h].at)
        /\ table' = [table EXCEPT ![request[h].pruned] = NoEntry]
    BY <1>1, <1>4 DEF PruneEntry
  <2>2. request[h].pruned = k
    BY <1>1, <2>1
  <2>3. request[h].entry # e
    BY <1>2, <2>1, PausedNotStale
  <2>4. QED  BY <1>4, <2>2, <2>3 DEF PruneEntry
<1>5. ASSUME NEW h \in Handlers, Add(h) PROVE FALSE
  <2>1. PICK f \in Entries \ Referenced :
           /\ table' = [table EXCEPT ![request[h].account] = f]
           /\ entry' = [entry EXCEPT ![f] = NewEntry]
    BY <1>5 DEF Add
  <2>2. f # e
    BY <2>1 DEF Referenced
  <2>3. table[request[h].account] = NoEntry /\ e # NoEntry
    BY <1>1, <1>5, AccountsAssumption DEF Add
  <2>4. QED  BY <1>1, <2>1, <2>2, <2>3
<1>6. ASSUME NEW h \in Handlers, RecordFailure(h) PROVE FALSE
  <2>1. /\ entry' = [entry EXCEPT ![request[h].entry] = Failed(@, request[h].at)]
        /\ table' = table
    BY <1>6 DEF RecordFailure
  <2>2. Failed(entry[e], request[h].at).paused = entry[e].paused
    BY <1>1, <1>2, FailedKeepsPause
  <2>3. QED  BY <1>1, <2>1, <2>2
<1>7. ASSUME NEW h \in Handlers, RecordSuccess(h) PROVE request[h].account = k
  <2>1. table' = [table EXCEPT ![request[h].account] = NoEntry] /\ entry' = entry
    BY <1>7 DEF RecordSuccess
  <2>2. QED  BY <1>1, <2>1
<1>8. ASSUME Tick PROVE FALSE
  BY <1>1, <1>8 DEF Tick
<1>9. ASSUME NEW h \in Handlers, Check(h) PROVE FALSE
  BY <1>3, <1>9 DEF Check, SignIn, Paused, Proceed, Abandon
<1>10. ASSUME NEW h \in Handlers, Prune(h) PROVE PruneEntry(h)
  BY <1>3, <1>10 DEF Prune, PruneIfNeeded, PruneNext, PruneEnd
<1>11. ASSUME NEW h \in Handlers, Record(h) PROVE RecordSuccess(h)
  BY <1>3, <1>5, <1>6, <1>11 DEF Record, WrongCredentials, Get
<1>12. QED  BY <1>4, <1>7, <1>8, <1>9, <1>10, <1>11 DEF Next

(* Failures and pruning that race, with times taken before they waited for *)
(* a lock, neither shorten nor lose a running pause, but for the three     *)
(* ways PauseKept names (LoginThrottleService.cs:56-80, 88-106).           *)
THEOREM PausesAreKept == Spec => PauseKept
<1>1. PauseInv /\ [Next]_vars =>
        [\A k \in Accounts : PauseLost(k) =>
          \/ \E h \in Handlers : request[h].account = k /\ RecordSuccess(h)
          \/ \E h \in Handlers : /\ At(h, "inspecting") /\ request[h].pruned = k
                                 /\ request[h].entry # table[k]
          \/ Restart]_vars
  BY PauseStep
<1>2. QED  BY <1>1, PauseInvInit, PauseInvNext, PTL DEF Spec, PauseKept
=============================================================================

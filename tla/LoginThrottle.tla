--------------------------- MODULE LoginThrottle ---------------------------
(***************************************************************************)
(* Pausing sign-ins after repeated failures (LoginThrottleService, used by *)
(* AccountController.Login and PasskeyAssertionVerify): a concurrent       *)
(* dictionary from account names to entries, each under a lock of its own. *)
(* An entry taken from the dictionary stays in the hands of the requests   *)
(* that took it, also when another request removes it from there.          *)
(***************************************************************************)
EXTENDS Integers, FiniteSets

CONSTANTS
    Accounts,            \* normalized user names
    NoAccount,           \* the account of a handler that serves none
    Handlers,            \* web requests in flight at one time
    Entries,             \* identities of ThrottleEntry objects
    NoEntry,             \* no object
    FailedAttemptLimit,  \* LoginThrottleOptions, all three validated > 0
    PauseMinutes,
    FailureWindowMinutes,
    MaxTrackedAccounts,  \* 100_000 in the code
    MaxTime              \* bound: the clock stops here

ASSUME AccountsAssumption == NoAccount \notin Accounts /\ NoEntry \notin Entries
ASSUME OptionsAssumption ==
    {FailedAttemptLimit, PauseMinutes, FailureWindowMinutes} \subseteq Nat \ {0}
ASSUME BoundsAssumption == MaxTrackedAccounts \in Nat /\ MaxTime \in Nat

VARIABLES
    table,    \* _entries: table[k] is the entry of account k, or NoEntry
    entry,    \* entry[e]: the fields of object e
    request,  \* request[h]: the locals of the sign-in h is serving
    now,      \* ApplicationTime.UtcNow, in minutes
    streak    \* history: failures of k since its last success, up to the limit

vars == <<table, entry, request, now, streak>>

-----------------------------------------------------------------------------
(* Entries.  0 stands for a null time.                                     *)

Entry == [failed: Nat, last: Nat, paused: Nat]

NewEntry == [failed |-> 0, last |-> 0, paused |-> 0]

(* Mutant: the attempt after the limit starts the pause.                   *)
FailedLate(e, at) ==
    [failed |-> e.failed + 1, last |-> at,
     paused |-> IF e.failed >= FailedAttemptLimit THEN at + PauseMinutes
                ELSE e.paused]

(* Mutant: every further failure pushes the pause back.                    *)
FailedAgain(e, at) ==
    [failed |-> e.failed + 1, last |-> at,
     paused |-> IF e.failed + 1 >= FailedAttemptLimit
                THEN (IF e.paused > at THEN e.paused ELSE at) + PauseMinutes
                ELSE 0]

(* RecordFailure under the lock; at is the time the method was entered.    *)
Failed(e, at) ==
    LET lapsed == e.paused # 0 /\ e.paused <= at
        forgotten == e.last # 0 /\ e.last + FailureWindowMinutes <= at
        failed == (IF lapsed \/ forgotten THEN 0 ELSE e.failed) + 1
        paused == IF lapsed THEN 0 ELSE e.paused
    IN  [failed |-> failed,
         last   |-> at,
         paused |-> IF paused = 0 /\ failed >= FailedAttemptLimit
                    THEN at + PauseMinutes ELSE paused]

(* Mutant: a pause that is still running does not protect an entry.        *)
StaleIfOld(e, at) == e.last = 0 \/ e.last < at - FailureWindowMinutes

(* PruneIfNeeded under the lock.  An entry just added has no failure yet.  *)
Stale(e, at) ==
    /\ ~(e.paused > at)
    /\ e.last = 0 \/ e.last < at - FailureWindowMinutes

-----------------------------------------------------------------------------
Steps == {"idle", "checking", "verifying", "counting", "pruning",
          "inspecting", "adding", "failing"}

Request == [step: Steps, account: Accounts \cup {NoAccount},
            entry: Entries \cup {NoEntry}, at: Nat,
            todo: SUBSET Accounts, pruned: Accounts \cup {NoAccount}]

Idle == [step |-> "idle", account |-> NoAccount, entry |-> NoEntry, at |-> 0,
         todo |-> {}, pruned |-> NoAccount]

At(h, step) == request[h].step = step

Set(h, r) == request' = [request EXCEPT ![h] = r]

Tracked == {k \in Accounts : table[k] # NoEntry}

Referenced == {table[k] : k \in Accounts} \cup {request[h].entry : h \in Handlers}

TableUnchanged == UNCHANGED <<table, entry, now, streak>>

-----------------------------------------------------------------------------
(* GetPauseExpiryUtc: the entry is looked up, then locked and read.        *)

SignIn(h, k) ==
    /\ At(h, "idle")
    /\ Set(h, [Idle EXCEPT
          !.step = IF table[k] = NoEntry THEN "verifying" ELSE "checking",
          !.account = k, !.entry = table[k]])
    /\ TableUnchanged

Paused(h) ==
    /\ At(h, "checking") /\ entry[request[h].entry].paused > now
    /\ Set(h, Idle)
    /\ TableUnchanged

Proceed(h) ==
    /\ At(h, "checking") /\ ~(entry[request[h].entry].paused > now)
    /\ Set(h, [request[h] EXCEPT !.step = "verifying", !.entry = NoEntry])
    /\ TableUnchanged

(* The user cannot be loaded, or the passkey session has expired.          *)
Abandon(h) ==
    /\ At(h, "verifying")
    /\ Set(h, Idle)
    /\ TableUnchanged

-----------------------------------------------------------------------------
(* RecordFailure, with PruneIfNeeded when the table is full.               *)

WrongCredentials(h) ==
    /\ At(h, "verifying")
    /\ Set(h, [request[h] EXCEPT !.step = "counting", !.at = now])
    /\ TableUnchanged

PruneIfNeeded(h) ==
    /\ At(h, "counting")
    /\ IF Cardinality(Tracked) < MaxTrackedAccounts
       THEN Set(h, [request[h] EXCEPT !.step = "adding"])
       ELSE Set(h, [request[h] EXCEPT !.step = "pruning", !.todo = Tracked])
    /\ TableUnchanged

(* The enumeration hands out pairs; the table may change meanwhile.        *)
PruneNext(h) ==
    /\ At(h, "pruning")
    /\ \E k \in request[h].todo \cap Tracked :
          Set(h, [request[h] EXCEPT !.step = "inspecting", !.entry = table[k],
                                    !.pruned = k, !.todo = @ \ {k}])
    /\ TableUnchanged

(* TryRemove is by key, whatever entry the key has by now.                 *)
PruneEntry(h) ==
    /\ At(h, "inspecting")
    /\ table' = IF Stale(entry[request[h].entry], request[h].at)
                THEN [table EXCEPT ![request[h].pruned] = NoEntry] ELSE table
    /\ Set(h, [request[h] EXCEPT !.step = "pruning", !.entry = NoEntry,
                                 !.pruned = NoAccount])
    /\ UNCHANGED <<entry, now, streak>>

PruneEnd(h) ==
    /\ At(h, "pruning") /\ request[h].todo \cap Tracked = {}
    /\ Set(h, [request[h] EXCEPT !.step = "adding", !.todo = {}])
    /\ TableUnchanged

Get(h) ==
    /\ At(h, "adding") /\ table[request[h].account] # NoEntry
    /\ Set(h, [request[h] EXCEPT !.step = "failing",
                                 !.entry = table[request[h].account]])
    /\ TableUnchanged

Add(h) ==
    /\ At(h, "adding") /\ table[request[h].account] = NoEntry
    /\ \E e \in Entries \ Referenced :
          /\ table' = [table EXCEPT ![request[h].account] = e]
          /\ entry' = [entry EXCEPT ![e] = NewEntry]
          /\ Set(h, [request[h] EXCEPT !.step = "failing", !.entry = e])
    /\ UNCHANGED <<now, streak>>

RecordFailure(h) ==
    /\ At(h, "failing")
    /\ entry' = [entry EXCEPT ![request[h].entry] = Failed(@, request[h].at)]
    /\ streak' = [streak EXCEPT ![request[h].account] =
                     IF @ < FailedAttemptLimit THEN @ + 1 ELSE @]
    /\ Set(h, Idle)
    /\ UNCHANGED <<table, now>>

-----------------------------------------------------------------------------
(* Mutant: a success forgives the failures of a later day only.            *)
RecordSuccessLate(h) ==
    /\ At(h, "verifying")
    /\ table' = [table EXCEPT ![request[h].account] =
                    IF @ # NoEntry /\ entry[@].last = now THEN @ ELSE NoEntry]
    /\ streak' = [streak EXCEPT ![request[h].account] = 0]
    /\ Set(h, Idle)
    /\ UNCHANGED <<entry, now>>

RecordSuccess(h) ==
    /\ At(h, "verifying")
    /\ table' = [table EXCEPT ![request[h].account] = NoEntry]
    /\ streak' = [streak EXCEPT ![request[h].account] = 0]
    /\ Set(h, Idle)
    /\ UNCHANGED <<entry, now>>

Tick ==
    /\ now < MaxTime
    /\ now' = now + 1
    /\ UNCHANGED <<table, entry, request, streak>>

(* The table is in memory only.                                            *)
Restart ==
    /\ table' = [k \in Accounts |-> NoEntry]
    /\ entry' = [e \in Entries |-> NewEntry]
    /\ request' = [h \in Handlers |-> Idle]
    /\ streak' = [k \in Accounts |-> 0]
    /\ UNCHANGED now

Init ==
    /\ table = [k \in Accounts |-> NoEntry]
    /\ entry = [e \in Entries |-> NewEntry]
    /\ request = [h \in Handlers |-> Idle]
    /\ now = 1
    /\ streak = [k \in Accounts |-> 0]

Check(h) ==
    (\E k \in Accounts : SignIn(h, k)) \/ Paused(h) \/ Proceed(h) \/ Abandon(h)

Prune(h) == PruneIfNeeded(h) \/ PruneNext(h) \/ PruneEntry(h) \/ PruneEnd(h)

Record(h) ==
    \/ WrongCredentials(h) \/ Get(h) \/ Add(h) \/ RecordFailure(h)
    \/ RecordSuccess(h)

Next ==
    \/ \E h \in Handlers : Check(h) \/ Prune(h) \/ Record(h)
    \/ Tick
    \/ Restart

Spec == Init /\ [][Next]_vars

-----------------------------------------------------------------------------
(* Properties.                                                             *)

(* Type invariant of the table, its entries and the requests' locals: a    *)
(* request that checks, inspects or counts holds an entry.                 *)
TypeOK ==
    /\ table \in [Accounts -> Entries \cup {NoEntry}]
    /\ entry \in [Entries -> Entry]
    /\ request \in [Handlers -> Request]
    /\ \A h \in Handlers :
          /\ At(h, "idle") \/ request[h].account \in Accounts
          /\ request[h].step \in {"checking", "inspecting", "failing"}
                => request[h].entry \in Entries
          /\ At(h, "inspecting") => request[h].pruned \in Accounts
    /\ now \in Nat
    /\ streak \in [Accounts -> Nat]

(* "How long sign-in stays paused for the account once the limit is        *)
(* reached" (LoginThrottleOptions.cs:10): however many failures race, with *)
(* times taken before they waited for the lock, no pause ends later than   *)
(* PauseMinutes from now.                                                  *)
PauseHorizon == \A e \in Entries : entry[e].paused <= now + PauseMinutes

(* "Consecutive failed sign-in attempts per account before the pause       *)
(* starts" (LoginThrottleOptions.cs:7): an entry that has reached the      *)
(* limit is paused, or was until the pause lapsed; no order of failures    *)
(* lets the count pass the limit unnoticed.                                *)
LimitPauses ==
    \A e \in Entries :
        entry[e].failed >= FailedAttemptLimit => entry[e].paused # 0

(* The other half of it, "consecutive": failures from before a successful  *)
(* sign-in (RecordSuccess, LoginThrottleService.cs:82) never count towards *)
(* a pause of the account, also when the failing requests overlap with the *)
(* successful one.                                                         *)
OnlyConsecutiveCounted ==
    \A k \in Tracked :
        LET failed == entry[table[k]].failed
        IN  failed <= streak[k] \/ streak[k] = FailedAttemptLimit

(* A running pause is neither shortened nor lost, but for three ways: a    *)
(* sign-in that was let through before the pause began succeeds, a pruning *)
(* that inspected an older entry of the account removes the new one, or    *)
(* the process ends (LoginThrottleService.cs:82, 100).                     *)
PauseLost(k) ==
    /\ k \in Tracked /\ entry[table[k]].paused > now
    /\ table'[k] # table[k] \/ entry'[table[k]].paused # entry[table[k]].paused

PauseKept ==
    [][\A k \in Accounts : PauseLost(k) =>
          \/ \E h \in Handlers : request[h].account = k /\ RecordSuccess(h)
          \/ \E h \in Handlers : /\ At(h, "inspecting") /\ request[h].pruned = k
                                 /\ request[h].entry # table[k]
          \/ Restart]_vars
=============================================================================

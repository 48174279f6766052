--------------------------- MODULE ShareLifecycle ---------------------------
(***************************************************************************)
(* What the store of secure shares promises its users, one atomic step per *)
(* operation: a share is created once, is opened or refused any number of  *)
(* times, and goes for good.  This is the protocol of DESIGN.md:131-140 as *)
(* the handlers of ShareController intend it; ShareAccess implements it    *)
(* when operations on one share do not overlap.                            *)
(***************************************************************************)
EXTENDS Integers

CONSTANTS
    Shares,         \* ids of the shares
    Limits,         \* failed attempts before a pause
    Pauses          \* lengths a pause may have

VARIABLES
    share,      \* share[s]: the state of share s
    clock       \* the time

vars == <<share, clock>>

Share == [phase: {"new", "live", "gone"}, attempts: Nat, paused: Nat,
          opened: Nat]

Blank == [phase |-> "new", attempts |-> 0, paused |-> 0, opened |-> 0]

Gone == [Blank EXCEPT !.phase = "gone"]

Live(s) == share[s].phase = "live"

Becomes(s, new) ==
    /\ share' = [share EXCEPT ![s] = new]
    /\ UNCHANGED clock

Publish(s) ==
    /\ share[s] = Blank
    /\ Becomes(s, [Blank EXCEPT !.phase = "live"])

(* Right email and code: allowed outside a pause; clears the failures.     *)
Open(s) ==
    /\ Live(s) /\ share[s].paused = 0
    /\ \E t \in 1..clock :
          /\ t >= share[s].opened
          /\ Becomes(s, [share[s] EXCEPT !.attempts = 0, !.opened = t])

(* A failed attempt counts one, and starts a pause exactly when the limit  *)
(* in force is reached.                                                    *)
Miss(s) ==
    /\ Live(s) /\ share[s].paused = 0
    /\ LET n == share[s].attempts + 1
       IN  \/ /\ \E limit \in Limits : n < limit
              /\ Becomes(s, [share[s] EXCEPT !.attempts = n])
           \/ /\ \E limit \in Limits : n >= limit
              /\ \E pause \in Pauses : \E until \in 1..(clock + pause) :
                    Becomes(s, [share[s] EXCEPT !.attempts = n,
                                                !.paused = until])

(* A pause ends when its time has come, never before.                      *)
Lapse(s) ==
    /\ Live(s) /\ share[s].paused # 0 /\ share[s].paused <= clock
    /\ Becomes(s, [share[s] EXCEPT !.attempts = 0, !.paused = 0])

Remove(S) ==
    /\ \A s \in S : Live(s)
    /\ share' = [s \in Shares |-> IF s \in S THEN Gone ELSE share[s]]
    /\ UNCHANGED clock

Advance == clock' = clock + 1 /\ UNCHANGED share

Init == share = [s \in Shares |-> Blank] /\ clock = 1

Next ==
    \/ \E s \in Shares : Publish(s) \/ Open(s) \/ Miss(s) \/ Lapse(s)
    \/ \E S \in SUBSET Shares : Remove(S)
    \/ Advance

Spec == Init /\ [][Next]_vars
=============================================================================

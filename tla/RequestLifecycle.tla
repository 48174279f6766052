-------------------------- MODULE RequestLifecycle --------------------------
(***************************************************************************)
(* What requester and partner may rely on for information requests, one    *)
(* atomic step per operation (DESIGN.md:141-160): the partner submits and  *)
(* resubmits until the expiration, the requester reads the last            *)
(* submission, extends and revokes.  Failed attempts and pauses, which     *)
(* work as for shares, are left out.                                       *)
(***************************************************************************)
EXTENDS Integers

CONSTANTS
    Requests,       \* ids of the requests
    Payloads,       \* encrypted responses
    ClientPayloads, \* those encrypted in the partner's browser
    NoPayload,      \* the response of a request nobody answered
    Lifetimes,      \* hours a request may be created for
    Extensions      \* hours it may be extended by

VARIABLES
    item,       \* item[r]: the state of request r
    clock       \* the time

vars == <<item, clock>>

Blank == [phase |-> "new", expires |-> 0, payload |-> NoPayload,
          mode |-> "server"]

Live(r) == item[r].phase = "live"

Becomes(r, new) ==
    /\ item' = [item EXCEPT ![r] = new]
    /\ UNCHANGED clock

ModeOf(p) == IF p \in ClientPayloads THEN "client" ELSE "server"

Publish(r) ==
    /\ item[r] = Blank
    /\ \E hours \in Lifetimes :
          Becomes(r, [Blank EXCEPT !.phase = "live", !.expires = clock + hours])

(* The response and how it is encrypted change together.                   *)
Submit(r) ==
    /\ Live(r)
    /\ \E p \in Payloads \ {item[r].payload} :
          Becomes(r, [item[r] EXCEPT !.payload = p, !.mode = ModeOf(p)])

(* Counted from the expiration, or from a time when it has passed.         *)
Extend(r) ==
    /\ Live(r)
    /\ \E hours \in Extensions, t \in 1..clock :
          Becomes(r, [item[r] EXCEPT
              !.expires = (IF @ > t THEN @ ELSE t) + hours])

Remove(S) ==
    /\ \A r \in S : Live(r)
    /\ item' = [r \in Requests |->
                   IF r \in S THEN [Blank EXCEPT !.phase = "gone"] ELSE item[r]]
    /\ UNCHANGED clock

Advance == clock' = clock + 1 /\ UNCHANGED item

Init == item = [r \in Requests |-> Blank] /\ clock = 1

Next ==
    \/ \E r \in Requests : Publish(r) \/ Submit(r) \/ Extend(r)
    \/ \E S \in SUBSET Requests : Remove(S)
    \/ Advance

Spec == Init /\ [][Next]_vars
=============================================================================

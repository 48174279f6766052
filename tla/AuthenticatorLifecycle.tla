----------------------- MODULE AuthenticatorLifecycle -----------------------
(***************************************************************************)
(* What the authenticator app of a local account promises, one atomic step *)
(* per operation: a new setup is offered beside the old one, which "remains*)
(* active until the new code is verified" (sekura/README.md:197), and a    *)
(* code counts once and completes one sign-in at most.  Authenticators     *)
(* implements it when the requests of an account do not overlap.           *)
(***************************************************************************)
EXTENDS Integers

CONSTANTS
    Secrets,    \* secrets a setup may have
    NoSecret,   \* no setup
    Steps       \* time steps of codes

VARIABLES
    active,     \* the setup that codes are verified with
    offered,    \* the setup that waits for its first code
    spent,      \* the codes that were accepted
    admitted    \* those that completed a sign-in

vars == <<active, offered, spent, admitted>>

Codes == [secret: Secrets, step: Steps]

(* Later than every code accepted before.                                  *)
Newest(c) == \A d \in spent : d.secret = c.secret => d.step < c.step

Offer(s) ==
    /\ offered = NoSecret /\ s # active /\ \A c \in spent : c.secret # s
    /\ offered' = s
    /\ UNCHANGED <<active, spent, admitted>>

Confirm(c) ==
    /\ c.secret = offered
    /\ active' = offered /\ offered' = NoSecret
    /\ spent' = spent \cup {c}
    /\ UNCHANGED admitted

Accept(c) ==
    /\ c.secret = active /\ Newest(c)
    /\ spent' = spent \cup {c}
    /\ UNCHANGED <<active, offered, admitted>>

(* At once or never: before the setup in force changes.                    *)
SignIn(c) ==
    /\ c \in spent \ admitted /\ c.secret = active
    /\ admitted' = admitted \cup {c}
    /\ UNCHANGED <<active, offered, spent>>

Reset ==
    /\ active' = NoSecret /\ offered' = NoSecret
    /\ UNCHANGED <<spent, admitted>>

Init == active = NoSecret /\ offered = NoSecret /\ spent = {} /\ admitted = {}

Next ==
    \/ \E s \in Secrets : Offer(s)
    \/ \E c \in Codes : Confirm(c) \/ Accept(c) \/ SignIn(c)
    \/ Reset

Spec == Init /\ [][Next]_vars
=============================================================================
